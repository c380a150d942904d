----------------------------- MODULE ModsProofs -----------------------------
(***************************************************************************)
(* The loader (src/engine/loader/engine.rs), for any builds, games and     *)
(* requests, however deep its stack of calls gets: all the run of Mods     *)
(* checks but Answered, which is liveness, and that it implements Game.    *)
(*                                                                         *)
(* The invariant, IInv, is about the stack.  Each entry sits on what it    *)
(* may lie on, and on nothing that must not be anywhere below it (Sits);   *)
(* and it stands: what it was checked for when it was pushed is still so   *)
(* (Stands), whatever ran on top of it.  The running flags, the frame, the *)
(* states that wait between two builds and the cached plan are each told   *)
(* by the entries (RunOf, FrameOf, StatesOf, SessionOf).  Every action     *)
(* pushes, swaps or cuts off entries, so its lemma (...Keeps) is one about *)
(* the entries it touches, and says of those below that they still stand.  *)
(*                                                                         *)
(* What load_batch checked holds when it swaps, many steps later, because  *)
(* BatchOK does all the while: under a batch is only code of residents     *)
(* (Calm), and hooks of those it lets go.                                  *)
(***************************************************************************)
EXTENDS ModsRefinement, WellFoundedInduction, FiniteSetTheorems, TLAPS

-----------------------------------------------------------------------------
(* The stack, as a sequence of entries.                                    *)
Taken  == {"retiring", "unloading", "closing"}   \* these have the list of mods
Shared == {"loading", "message", "system"}       \* and these read it
Leaves == {"unload", "close"}                    \* a build's last hooks

IsCode(e) == e.kind \in CodeKinds
Own(e)    == IsCode(e) /\ e.kind # "handler"
Holds(e)  == e.kind = "stepping" \/ (IsCode(e) /\ e.holds)

(* What an entry may be the first of, and what it may lie on.              *)
Starts(e) ==
  \/ e.kind \in {"run", "closing", "retiring", "loading"}
  \/ e.kind = "pump" /\ e.mod = None

Follows(b, e) ==
  \/ /\ IsCode(b) /\ b.kind \notin Leaves /\ ~Holds(b)
     /\ e.kind \in {"serve", "stepping"} \/ (e.kind = "pump" /\ e.mod = b.mod)
  \/ Holds(b) /\ e.kind = "system"
  \/ /\ b.kind = "pump"
     /\ \/ e.kind \in {"message", "retiring", "loading", "unloading"}
        \/ e.kind = "handler" /\ e.mod = b.mod
  \/ b.kind = "loading" /\ e.kind = "load"
  \/ /\ b.kind = "retiring" /\ b.todo # <<>>
     /\ e.kind = b.told /\ e.kind \in Leaves /\ e.mod = Head(b.todo).mod
  \/ b.kind \in {"unloading", "closing"} /\ e.kind = "close" /\ e.mod = b.mod

(* What may be anywhere below it: only last hooks run while the list is    *)
(* taken, and nothing is pumped while it is read or a frame is open; a     *)
(* mod's code is there once, and for its pumps' handlers.                  *)
Pumping(e) == e.kind \in {"handler", "pump"} /\ e.mod # None

Clear(s, i) ==
  /\ \A j \in 1..i - 1 : s[j].kind \in Taken => s[i].kind \in Leaves
  /\ s[i].kind = "pump" => \A j \in 1..i - 1 : s[j].kind \notin Shared /\ ~Holds(s[j])
  /\ s[i].kind \in Leaves => ~s[i].holds
  /\ s[i].kind = "loading" => \A j \in 1..i - 1 : IsCode(s[j]) => s[j].mod \notin ToSet(s[i].todo)
  /\ Own(s[i]) => ~s[i].was /\ \A j \in 1..i - 1 : IsCode(s[j]) => s[j].mod # s[i].mod
  /\ Pumping(s[i]) =>
       \E j \in 1..i - 1 : /\ Own(s[j]) /\ s[j].mod = s[i].mod
                           /\ \A k \in j + 1..i - 1 : Pumping(s[k]) /\ s[k].mod = s[i].mod

Sits(s, i) ==
  /\ IF i = 1 THEN Starts(s[i]) ELSE Follows(s[i - 1], s[i])
  /\ Clear(s, i)

-----------------------------------------------------------------------------
(* The rest of the state, as one record.                                   *)
World ==
  [loaded |-> loaded, build |-> build, failed |-> failed, running |-> running, state |-> state,
   transient |-> transient, plan |-> plan, frame |-> frame, session |-> session]

In(m, w)    == m \in ToSet(w.loaded)
RunIn(w)    == {w.build[m] : m \in ToSet(w.loaded)}
PlanIn(w)   == Keep([i \in DOMAIN w.loaded |-> w.build[w.loaded[i]]], {b \in Builds : b.system # NoSystem})

Distinct(s) == \A i, j \in DOMAIN s : s[i].mod = s[j].mod => i = j
Ordered(s)  == \A i, j \in DOMAIN s : i < j => s[j].mod \notin Deps(s[i])

(* A batch that is under way: it was accepted, and is of no build that is  *)
(* kept; the states of those not yet told are the old builds', those       *)
(* handed over are the new ones'.                                          *)
Handed(e, o, w) ==
  /\ o \notin ToSet(e.todo) => w.state[o.mod] = o.schema /\ w.transient[o.mod] = NoBuild
  /\ o \in ToSet(e.todo) /\ (e.told = None \/ o # Head(e.todo)) =>
       w.state[o.mod] = w.build[o.mod].schema
  /\ e.told # None /\ o = Head(e.todo) => w.transient[o.mod] = NoBuild
  /\ e.told = "unload" /\ o = Head(e.todo) =>
       w.state[o.mod] = w.build[o.mod].schema /\ Carried(w.build[o.mod].schema, o.schema)

BatchOK(e, w) ==
  /\ Distinct(e.batch) /\ Ordered(e.batch) /\ Distinct(e.todo)
  /\ ToSet(e.todo) \subseteq ToSet(e.batch)
  /\ Linked(After(RunIn(w), ToSet(e.batch))) /\ Plannable(After(RunIn(w), ToSet(e.batch)))
  /\ w.plan = NoPlan
  /\ e.told # None => e.todo # <<>> /\ In(Head(e.todo).mod, w)
  /\ \A o \in ToSet(e.batch) : In(o.mod, w) => ~w.build[o.mod].resident /\ Handed(e, o, w)

LoadingOK(e, w) ==
  /\ \A m \in ToSet(e.todo) : In(m, w)
  /\ \A i, j \in DOMAIN e.todo : i < j => e.todo[j] \notin Deps(w.build[e.todo[i]])

CodeOK(e, w) ==
  /\ e.build = w.build[e.mod] /\ w.state[e.mod] = e.build.schema
  /\ e.kind \notin Leaves => In(e.mod, w)
  /\ e.kind \notin {"load"} \union Leaves => ~w.failed[e.mod]

Stands(s, i, w) ==
  /\ IsCode(s[i]) => CodeOK(s[i], w)
  /\ s[i].kind = "load" => Deps(s[i].build) \intersect ToSet(s[i - 1].todo) = {}
  /\ s[i].kind = "pump" => \A j \in 1..i - 1 : IsCode(s[j]) => w.build[s[j].mod].resident
  /\ s[i].kind = "retiring" => BatchOK(s[i], w)
  /\ s[i].kind = "loading" => LoadingOK(s[i], w)
  /\ s[i].kind \in {"unloading", "closing"} => ~In(s[i].mod, w)

StackOf(s, w) == s \in Seq(Entries) /\ \A i \in 1..Len(s) : Sits(s, i) /\ Stands(s, i, w)

-----------------------------------------------------------------------------
RunOf(s, w) ==
  \A m \in Names : w.running[m] <=> \E i \in 1..Len(s) : IsCode(s[i]) /\ s[i].mod = m

NodeRecord == [what : {"system", "apply"}, build : Builds]

FrameOK(f) ==
  /\ f \in [nodes : Seq(NodeRecord), logs : SUBSET Nat, open : BOOLEAN]
  /\ f.logs \subseteq DOMAIN f.nodes
  /\ \A n \in DOMAIN f.nodes : f.nodes[n].what = "apply" =>
       n - 1 \in DOMAIN f.nodes /\ f.nodes[n - 1].build = f.nodes[n].build

FrameOf(s, w) ==
  /\ FrameOK(w.frame)
  /\ w.frame.open <=> \E i \in 1..Len(s) : Holds(s[i])
  /\ \A i, j \in 1..Len(s) : Holds(s[i]) /\ Holds(s[j]) => i = j
  /\ \A i \in 1..Len(s) : s[i].kind = "system" =>
       /\ s[i].node \in DOMAIN w.frame.nodes
       /\ w.frame.nodes[s[i].node].build.mod = s[i].mod
  /\ \A h \in 1..Len(s) : Holds(s[h]) =>
       \A k \in 1..h : IsCode(s[k]) =>
         \A n \in w.frame.logs : s[k].mod # w.frame.nodes[n].build.mod

StatesOf(s, w) ==
  \A m \in ToSet(w.loaded) :
    \/ w.state[m] = w.build[m].schema
    \/ \E i \in 1..Len(s) : s[i].kind = "retiring" /\ \E o \in ToSet(s[i].batch) : o.mod = m

ModsOK(w) ==
  /\ w.loaded \in Seq(Names)
  /\ \A i, j \in DOMAIN w.loaded : w.loaded[i] = w.loaded[j] => i = j
  /\ w.build \in [Names -> Builds \union {NoBuild}]
  /\ w.failed \in [Names -> BOOLEAN] /\ w.running \in [Names -> BOOLEAN]
  /\ w.state \in [Names -> {b.schema : b \in Builds} \union {NoState, Dropped}]
  /\ w.transient \in [Names -> Builds \union {NoBuild}]
  /\ w.plan \in Seq(Builds) \union {NoPlan}
  /\ \A m \in ToSet(w.loaded) : w.build[m] \in Builds /\ w.build[m].mod = m
  /\ \A m \in Names : w.transient[m] \in {NoBuild, w.build[m]}
  /\ \A m \in Names \ ToSet(w.loaded) : w.transient[m] = NoBuild

SessionOf(s, w) ==
  /\ w.session \in {"starting", "running", "ending", "over"}
  /\ w.session = "starting" => w.loaded = <<>>
  /\ w.session # "running" /\ s # <<>> => w.session = "ending" /\ s[1].kind = "closing"
  /\ w.session = "running" => \A i \in 1..Len(s) : s[i].kind # "closing"
  /\ w.session = "running" =>
       /\ Linked(RunIn(w)) /\ Plannable(RunIn(w))
       /\ w.plan # NoPlan => w.plan = PlanIn(w)
       /\ w.frame.open => w.frame.nodes = Nodes(PlanIn(w))

Core(s, w) ==
  StackOf(s, w) /\ RunOf(s, w) /\ FrameOf(s, w) /\ StatesOf(s, w) /\ ModsOK(w) /\ SessionOf(s, w)

IInv ==
  /\ Core(stack, World)
  /\ inbox \in Seq(Requests) /\ quitting \in BOOLEAN /\ game \in Games

-----------------------------------------------------------------------------
(* A set of numbers that is not empty has a least one.                     *)
LEMMA LeastOfNats ==
  ASSUME NEW T \in SUBSET Nat, T # {}
  PROVE  \E x \in T : \A y \in T : x <= y
<1> DEFINE R == OpToRel(<, Nat)
<1>1. IsWellFoundedOn(R, Nat)
  BY NatLessThanWellFounded
<1>2. R = {p \in Nat \X Nat : p[1] < p[2]}
  BY DEF OpToRel
<1> HIDE DEF R
<1>3. \E x \in T : \A y \in T : <<y, x>> \notin R
  BY <1>1, WFMin
<1>4. ASSUME NEW x \in T, \A y \in T : <<y, x>> \notin R, NEW y \in T
      PROVE  x <= y
  <2>1. ~ (y < x)
    BY <1>2, <1>4
  <2> QED BY <2>1
<1> QED BY <1>3, <1>4

(* Induction over the numbers, for a set.                                  *)
LEMMA ByInduction ==
  ASSUME NEW T, 0 \in T, \A n \in Nat : n \in T => n + 1 \in T
  PROVE  Nat \subseteq T
<1> SUFFICES ASSUME Nat \ T # {} PROVE FALSE
  OBVIOUS
<1>1. PICK x \in Nat \ T : \A y \in Nat \ T : x <= y
  BY LeastOfNats
<1>2. x # 0 /\ x - 1 \in Nat /\ x - 1 \notin T
  BY <1>1
<1>3. x <= x - 1
  BY <1>1, <1>2
<1> QED BY <1>1, <1>3

Recurs(f, c, step, n) ==
  f[0] = c /\ \A k \in 1..n : f[k] = step[<<k, f[k - 1]>>]

(* A recursive function over 0..m is defined: some function has c at 0,    *)
(* and at each k what step makes of k and the one before.                  *)
LEMMA Recursion ==
  ASSUME NEW S, NEW c \in S, NEW step \in [Nat \X S -> S], NEW m \in Nat
  PROVE  \E f \in [0..m -> S] : Recurs(f, c, step, m)
<1> DEFINE Good(f, n) == Recurs(f, c, step, n)
           T == {n \in Nat : \E f \in [0..n -> S] : Good(f, n)}
<1> USE DEF Recurs
<1>1. 0 \in T
  <2> DEFINE f == [i \in 0..0 |-> c]
  <2>1. f \in [0..0 -> S] /\ Good(f, 0)
    OBVIOUS
  <2> QED BY <2>1
<1>2. ASSUME NEW n \in Nat, n \in T PROVE n + 1 \in T
  <2>1. PICK f \in [0..n -> S] : Good(f, n)
    BY <1>2
  <2> DEFINE g == [i \in 0..n + 1 |-> IF i = n + 1 THEN step[<<n + 1, f[n]>>] ELSE f[i]]
  <2>2. step[<<n + 1, f[n]>>] \in S
    BY <2>1
  <2>3. g \in [0..n + 1 -> S]
    BY <2>1, <2>2
  <2>4. g[0] = c
    BY <2>1
  <2>5. ASSUME NEW k \in 1..n + 1 PROVE g[k] = step[<<k, g[k - 1]>>]
    <3>1. CASE k = n + 1
      <4>1. k - 1 = n /\ g[k] = step[<<n + 1, f[n]>>] /\ g[n] = f[n]
        BY <3>1
      <4> QED BY <3>1, <4>1
    <3>2. CASE k # n + 1
      <4>1. k \in 1..n /\ k - 1 \in 0..n /\ k - 1 # n + 1
        BY <3>2
      <4>2. g[k] = f[k] /\ g[k - 1] = f[k - 1]
        BY <4>1, <3>2
      <4> QED BY <2>1, <4>1, <4>2
    <3> QED BY <3>1, <3>2
  <2>6. Good(g, n + 1)
    BY <2>4, <2>5
  <2> HIDE DEF g
  <2> QED BY <2>3, <2>6
<1>3. Nat \subseteq T
  <2> HIDE DEF T
  <2> QED BY <1>1, <1>2, ByInduction
<1> QED BY <1>3

(* What is in a sequence, in one with an entry more, and in the rest of    *)
(* one.                                                                    *)
LEMMA OfSequences ==
  /\ ToSet(<<>>) = {}
  /\ \A S : \A s \in Seq(S) :
       /\ ToSet(s) = {s[i] : i \in 1..Len(s)} /\ DOMAIN s = 1..Len(s) /\ ToSet(s) \subseteq S
       /\ \A x \in S : Append(s, x) \in Seq(S) /\ ToSet(Append(s, x)) = ToSet(s) \union {x}
       /\ s # <<>> => /\ Head(s) \in S /\ Tail(s) \in Seq(S)
                      /\ ToSet(s) = {Head(s)} \union ToSet(Tail(s))
<1>1. ToSet(<<>>) = {}
  BY DEF ToSet
<1>0. ASSUME NEW S, NEW s \in Seq(S) PROVE ToSet(s) = {s[i] : i \in 1..Len(s)}
  <2>1. DOMAIN s = 1..Len(s)
    OBVIOUS
  <2> QED BY <2>1 DEF ToSet
<1>2. ASSUME NEW S, NEW s \in Seq(S), NEW x \in S
      PROVE  Append(s, x) \in Seq(S) /\ ToSet(Append(s, x)) = ToSet(s) \union {x}
  <2>1. /\ Append(s, x) \in Seq(S) /\ Len(Append(s, x)) = Len(s) + 1 /\ Len(s) \in Nat
        /\ \A i \in 1..Len(s) : Append(s, x)[i] = s[i]
        /\ Append(s, x)[Len(s) + 1] = x
    OBVIOUS
  <2>2. ToSet(Append(s, x)) = {Append(s, x)[i] : i \in 1..Len(s) + 1} /\ ToSet(s) = {s[i] : i \in 1..Len(s)}
    BY <1>0, <2>1
  <2>3. \A i \in 1..Len(s) + 1 : i \in 1..Len(s) \/ i = Len(s) + 1
    BY <2>1
  <2>4. \A i \in 1..Len(s) : i \in 1..Len(s) + 1
    BY <2>1
  <2>5. Len(s) + 1 \in 1..Len(s) + 1
    BY <2>1
  <2> QED BY <2>1, <2>2, <2>3, <2>4, <2>5
<1>3. ASSUME NEW S, NEW s \in Seq(S), s # <<>>
      PROVE  /\ Head(s) \in S /\ Tail(s) \in Seq(S)
             /\ ToSet(s) = {Head(s)} \union ToSet(Tail(s))
  <2>1. Head(s) = s[1] /\ Head(s) \in S /\ Tail(s) \in Seq(S)
    BY <1>3
  <2>2. Len(Tail(s)) = Len(s) - 1 /\ \A i \in 1..Len(s) - 1 : Tail(s)[i] = s[i + 1]
    BY <1>3
  <2>3. ToSet(s) = {s[i] : i \in 1..Len(s)} /\ ToSet(Tail(s)) = {Tail(s)[i] : i \in 1..Len(Tail(s))}
    BY <1>0, <2>1
  <2>4. 1 \in 1..Len(s) /\ Len(s) \in Nat
    BY <1>3
  <2>5. ASSUME NEW i \in 1..Len(s) PROVE s[i] \in {Head(s)} \union ToSet(Tail(s))
    <3>1. CASE i = 1
      BY <2>1, <3>1
    <3>2. CASE i # 1
      <4>1. i - 1 \in 1..Len(s) - 1 /\ Tail(s)[i - 1] = s[i]
        BY <2>2, <2>4, <3>2
      <4> QED BY <2>2, <2>3, <4>1
    <3> QED BY <3>1, <3>2
  <2>6. ASSUME NEW i \in 1..Len(Tail(s)) PROVE Tail(s)[i] \in ToSet(s)
    <3>1. i + 1 \in 1..Len(s) /\ Tail(s)[i] = s[i + 1]
      BY <2>2, <2>4
    <3> QED BY <2>3, <3>1
  <2>7. Head(s) \in ToSet(s)
    BY <2>1, <2>3, <2>4
  <2> QED BY <2>1, <2>3, <2>5, <2>6, <2>7
<1>4. ASSUME NEW S, NEW s \in Seq(S) PROVE DOMAIN s = 1..Len(s) /\ ToSet(s) \subseteq S
  BY <1>0
<1> QED BY <1>0, <1>1, <1>2, <1>3, <1>4

(* Keep goes over its sequence entry by entry.                             *)
LEMMA KeepDef ==
  ASSUME NEW A, NEW s \in Seq(A), NEW S
  PROVE  \E f \in [0..Len(s) -> Seq(A)] :
           /\ f[0] = <<>> /\ Keep(s, S) = f[Len(s)]
           /\ \A k \in 1..Len(s) : f[k] = IF s[k] \in S THEN Append(f[k - 1], s[k]) ELSE f[k - 1]
<1> DEFINE n == Len(s)
           Body(f) == [k \in 0..Len(s) |-> IF k = 0 THEN <<>>
                         ELSE IF s[k] \in S THEN Append(f[k - 1], s[k]) ELSE f[k - 1]]
           kept == CHOOSE kept : kept = Body(kept)
           step == [p \in Nat \X Seq(A) |-> IF p[1] \in 1..n /\ s[p[1]] \in S THEN Append(p[2], s[p[1]]) ELSE p[2]]
<1>1. Keep(s, S) = kept[Len(s)]
  BY DEF Keep
<1>2. step \in [Nat \X Seq(A) -> Seq(A)]
  OBVIOUS
<1>3. n \in Nat /\ <<>> \in Seq(A)
  OBVIOUS
<1>4. PICK f \in [0..n -> Seq(A)] : Recurs(f, <<>>, step, n)
  <2> HIDE DEF step, n
  <2> DEFINE SA == Seq(A)
  <2>1. SA = Seq(A)
    OBVIOUS
  <2> HIDE DEF SA
  <2>2. <<>> \in SA /\ step \in [Nat \X SA -> SA] /\ n \in Nat
    BY <1>2, <1>3, <2>1
  <2>3. \E f \in [0..n -> SA] : Recurs(f, <<>>, step, n)
    BY <2>2, Recursion, Zenon
  <2> QED BY <2>1, <2>3
<1>5. ASSUME NEW k \in 1..n
      PROVE  f[k] = IF s[k] \in S THEN Append(f[k - 1], s[k]) ELSE f[k - 1]
  <2>0. k - 1 \in 0..n /\ k \in Nat
    BY <1>3
  <2>1. k - 1 \in 0..n /\ f[k - 1] \in Seq(A) /\ k \in Nat
    <3> HIDE DEF n, step
    <3> QED BY <2>0
  <2>2. \A x \in Seq(A) : step[<<k, x>>] = IF s[k] \in S THEN Append(x, s[k]) ELSE x
    BY <2>1
  <2>3. f[k] = step[<<k, f[k - 1]>>]
    BY <1>4 DEF Recurs
  <2> HIDE DEF step
  <2> QED BY <2>1, <2>2, <2>3
<1>6. f = Body(f)
  <2>1. f \in [0..Len(s) -> Seq(A)]
    BY <1>4
  <2>2. f = [k \in 0..Len(s) |-> f[k]]
    BY <2>1
  <2>3. ASSUME NEW k \in 0..Len(s) PROVE f[k] = Body(f)[k]
    <3>1. CASE k = 0
      BY <1>4, <3>1 DEF Recurs
    <3>2. CASE k # 0
      <4>1. k \in 1..n /\ k \in 0..Len(s)
        BY <1>3, <3>2
      <4>2. Body(f)[k] = IF s[k] \in S THEN Append(f[k - 1], s[k]) ELSE f[k - 1]
        BY <3>2, <4>1
      <4> QED BY <1>5, <4>1, <4>2
    <3> QED BY <3>1, <3>2
  <2> QED BY <2>2, <2>3
<1>7. kept = Body(kept)
  <2> HIDE DEF Body
  <2> QED BY <1>6
<1> HIDE DEF kept
<1>8. kept[0] = <<>> /\ \A k \in 1..Len(s) : kept[k] = IF s[k] \in S THEN Append(kept[k - 1], s[k]) ELSE kept[k - 1]
  <2>1. \A k \in 0..Len(s) : kept[k] = Body(kept)[k]
    BY <1>7
  <2>2. kept[0] = <<>>
    BY <1>3, <2>1
  <2>3. ASSUME NEW k \in 1..Len(s)
        PROVE  kept[k] = IF s[k] \in S THEN Append(kept[k - 1], s[k]) ELSE kept[k - 1]
    <3>1. k \in 0..Len(s) /\ k # 0
      BY <1>3
    <3>2. kept[k] = Body(kept)[k]
      BY <2>1, <3>1
    <3> QED BY <3>1, <3>2
  <2> QED BY <2>2, <2>3
<1> DEFINE T == {k \in Nat : k <= Len(s) => kept[k] \in Seq(A)}
<1>9. Nat \subseteq T
  <2>1. 0 \in T
    BY <1>3, <1>8
  <2>2. ASSUME NEW k \in Nat, k \in T PROVE k + 1 \in T
    <3>1. CASE k + 1 <= Len(s)
      <4>1. kept[k] \in Seq(A) /\ k + 1 \in 1..Len(s) /\ k + 1 - 1 = k
        BY <1>3, <2>2, <3>1
      <4>2. kept[k + 1] = IF s[k + 1] \in S THEN Append(kept[k], s[k + 1]) ELSE kept[k]
        BY <1>8, <4>1
      <4>3. s[k + 1] \in A
        BY <4>1
      <4>4. kept[k + 1] \in Seq(A)
        BY <4>1, <4>2, <4>3
      <4> QED BY <4>4
    <3>2. CASE ~(k + 1 <= Len(s))
      BY <3>2
    <3> QED BY <3>1, <3>2
  <2> HIDE DEF T
  <2> QED BY <2>1, <2>2, ByInduction
<1>10. kept \in [0..Len(s) -> Seq(A)]
  <2>1. kept = [k \in 0..Len(s) |-> kept[k]]
    BY <1>7
  <2>2. \A k \in 0..Len(s) : kept[k] \in Seq(A)
    BY <1>9
  <2> QED BY <2>1, <2>2
<1> QED BY <1>1, <1>8, <1>10

(* Keep returns what of a sequence is in a set, each entry once if it was  *)
(* (engine.rs: names.retain, the plan's systems).                          *)
LEMMA KeepProperties ==
  ASSUME NEW A, NEW s \in Seq(A), NEW S
  PROVE  /\ Keep(s, S) \in Seq(A) /\ ToSet(Keep(s, S)) = ToSet(s) \intersect S
         /\ (\A i, j \in DOMAIN s : s[i] = s[j] => i = j) =>
              \A i, j \in DOMAIN Keep(s, S) : Keep(s, S)[i] = Keep(s, S)[j] => i = j
<1>1. PICK f \in [0..Len(s) -> Seq(A)] :
        /\ f[0] = <<>> /\ Keep(s, S) = f[Len(s)]
        /\ \A k \in 1..Len(s) : f[k] = IF s[k] \in S THEN Append(f[k - 1], s[k]) ELSE f[k - 1]
  BY KeepDef
<1> DEFINE Upto(k) == {s[i] : i \in 1..k}
           Once(q) == \A i, j \in 1..Len(q) : q[i] = q[j] => i = j
           Good(k) == ToSet(f[k]) = Upto(k) \intersect S /\ (Once(s) => Once(f[k]))
           T == {k \in Nat : k <= Len(s) => Good(k)}
<1>0. Len(s) \in Nat /\ DOMAIN s = 1..Len(s) /\ \A i \in 1..Len(s) : s[i] \in A
  OBVIOUS
<1>2. 0 \in T
  <2>1. Upto(0) = {} /\ ToSet(f[0]) = {}
    BY <1>1, OfSequences
  <2>2. Once(f[0])
    BY <1>1
  <2> QED BY <2>1, <2>2
<1>3. ASSUME NEW k \in Nat, k \in T PROVE k + 1 \in T
  <2> SUFFICES ASSUME k + 1 <= Len(s) PROVE Good(k + 1)
    OBVIOUS
  <2>1. /\ Good(k) /\ k + 1 \in 1..Len(s) /\ k \in 0..Len(s) /\ k + 1 - 1 = k
        /\ s[k + 1] \in A /\ f[k] \in Seq(A)
    <3>1. k + 1 \in 1..Len(s) /\ k \in 0..Len(s) /\ k + 1 - 1 = k /\ k <= Len(s)
      BY <1>0
    <3>2. Good(k)
      <4> HIDE DEF Good
      <4> QED BY <1>3, <3>1
    <3> QED BY <1>0, <3>1, <3>2
  <2>2. f[k + 1] = IF s[k + 1] \in S THEN Append(f[k], s[k + 1]) ELSE f[k]
    BY <1>1, <2>1
  <2>3. Upto(k + 1) = Upto(k) \union {s[k + 1]}
    <3>1. \A i \in 1..k + 1 : i \in 1..k \/ i = k + 1
      OBVIOUS
    <3>2. \A i \in 1..k : i \in 1..k + 1
      OBVIOUS
    <3>3. k + 1 \in 1..k + 1
      OBVIOUS
    <3> QED BY <3>1, <3>2, <3>3
  <2>4. CASE s[k + 1] \notin S
    BY <2>1, <2>2, <2>3, <2>4
  <2>5. CASE s[k + 1] \in S
    <3>1. f[k + 1] = Append(f[k], s[k + 1])
      BY <2>2, <2>5
    <3>2. ToSet(f[k + 1]) = ToSet(f[k]) \union {s[k + 1]}
      BY <2>1, <3>1, OfSequences
    <3>3. ToSet(f[k + 1]) = Upto(k + 1) \intersect S
      BY <2>1, <2>3, <2>5, <3>2
    <3>4. ASSUME Once(s) PROVE Once(f[k + 1])
      <4>1. s[k + 1] \notin Upto(k)
        <5> SUFFICES ASSUME NEW i \in 1..k, s[k + 1] = s[i] PROVE FALSE
          OBVIOUS
        <5>1. i \in 1..Len(s) /\ i # k + 1
          BY <2>1
        <5> QED BY <2>1, <3>4, <5>1
      <4>2. \A i \in 1..Len(f[k]) : f[k][i] # s[k + 1]
        <5>1. ToSet(f[k]) = {f[k][i] : i \in 1..Len(f[k])}
          BY <2>1, OfSequences
        <5> QED BY <2>1, <4>1, <5>1
      <4>3. /\ Len(f[k]) \in Nat /\ Len(f[k + 1]) = Len(f[k]) + 1 /\ f[k + 1][Len(f[k]) + 1] = s[k + 1]
            /\ \A i \in 1..Len(f[k]) : f[k + 1][i] = f[k][i]
        BY <2>1, <3>1
      <4>4. Once(f[k])
        BY <2>1, <3>4
      <4> SUFFICES ASSUME NEW i \in 1..Len(f[k]) + 1, NEW j \in 1..Len(f[k]) + 1, f[k + 1][i] = f[k + 1][j]
                   PROVE  i = j
        BY <4>3
      <4> HIDE DEF Good, Upto
      <4>5. (i \in 1..Len(f[k]) \/ i = Len(f[k]) + 1) /\ (j \in 1..Len(f[k]) \/ j = Len(f[k]) + 1)
        BY <4>3
      <4> QED BY <4>2, <4>3, <4>4, <4>5
    <3> QED BY <3>3, <3>4
  <2> QED BY <2>4, <2>5
<1>4. Nat \subseteq T
  <2> HIDE DEF T
  <2> QED BY <1>2, <1>3, ByInduction
<1>5. Good(Len(s)) /\ f[Len(s)] \in Seq(A)
  <2>1. Len(s) \in T
    BY <1>0, <1>4
  <2>2. Good(Len(s))
    <3> HIDE DEF Good
    <3> QED BY <1>0, <2>1
  <2>3. Len(s) \in 0..Len(s)
    BY <1>0
  <2> QED BY <2>2, <2>3
<1>6. ToSet(s) = Upto(Len(s))
  BY OfSequences
<1>7. DOMAIN Keep(s, S) = 1..Len(Keep(s, S))
  BY <1>1, <1>5
<1> QED BY <1>0, <1>1, <1>5, <1>6, <1>7
(* How far the sort of a batch is: what was taken is of the batch, once, a *)
(* build after those it depends on, and depends on none that is left.      *)
Sorting(batch, left, x) ==
  /\ x.left \subseteq left /\ x.taken \in Seq(Builds)
  /\ ToSet(x.taken) = {batch[i] : i \in left \ x.left}
  /\ Distinct(x.taken) /\ Ordered(x.taken)
  /\ \A j \in x.left : \A o \in ToSet(x.taken) : batch[j].mod \notin Deps(o)

(* The least of a set of places is one of them.                            *)
LEMMA LeastIs ==
  ASSUME NEW T \in SUBSET Nat, T # {}
  PROVE  Least(T) \in T
BY LeastOfNats DEF Least

(* One round of the sort keeps what the sort promises.                     *)
LEMMA Takes ==
  ASSUME NEW batch \in Seq(Builds), Distinct(batch), NEW left \in SUBSET DOMAIN batch,
         NEW x \in [taken : Seq(Builds), left : SUBSET DOMAIN batch], Sorting(batch, left, x)
  PROVE  /\ TakeFree(batch, x) \in [taken : Seq(Builds), left : SUBSET DOMAIN batch]
         /\ Sorting(batch, left, TakeFree(batch, x))
<1> DEFINE free == Free(batch, x.left)
           i == Least(free)
           o == batch[i]
           y == TakeFree(batch, x)
<1>1. CASE free = {}
  BY <1>1 DEF TakeFree
<1>2. CASE free # {}
  <2>0. DOMAIN batch = 1..Len(batch) /\ Len(batch) \in Nat /\ x.left \subseteq DOMAIN batch
    OBVIOUS
  <2>1. i \in free
    <3>1. free \in SUBSET Nat
      BY <2>0 DEF Free
    <3> HIDE DEF free
    <3> QED BY <1>2, <3>1, LeastIs
  <2>2. i \in x.left /\ \A j \in x.left : batch[j].mod \notin Deps(o)
    BY <2>1 DEF Free
  <2>3. y = [taken |-> Append(x.taken, o), left |-> x.left \ {i}]
    BY <1>2 DEF TakeFree
  <2> HIDE DEF i, y, free
  <2>4. i \in DOMAIN batch /\ o \in Builds /\ x.taken \in Seq(Builds)
    BY <2>0, <2>2
  <2>5. y.taken = Append(x.taken, o) /\ y.left = x.left \ {i} /\ i \in left
    BY <2>2, <2>3 DEF Sorting
  <2>6. y \in [taken : Seq(Builds), left : SUBSET DOMAIN batch]
    BY <2>3, <2>4
  <2> HIDE DEF o
  <2>7. /\ Len(x.taken) \in Nat /\ DOMAIN x.taken = 1..Len(x.taken)
        /\ DOMAIN y.taken = 1..Len(x.taken) + 1 /\ y.taken[Len(x.taken) + 1] = o
        /\ \A k \in 1..Len(x.taken) : y.taken[k] = x.taken[k] /\ x.taken[k] \in ToSet(x.taken)
    <3>1. ToSet(x.taken) = {x.taken[k] : k \in 1..Len(x.taken)}
      BY <2>4, OfSequences
    <3> QED BY <2>4, <2>5, <3>1
  <2>8. ToSet(y.taken) = ToSet(x.taken) \union {o}
    BY <2>4, <2>5, OfSequences
  <2>9. ToSet(y.taken) = {batch[j] : j \in left \ y.left}
    <3>1. left \ y.left = (left \ x.left) \union {i}
      BY <2>2, <2>5
    <3>2. ToSet(x.taken) = {batch[j] : j \in left \ x.left} /\ o = batch[i]
      BY DEF Sorting, o
    <3> QED BY <2>8, <3>1, <3>2
  <2>10. \A q \in ToSet(x.taken) : q.mod # o.mod
    <3> SUFFICES ASSUME NEW q \in ToSet(x.taken), q.mod = o.mod PROVE FALSE
      OBVIOUS
    <3>1. PICK j \in left \ x.left : q = batch[j]
      BY DEF Sorting
    <3>2. j = i
      BY <2>4, <3>1 DEF Distinct, o
    <3> QED BY <2>2, <3>1, <3>2
  <2>11. \A q \in ToSet(x.taken) : o.mod \notin Deps(q)
    BY <2>2 DEF Sorting, o
  <2>12. \A k \in DOMAIN y.taken : k \in 1..Len(x.taken) \/ k = Len(x.taken) + 1
    BY <2>7
  <2>13. Distinct(y.taken)
    BY <2>7, <2>10, <2>12 DEF Sorting, Distinct
  <2>14. Ordered(y.taken)
    <3> SUFFICES ASSUME NEW k \in DOMAIN y.taken, NEW l \in DOMAIN y.taken, k < l
                 PROVE  y.taken[l].mod \notin Deps(y.taken[k])
      BY DEF Ordered
    <3>1. k \in 1..Len(x.taken)
      BY <2>7
    <3>2. CASE l = Len(x.taken) + 1
      BY <2>7, <2>11, <3>1, <3>2
    <3>3. CASE l \in 1..Len(x.taken)
      BY <2>7, <3>1, <3>3 DEF Sorting, Ordered
    <3> QED BY <2>12, <3>2, <3>3
  <2>15. \A j \in y.left : \A q \in ToSet(y.taken) : batch[j].mod \notin Deps(q)
    BY <2>2, <2>5, <2>8 DEF Sorting, o
  <2>16. Sorting(batch, left, y)
    <3>1. y.left \subseteq left /\ y.taken \in Seq(Builds)
      BY <2>5, <2>6 DEF Sorting
    <3> QED BY <2>9, <2>13, <2>14, <2>15, <3>1 DEF Sorting
  <2> QED BY <2>6, <2>16 DEF y
<1> QED BY <1>1, <1>2

(* One round of the sort takes one that is left, if any is free.            *)
LEMMA TakesOne ==
  ASSUME NEW batch \in Seq(Builds),
         NEW x \in [taken : Seq(Builds), left : SUBSET DOMAIN batch],
         Free(batch, x.left) # {}
  PROVE  /\ IsFiniteSet(x.left) /\ Cardinality(x.left) \in Nat
         /\ Cardinality(TakeFree(batch, x).left) = Cardinality(x.left) - 1
<1> DEFINE free == Free(batch, x.left)
           i == Least(free)
<1>1. DOMAIN batch = 1..Len(batch) /\ Len(batch) \in Nat /\ x.left \subseteq DOMAIN batch
  OBVIOUS
<1>2. IsFiniteSet(x.left)
  <2>1. IsFiniteSet(1..Len(batch))
    BY <1>1, FS_Interval
  <2>2. x.left \in SUBSET (1..Len(batch))
    BY <1>1
  <2> QED BY <2>1, <2>2, FS_Subset
<1>3. Cardinality(x.left) \in Nat
  BY <1>2, FS_CardinalityType
<1>4. free \in SUBSET Nat /\ free \subseteq x.left
  BY <1>1 DEF Free
<1>5. i \in x.left
  <2> HIDE DEF free
  <2> QED BY <1>4, LeastIs DEF free
<1>6. TakeFree(batch, x).left = x.left \ {i}
  BY DEF TakeFree
<1>7. Cardinality(x.left \ {i}) = Cardinality(x.left) - 1
  <2> HIDE DEF i
  <2> QED BY <1>2, <1>5, FS_RemoveElement, Zenon
<1> HIDE DEF i
<1> QED BY <1>2, <1>3, <1>6, <1>7

(* in_dependency_order: what is taken of a batch has each build after      *)
(* those it depends on; each that is left, if any, depends on one that is, *)
(* so that a batch is refused for a cycle only if it has one.              *)
THEOREM SortsTheBatch ==
  ASSUME NEW batch \in Seq(Builds), Distinct(batch), NEW left \in SUBSET DOMAIN batch
  PROVE  /\ Sorting(batch, left, Sorted(batch, left))
         /\ Free(batch, Sorted(batch, left).left) = {}
<1> DEFINE S == [taken : Seq(Builds), left : SUBSET DOMAIN batch]
           n == Len(batch)
           c == [taken |-> <<>>, left |-> left]
           Body(f) == [k \in 0..Len(batch) |-> IF k = 0 THEN [taken |-> <<>>, left |-> left] ELSE TakeFree(batch, f[k - 1])]
           after == CHOOSE after : after = Body(after)
           Reached == {x \in S : Sorting(batch, left, x)}
           step == [p \in Nat \X Reached |-> TakeFree(batch, p[2])]
<1>1. Sorted(batch, left) = after[n]
  BY DEF Sorted
<1>2. c \in Reached
  <2>1. c \in S /\ c.left = left /\ c.taken = <<>>
    OBVIOUS
  <2>2. ToSet(<<>>) = {} /\ DOMAIN <<>> = {}
    BY OfSequences
  <2>3. c.taken \in Seq(Builds)
    BY <2>1
  <2> HIDE DEF c, S
  <2>4. ToSet(c.taken) = {} /\ DOMAIN c.taken = {} /\ left \ c.left = {}
    BY <2>1, <2>2
  <2>5. Distinct(c.taken) /\ Ordered(c.taken)
    BY <2>4 DEF Distinct, Ordered
  <2>6. Sorting(batch, left, c)
    BY <2>1, <2>3, <2>4, <2>5 DEF Sorting
  <2> QED BY <2>1, <2>6
<1>3. step \in [Nat \X Reached -> Reached]
  <2>1. \A x \in Reached : TakeFree(batch, x) \in Reached
    BY Takes
  <2> HIDE DEF Reached
  <2> QED BY <2>1
<1>4. n \in Nat
  OBVIOUS
<1>5. PICK f \in [0..n -> Reached] : Recurs(f, c, step, n)
  <2> HIDE DEF step, n, Reached, c
  <2> QED BY <1>2, <1>3, <1>4, Recursion, Zenon
<1>6. f = Body(f)
  <2>1. f = [k \in 0..Len(batch) |-> f[k]]
    OBVIOUS
  <2>2. ASSUME NEW k \in 0..Len(batch) PROVE f[k] = Body(f)[k]
    <3>1. CASE k = 0
      BY <1>5, <3>1 DEF Recurs
    <3>2. CASE k # 0
      <4>1. k \in 1..n /\ k \in Nat /\ k - 1 \in 0..n
        BY <1>4, <3>2
      <4>2. f[k] = step[<<k, f[k - 1]>>] /\ f[k - 1] \in Reached
        <5> HIDE DEF step, n, Reached
        <5> QED BY <1>5, <4>1 DEF Recurs
      <4>3. f[k] = TakeFree(batch, f[k - 1])
        <5> DEFINE q == f[k - 1]
        <5>1. q \in Reached
          BY <4>2
        <5> HIDE DEF Reached, q
        <5>2. step[<<k, q>>] = TakeFree(batch, q)
          BY <4>1, <5>1
        <5> HIDE DEF step
        <5> QED BY <4>2, <5>2 DEF q
      <4> QED BY <3>2, <4>3
    <3> QED BY <3>1, <3>2
  <2> HIDE DEF S, Reached
  <2> QED BY <2>1, <2>2
<1>7. after = Body(after)
  <2> HIDE DEF Body
  <2> QED BY <1>6
<1> HIDE DEF after
<1> DEFINE Nears(k, x) == Free(batch, x.left) = {} \/ Cardinality(x.left) <= n - k
           T == {k \in Nat : k <= n => after[k] \in Reached /\ Nears(k, after[k])}
<1>8. Nat \subseteq T
  <2>0. \A k \in 0..n : after[k] = Body(after)[k]
    BY <1>7
  <2>1. 0 \in T
    <3>1. after[0] = c
      BY <1>4, <2>0
    <3>2. Cardinality(left) <= Len(batch)
      <4>1. left \in SUBSET (1..Len(batch)) /\ Len(batch) \in Nat
        OBVIOUS
      <4>2. IsFiniteSet(1..Len(batch)) /\ Cardinality(1..Len(batch)) = Len(batch)
        BY <4>1, FS_Interval
      <4> QED BY <4>1, <4>2, FS_Subset
    <3>3. c.left = left
      OBVIOUS
    <3>4. Nears(0, after[0])
      BY <1>4, <3>1, <3>2, <3>3
    <3> HIDE DEF Reached, Nears
    <3> QED BY <1>2, <3>1, <3>4
  <2>2. ASSUME NEW k \in Nat, k \in T PROVE k + 1 \in T
    <3> SUFFICES ASSUME k + 1 <= n PROVE after[k + 1] \in Reached /\ Nears(k + 1, after[k + 1])
      OBVIOUS
    <3>1. k + 1 \in 0..n /\ k + 1 # 0 /\ k + 1 - 1 = k /\ k <= n
      BY <1>4
    <3>2. after[k + 1] = TakeFree(batch, after[k])
      BY <2>0, <3>1
    <3>3. after[k] \in Reached /\ Nears(k, after[k])
      BY <2>2, <3>1
    <3>4. \A x \in Reached : TakeFree(batch, x) \in Reached
      BY Takes
    <3>5. after[k + 1] \in Reached
      <4> HIDE DEF S, Reached, Nears
      <4> QED BY <3>2, <3>3, <3>4
    <3>6. Nears(k + 1, after[k + 1])
      <4>1. CASE Free(batch, after[k].left) = {}
        BY <3>2, <4>1 DEF TakeFree
      <4>2. CASE Free(batch, after[k].left) # {}
        <5> DEFINE x == after[k]
        <5>1. x \in S
          BY <3>3
        <5>2. Cardinality(x.left) \in Nat /\ Cardinality(TakeFree(batch, x).left) = Cardinality(x.left) - 1
          <6> HIDE DEF x
          <6> QED BY <4>2, <5>1, TakesOne DEF x
        <5>3. Cardinality(x.left) <= n - k
          BY <3>3, <4>2
        <5>4. Cardinality(after[k + 1].left) <= n - (k + 1)
          <6> HIDE DEF x, n
          <6> QED BY <1>4, <3>2, <5>2, <5>3 DEF x
        <5> QED BY <5>4
      <4> QED BY <4>1, <4>2
    <3> QED BY <3>5, <3>6
  <2> HIDE DEF T
  <2> QED BY <2>1, <2>2, ByInduction
<1>9. after[n] \in Reached /\ Nears(n, after[n])
  <2> HIDE DEF Reached, Nears
  <2> QED BY <1>4, <1>8
<1>10. Free(batch, after[n].left) = {}
  <2>1. ASSUME Cardinality(after[n].left) <= n - n PROVE after[n].left = {}
    <3> DEFINE l == after[n].left
    <3>1. l \in SUBSET (1..Len(batch))
      BY <1>9
    <3>2. IsFiniteSet(l)
      <4>1. IsFiniteSet(1..Len(batch))
        BY FS_Interval
      <4> HIDE DEF l
      <4> QED BY <3>1, <4>1, FS_Subset
    <3>3. Cardinality(l) = 0
      <4>1. Cardinality(l) \in Nat
        <5> HIDE DEF l
        <5> QED BY <3>2, FS_CardinalityType
      <4> QED BY <1>4, <2>1, <4>1
    <3> HIDE DEF l
    <3> QED BY <3>2, <3>3, FS_EmptySet DEF l
  <2> QED BY <1>9, <2>1 DEF Free
<1> QED BY <1>1, <1>9, <1>10
-----------------------------------------------------------------------------
(* The shapes the stack takes.                                             *)
LEMMA Pushed ==
  ASSUME NEW S, NEW s \in Seq(S), NEW e \in S
  PROVE  /\ Append(s, e) \in Seq(S) /\ Len(s) \in Nat /\ Len(Append(s, e)) = Len(s) + 1
         /\ Append(s, e)[Len(s) + 1] = e /\ \A i \in 1..Len(s) : Append(s, e)[i] = s[i]
OBVIOUS

(* The first k entries of a sequence.                                      *)
LEMMA CutOff ==
  ASSUME NEW S, NEW s \in Seq(S), NEW k \in 0..Len(s)
  PROVE  /\ SubSeq(s, 1, k) \in Seq(S) /\ Len(SubSeq(s, 1, k)) = k
         /\ \A i \in 1..k : SubSeq(s, 1, k)[i] = s[i]
OBVIOUS

(* The last entry of a sequence, and those before it.                      *)
LEMMA TopOf ==
  ASSUME NEW S, NEW s \in Seq(S), s # <<>>
  PROVE  /\ Len(s) \in Nat \ {0} /\ Last(s) = s[Len(s)] /\ Last(s) \in S
         /\ Front(s) = SubSeq(s, 1, Len(s) - 1)
         /\ Front(s) \in Seq(S) /\ Len(Front(s)) = Len(s) - 1
         /\ \A i \in 1..Len(s) - 1 : Front(s)[i] = s[i]
<1>1. Len(s) \in Nat \ {0} /\ Last(s) = s[Len(s)] /\ Front(s) = SubSeq(s, 1, Len(s) - 1)
  BY DEF Last, Front
<1>2. PICK k \in 0..Len(s) : k = Len(s) - 1
  BY <1>1
<1>3. /\ SubSeq(s, 1, k) \in Seq(S) /\ Len(SubSeq(s, 1, k)) = k
      /\ \A i \in 1..k : SubSeq(s, 1, k)[i] = s[i]
  BY CutOff
<1>4. Last(s) \in S
  BY <1>1
<1> QED BY <1>1, <1>2, <1>3, <1>4

(* Two entries pushed at once are pushed one by one.                       *)
LEMMA PushedTwo ==
  ASSUME NEW S, NEW s \in Seq(S), NEW a \in S, NEW b \in S
  PROVE  s \o <<a, b>> = Append(Append(s, a), b)
OBVIOUS

(* A sequence is its front with its last entry.                            *)
LEMMA TopAgain ==
  ASSUME NEW S, NEW s \in Seq(S), s # <<>>
  PROVE  Append(Front(s), Last(s)) = s
<1>1. /\ Front(s) \in Seq(S) /\ Len(Front(s)) = Len(s) - 1 /\ Len(s) \in Nat \ {0}
      /\ Last(s) = s[Len(s)] /\ Last(s) \in S /\ \A i \in 1..Len(s) - 1 : Front(s)[i] = s[i]
  BY TopOf
<1>2. /\ Append(Front(s), Last(s)) \in Seq(S) /\ Len(Append(Front(s), Last(s))) = Len(s)
      /\ \A i \in 1..Len(s) : Append(Front(s), Last(s))[i] = s[i]
  BY <1>1
<1> QED BY <1>2

(* Where an entry sits is of those up to it.                               *)
LEMMA SitsSame ==
  ASSUME NEW s, NEW t, NEW i \in Nat \ {0}, \A j \in 1..i : s[j] = t[j], Sits(s, i)
  PROVE  Sits(t, i)
<1>1. s[i] = t[i] /\ \A j \in 1..i - 1 : s[j] = t[j]
  OBVIOUS
<1>2. i # 1 => s[i - 1] = t[i - 1]
  OBVIOUS
<1>3. Clear(s, i)
  BY DEF Sits
<1>4. Clear(t, i)
  <2>1. /\ \A j \in 1..i - 1 : t[j].kind \in Taken => t[i].kind \in Leaves
        /\ t[i].kind = "pump" => \A j \in 1..i - 1 : t[j].kind \notin Shared /\ ~Holds(t[j])
        /\ t[i].kind \in Leaves => ~t[i].holds
        /\ t[i].kind = "loading" => \A j \in 1..i - 1 : IsCode(t[j]) => t[j].mod \notin ToSet(t[i].todo)
        /\ Own(t[i]) => ~t[i].was /\ \A j \in 1..i - 1 : IsCode(t[j]) => t[j].mod # t[i].mod
    BY <1>1, <1>3 DEF Clear
  <2>2. ASSUME Pumping(t[i])
        PROVE  \E j \in 1..i - 1 : /\ Own(t[j]) /\ t[j].mod = t[i].mod
                                   /\ \A k \in j + 1..i - 1 : Pumping(t[k]) /\ t[k].mod = t[i].mod
    <3>1. PICK j \in 1..i - 1 : /\ Own(s[j]) /\ s[j].mod = s[i].mod
                                /\ \A k \in j + 1..i - 1 : Pumping(s[k]) /\ s[k].mod = s[i].mod
      BY <1>1, <1>3, <2>2 DEF Clear
    <3>2. \A k \in j + 1..i - 1 : s[k] = t[k]
      BY <1>1
    <3> QED BY <1>1, <3>1, <3>2
  <2> QED BY <2>1, <2>2 DEF Clear
<1>5. (i = 1 => Starts(t[i])) /\ (i # 1 => Follows(t[i - 1], t[i]))
  BY <1>1, <1>2 DEF Sits
<1> QED BY <1>4, <1>5 DEF Sits

(* Whether an entry stands depends on those below it only.                 *)
LEMMA StandsSame ==
  ASSUME NEW s, NEW t, NEW w, NEW i \in Nat \ {0}, \A j \in 1..i : s[j] = t[j],
         Sits(s, i), Stands(s, i, w)
  PROVE  Stands(t, i, w)
<1>1. s[i] = t[i] /\ \A j \in 1..i - 1 : s[j] = t[j]
  OBVIOUS
<1>2. s[i].kind = "load" => s[i - 1] = t[i - 1]
  <2>1. s[i].kind = "load" => i # 1
    BY DEF Sits, Starts
  <2> QED BY <2>1
<1> QED BY <1>1, <1>2 DEF Stands

(* A stack with an entry more.                                             *)
LEMMA PushStack ==
  ASSUME NEW s, NEW w, StackOf(s, w), NEW e \in Entries,
         Sits(Append(s, e), Len(s) + 1), Stands(Append(s, e), Len(s) + 1, w)
  PROVE  StackOf(Append(s, e), w)
<1> DEFINE t == Append(s, e)
<1>1. /\ t \in Seq(Entries) /\ Len(s) \in Nat /\ Len(t) = Len(s) + 1
      /\ \A i \in 1..Len(s) : t[i] = s[i]
  BY Pushed DEF StackOf
<1> HIDE DEF t
<1>2. ASSUME NEW i \in 1..Len(t) PROVE Sits(t, i) /\ Stands(t, i, w)
  <2>1. CASE i = Len(s) + 1
    BY <2>1 DEF t
  <2>2. CASE i # Len(s) + 1
    <3>1. i \in 1..Len(s) /\ i \in Nat \ {0} /\ \A j \in 1..i : s[j] = t[j]
      BY <1>1, <2>2
    <3> QED BY <3>1, SitsSame, StandsSame DEF StackOf
  <2> QED BY <2>1, <2>2
<1> QED BY <1>1, <1>2 DEF StackOf, t

(* The lower part of a stack is one.                                       *)
LEMMA CutStack ==
  ASSUME NEW s, NEW w, StackOf(s, w), NEW k \in 0..Len(s)
  PROVE  StackOf(SubSeq(s, 1, k), w)
<1> DEFINE t == SubSeq(s, 1, k)
<1>1. /\ t \in Seq(Entries) /\ Len(s) \in Nat /\ Len(t) = k
      /\ \A i \in 1..k : t[i] = s[i]
  BY CutOff DEF StackOf
<1> HIDE DEF t
<1>2. ASSUME NEW i \in 1..Len(t) PROVE Sits(t, i) /\ Stands(t, i, w)
  <2>1. i \in 1..Len(s) /\ i \in Nat \ {0} /\ \A j \in 1..i : s[j] = t[j]
    BY <1>1
  <2> QED BY <2>1, SitsSame, StandsSame DEF StackOf
<1> QED BY <1>1, <1>2 DEF StackOf, t

(* A last hook is on top, on an entry that has the list of mods.           *)
LEMMA LastHooks ==
  ASSUME NEW s, NEW w, StackOf(s, w), NEW i \in 1..Len(s)
  PROVE  /\ s[i].kind \in Leaves => i > 1 /\ s[i - 1].kind \in Taken
         /\ s[i].kind \in Leaves => i = Len(s)
         /\ s[i].kind \in Taken /\ i < Len(s) => i = Len(s) - 1 /\ s[Len(s)].kind \in Leaves
<1>0. Len(s) \in Nat /\ \A j \in 1..Len(s) : Sits(s, j)
  BY DEF StackOf
<1>1. \A j \in 1..Len(s) : s[j].kind \in Leaves => j > 1 /\ s[j - 1].kind \in Taken
  <2> SUFFICES ASSUME NEW j \in 1..Len(s), s[j].kind \in Leaves
               PROVE  j > 1 /\ s[j - 1].kind \in Taken
    OBVIOUS
  <2>1. j # 1
    BY <1>0 DEF Sits, Starts, Leaves
  <2>2. Follows(s[j - 1], s[j])
    BY <1>0, <2>1 DEF Sits
  <2>3. s[j - 1].kind \in Taken
    BY <2>2 DEF Follows, Leaves, Taken
  <2> QED BY <2>1, <2>3
<1>2. \A j, k \in 1..Len(s) : j < k /\ s[j].kind \in Taken => s[k].kind \in Leaves /\ j = k - 1
  <2> SUFFICES ASSUME NEW j \in 1..Len(s), NEW k \in 1..Len(s), j < k, s[j].kind \in Taken
               PROVE  s[k].kind \in Leaves /\ j = k - 1
    OBVIOUS
  <2>1. s[k].kind \in Leaves
    BY <1>0 DEF Sits, Clear
  <2>2. k - 1 \in 1..Len(s) /\ s[k - 1].kind \in Taken
    BY <1>0, <1>1, <2>1
  <2>3. ASSUME j # k - 1 PROVE FALSE
    <3>1. j \in 1..k - 1 - 1
      BY <2>3
    <3>2. s[k - 1].kind \in Leaves
      BY <1>0, <2>2, <3>1 DEF Sits, Clear
    <3> QED BY <2>2, <3>2 DEF Leaves, Taken
  <2> QED BY <2>1, <2>3
<1>3. ASSUME s[i].kind \in Leaves, i # Len(s) PROVE FALSE
  <2>1. i - 1 \in 1..Len(s) /\ s[i - 1].kind \in Taken /\ i + 1 \in 1..Len(s)
    BY <1>0, <1>1, <1>3
  <2> QED BY <1>2, <2>1
<1>4. ASSUME s[i].kind \in Taken, i < Len(s) PROVE i = Len(s) - 1 /\ s[Len(s)].kind \in Leaves
  BY <1>0, <1>2, <1>4
<1> QED BY <1>1, <1>3, <1>4

(* What is below a pump: code of residents, which goes on running.         *)
Calm(s, w, n) ==
  \A j \in 1..n :
    /\ s[j].kind \notin Taken \union Shared \union Leaves \union {"load"} /\ ~Holds(s[j])
    /\ IsCode(s[j]) => In(s[j].mod, w) /\ w.build[s[j].mod].resident

(* Under a pump is only code of residents, and no hook (safe_point).       *)
LEMMA UnderPump ==
  ASSUME NEW s, NEW w, StackOf(s, w), NEW i \in 1..Len(s), s[i].kind = "pump"
  PROVE  Calm(s, w, i)
<1>0. Len(s) \in Nat /\ Sits(s, i) /\ Stands(s, i, w) /\ \A j \in 1..Len(s) : Sits(s, j) /\ Stands(s, j, w)
  BY DEF StackOf
<1> SUFFICES ASSUME NEW j \in 1..i
             PROVE  /\ s[j].kind \notin Taken \union Shared \union Leaves \union {"load"} /\ ~Holds(s[j])
                    /\ IsCode(s[j]) => In(s[j].mod, w) /\ w.build[s[j].mod].resident
  BY DEF Calm
<1>1. CASE j = i
  BY <1>1 DEF Taken, Shared, Leaves, Holds, IsCode, CodeKinds
<1>2. CASE j # i
  <2>1. j \in 1..i - 1 /\ j \in 1..Len(s)
    BY <1>0, <1>2
  <2>2. s[j].kind \notin Taken /\ s[j].kind \notin Shared /\ ~Holds(s[j])
    BY <1>0, <2>1 DEF Sits, Clear, Leaves
  <2>3. s[j].kind \notin Leaves
    BY <1>2, <2>1, LastHooks
  <2>4. s[j].kind # "load"
    <3> SUFFICES ASSUME s[j].kind = "load" PROVE FALSE
      OBVIOUS
    <3>1. j # 1 /\ Follows(s[j - 1], s[j])
      BY <1>0, <2>1 DEF Sits, Starts
    <3>2. s[j - 1].kind = "loading" /\ j - 1 \in 1..i - 1
      BY <2>1, <3>1 DEF Follows, Leaves
    <3> QED BY <1>0, <3>2 DEF Sits, Clear, Shared
  <2>5. IsCode(s[j]) => In(s[j].mod, w) /\ w.build[s[j].mod].resident
    BY <1>0, <2>1, <2>3 DEF Stands, CodeOK
  <2> QED BY <2>2, <2>3, <2>4, <2>5
<1> QED BY <1>1, <1>2

(* Batches, and unloads, are a pump's, or the first on the stack.          *)
LEMMA UnderBatch ==
  ASSUME NEW s, NEW w, StackOf(s, w), NEW i \in 1..Len(s), s[i].kind \in {"retiring", "loading", "unloading"}
  PROVE  Calm(s, w, i - 1)
<1>1. CASE i = 1
  BY <1>1 DEF Calm
<1>2. CASE i # 1
  <2>1. Follows(s[i - 1], s[i])
    BY <1>2 DEF StackOf, Sits
  <2>2. i - 1 \in 1..Len(s) /\ s[i - 1].kind = "pump"
    BY <1>2, <2>1 DEF Follows, Leaves, StackOf
  <2> QED BY <2>2, UnderPump
<1> QED BY <1>1, <1>2

(* A mod is closed with nothing under it (shutdown).                       *)
LEMMA UnderClosing ==
  ASSUME NEW s, NEW w, StackOf(s, w), NEW i \in 1..Len(s), s[i].kind = "closing"
  PROVE  i = 1
BY DEF StackOf, Sits, Follows, Leaves

-----------------------------------------------------------------------------
(* The stack grows by an entry, or is cut, and nothing else changes.       *)
LEMMA PushPlain ==
  ASSUME NEW s, NEW w, Core(s, w), NEW e \in Entries, ~IsCode(e), ~Holds(e),
         Sits(Append(s, e), Len(s) + 1), Stands(Append(s, e), Len(s) + 1, w),
         s = <<>> => w.session = IF e.kind = "closing" THEN "ending" ELSE "running",
         s # <<>> => e.kind # "closing"
  PROVE  Core(Append(s, e), w)
<1> DEFINE t == Append(s, e)
<1>1. /\ s \in Seq(Entries) /\ t \in Seq(Entries) /\ Len(s) \in Nat /\ Len(t) = Len(s) + 1
      /\ \A i \in 1..Len(s) : t[i] = s[i]
      /\ t[Len(s) + 1] = e /\ (s # <<>> => Len(s) > 0)
  BY Pushed DEF Core, StackOf
<1>2. StackOf(t, w)
  BY PushStack DEF Core
<1> HIDE DEF t
<1>3. \A i \in 1..Len(t) : (i \in 1..Len(s) /\ t[i] = s[i]) \/ (i = Len(s) + 1 /\ t[i] = e)
  BY <1>1
<1>4. \A i \in 1..Len(s) : i \in 1..Len(t) /\ t[i] = s[i]
  BY <1>1
<1>5. RunOf(t, w)
  <2> SUFFICES ASSUME NEW m \in Names
               PROVE  w.running[m] <=> \E i \in 1..Len(t) : IsCode(t[i]) /\ t[i].mod = m
    BY DEF RunOf
  <2>1. w.running[m] <=> \E i \in 1..Len(s) : IsCode(s[i]) /\ s[i].mod = m
    BY DEF Core, RunOf
  <2> QED BY <1>3, <1>4, <2>1
<1>6. FrameOf(t, w)
  <2>1. /\ FrameOK(w.frame)
        /\ w.frame.open <=> \E i \in 1..Len(s) : Holds(s[i])
        /\ \A i, j \in 1..Len(s) : Holds(s[i]) /\ Holds(s[j]) => i = j
    BY DEF Core, FrameOf
  <2>2. w.frame.open <=> \E i \in 1..Len(t) : Holds(t[i])
    BY <1>3, <1>4, <2>1
  <2>3. \A i, j \in 1..Len(t) : Holds(t[i]) /\ Holds(t[j]) => i = j
    BY <1>3, <2>1
  <2>4. \A i \in 1..Len(t) : t[i].kind = "system" =>
          t[i].node \in DOMAIN w.frame.nodes /\ w.frame.nodes[t[i].node].build.mod = t[i].mod
    BY <1>3 DEF Core, FrameOf, IsCode, CodeKinds
  <2>5. ASSUME NEW h \in 1..Len(t), Holds(t[h]), NEW k \in 1..h, IsCode(t[k]), NEW n \in w.frame.logs
        PROVE  t[k].mod # w.frame.nodes[n].build.mod
    <3>1. h \in 1..Len(s) /\ t[h] = s[h]
      BY <1>3, <2>5
    <3>2. k \in 1..Len(s) /\ t[k] = s[k]
      BY <1>1, <3>1
    <3> QED BY <2>5, <3>1, <3>2 DEF Core, FrameOf
  <2> QED BY <2>1, <2>2, <2>3, <2>4, <2>5 DEF FrameOf
<1>7. StatesOf(t, w)
  <2> SUFFICES ASSUME NEW m \in ToSet(w.loaded), w.state[m] # w.build[m].schema
               PROVE  \E i \in 1..Len(t) : t[i].kind = "retiring" /\ \E o \in ToSet(t[i].batch) : o.mod = m
    BY DEF StatesOf
  <2>1. PICK i \in 1..Len(s) : s[i].kind = "retiring" /\ \E o \in ToSet(s[i].batch) : o.mod = m
    BY DEF Core, StatesOf
  <2> QED BY <1>4, <2>1
<1>8. SessionOf(t, w)
  <2>1. /\ w.session \in {"starting", "running", "ending", "over"}
        /\ w.session = "starting" => w.loaded = <<>>
        /\ w.session # "running" /\ s # <<>> => w.session = "ending" /\ s[1].kind = "closing"
        /\ w.session = "running" => \A i \in 1..Len(s) : s[i].kind # "closing"
        /\ w.session = "running" =>
             /\ Linked(RunIn(w)) /\ Plannable(RunIn(w))
             /\ w.plan # NoPlan => w.plan = PlanIn(w)
             /\ w.frame.open => w.frame.nodes = Nodes(PlanIn(w))
    BY DEF Core, SessionOf
  <2>2. ASSUME w.session # "running" PROVE w.session = "ending" /\ t[1].kind = "closing"
    <3>1. CASE s = <<>>
      <4>1. Len(s) + 1 = 1
        BY <3>1
      <4> QED BY <1>1, <2>2, <3>1, <4>1
    <3>2. CASE s # <<>>
      BY <1>1, <2>1, <2>2, <3>2
    <3> QED BY <3>1, <3>2
  <2>3. ASSUME w.session = "running" PROVE \A i \in 1..Len(t) : t[i].kind # "closing"
    BY <1>3, <2>1, <2>3
  <2> QED BY <2>1, <2>2, <2>3 DEF SessionOf
<1> QED BY <1>2, <1>5, <1>6, <1>7, <1>8 DEF Core, t

(* Entries of the loader's own go, which hold no frame and hand no state   *)
(* over.                                                                   *)
LEMMA CutPlain ==
  ASSUME NEW s, NEW w, Core(s, w), NEW k \in 0..Len(s),
         \A i \in k + 1..Len(s) : ~IsCode(s[i]) /\ ~Holds(s[i]) /\ s[i].kind # "retiring"
  PROVE  Core(SubSeq(s, 1, k), w)
<1> DEFINE t == SubSeq(s, 1, k)
<1>1. /\ s \in Seq(Entries) /\ t \in Seq(Entries) /\ Len(s) \in Nat /\ Len(t) = k
      /\ \A i \in 1..k : t[i] = s[i]
  BY CutOff DEF Core, StackOf
<1>2. StackOf(t, w)
  BY CutStack DEF Core
<1> HIDE DEF t
<1>3. \A i \in 1..Len(t) : i \in 1..Len(s) /\ t[i] = s[i]
  BY <1>1
<1>4. \A i \in 1..Len(s) : (i \in 1..Len(t) /\ t[i] = s[i]) \/ i \in k + 1..Len(s)
  BY <1>1
<1>5. RunOf(t, w)
  <2> SUFFICES ASSUME NEW m \in Names
               PROVE  w.running[m] <=> \E i \in 1..Len(t) : IsCode(t[i]) /\ t[i].mod = m
    BY DEF RunOf
  <2>1. w.running[m] <=> \E i \in 1..Len(s) : IsCode(s[i]) /\ s[i].mod = m
    BY DEF Core, RunOf
  <2> QED BY <1>3, <1>4, <2>1
<1>6. FrameOf(t, w)
  <2>1. /\ FrameOK(w.frame)
        /\ w.frame.open <=> \E i \in 1..Len(s) : Holds(s[i])
        /\ \A i, j \in 1..Len(s) : Holds(s[i]) /\ Holds(s[j]) => i = j
    BY DEF Core, FrameOf
  <2>2. w.frame.open <=> \E i \in 1..Len(t) : Holds(t[i])
    BY <1>3, <1>4, <2>1
  <2>3. \A i, j \in 1..Len(t) : Holds(t[i]) /\ Holds(t[j]) => i = j
    BY <1>3, <2>1
  <2>4. \A i \in 1..Len(t) : t[i].kind = "system" =>
          t[i].node \in DOMAIN w.frame.nodes /\ w.frame.nodes[t[i].node].build.mod = t[i].mod
    BY <1>3 DEF Core, FrameOf
  <2>5. ASSUME NEW h \in 1..Len(t), Holds(t[h]), NEW l \in 1..h, IsCode(t[l]), NEW n \in w.frame.logs
        PROVE  t[l].mod # w.frame.nodes[n].build.mod
    <3>1. h \in 1..Len(s) /\ t[h] = s[h]
      BY <1>3
    <3>2. l \in 1..Len(s) /\ t[l] = s[l]
      BY <1>1, <3>1
    <3> QED BY <2>5, <3>1, <3>2 DEF Core, FrameOf
  <2> QED BY <2>1, <2>2, <2>3, <2>4, <2>5 DEF FrameOf
<1>7. StatesOf(t, w)
  <2> SUFFICES ASSUME NEW m \in ToSet(w.loaded), w.state[m] # w.build[m].schema
               PROVE  \E i \in 1..Len(t) : t[i].kind = "retiring" /\ \E o \in ToSet(t[i].batch) : o.mod = m
    BY DEF StatesOf
  <2>1. PICK i \in 1..Len(s) : s[i].kind = "retiring" /\ \E o \in ToSet(s[i].batch) : o.mod = m
    BY DEF Core, StatesOf
  <2> QED BY <1>4, <2>1
<1>8. SessionOf(t, w)
  <2>1. t # <<>> => s # <<>> /\ t[1] = s[1]
    BY <1>1
  <2> QED BY <1>3, <2>1 DEF Core, SessionOf
<1> QED BY <1>2, <1>5, <1>6, <1>7, <1>8 DEF Core, t

-----------------------------------------------------------------------------
(* A mod's code is entered.                                                *)
LEMMA PushCode ==
  ASSUME NEW s, NEW w, NEW v, NEW c \in Entries,
         StackOf(s, v), RunOf(s, w), FrameOf(s, w), StatesOf(s, v), ModsOK(v), SessionOf(Append(s, c), v),
         IsCode(c), ~c.holds, c.mod \in Names, v.frame = w.frame,
         \A n \in Names : v.running[n] <=> (n = c.mod \/ w.running[n]),
         Sits(Append(s, c), Len(s) + 1), Stands(Append(s, c), Len(s) + 1, v),
         c.kind = "system" => /\ c.node \in DOMAIN w.frame.nodes
                              /\ w.frame.nodes[c.node].build.mod = c.mod
  PROVE  Core(Append(s, c), v)
<1> DEFINE t == Append(s, c)
<1>1. /\ s \in Seq(Entries) /\ t \in Seq(Entries) /\ Len(s) \in Nat /\ Len(t) = Len(s) + 1
      /\ \A i \in 1..Len(s) : t[i] = s[i]
      /\ t[Len(s) + 1] = c
  BY Pushed DEF StackOf
<1>2. StackOf(t, v)
  BY PushStack
<1> HIDE DEF t
<1>3. \A i \in 1..Len(t) : (i \in 1..Len(s) /\ t[i] = s[i]) \/ (i = Len(s) + 1 /\ t[i] = c)
  BY <1>1
<1>4. \A i \in 1..Len(s) : i \in 1..Len(t) /\ t[i] = s[i]
  BY <1>1
<1>5. Len(s) + 1 \in 1..Len(t)
  BY <1>1
<1>6. RunOf(t, v)
  <2> SUFFICES ASSUME NEW m \in Names
               PROVE  v.running[m] <=> \E i \in 1..Len(t) : IsCode(t[i]) /\ t[i].mod = m
    BY DEF RunOf
  <2>1. w.running[m] <=> \E i \in 1..Len(s) : IsCode(s[i]) /\ s[i].mod = m
    BY DEF RunOf
  <2>2. CASE m = c.mod
    BY <1>1, <1>5, <2>2
  <2>3. CASE m # c.mod
    BY <1>3, <1>4, <2>1, <2>3
  <2> QED BY <2>2, <2>3
<1>7. FrameOf(t, v)
  <2>0. ~Holds(c)
    BY DEF IsCode, Holds, CodeKinds
  <2>1. /\ FrameOK(v.frame)
        /\ v.frame.open <=> \E i \in 1..Len(s) : Holds(s[i])
        /\ \A i, j \in 1..Len(s) : Holds(s[i]) /\ Holds(s[j]) => i = j
    BY DEF FrameOf
  <2>2. v.frame.open <=> \E i \in 1..Len(t) : Holds(t[i])
    BY <1>3, <1>4, <2>0, <2>1
  <2>3. \A i, j \in 1..Len(t) : Holds(t[i]) /\ Holds(t[j]) => i = j
    BY <1>3, <2>0, <2>1
  <2>4. \A i \in 1..Len(t) : t[i].kind = "system" =>
          t[i].node \in DOMAIN v.frame.nodes /\ v.frame.nodes[t[i].node].build.mod = t[i].mod
    BY <1>3 DEF FrameOf
  <2>5. ASSUME NEW h \in 1..Len(t), Holds(t[h]), NEW k \in 1..h, IsCode(t[k]), NEW n \in v.frame.logs
        PROVE  t[k].mod # v.frame.nodes[n].build.mod
    <3>1. h \in 1..Len(s) /\ t[h] = s[h]
      BY <1>3, <2>0, <2>5
    <3>2. k \in 1..Len(s) /\ t[k] = s[k]
      BY <1>1, <3>1
    <3> QED BY <2>5, <3>1, <3>2 DEF FrameOf
  <2> QED BY <2>1, <2>2, <2>3, <2>4, <2>5 DEF FrameOf
<1>8. StatesOf(t, v)
  <2> SUFFICES ASSUME NEW m \in ToSet(v.loaded), v.state[m] # v.build[m].schema
               PROVE  \E i \in 1..Len(t) : t[i].kind = "retiring" /\ \E o \in ToSet(t[i].batch) : o.mod = m
    BY DEF StatesOf
  <2>1. PICK i \in 1..Len(s) : s[i].kind = "retiring" /\ \E o \in ToSet(s[i].batch) : o.mod = m
    BY DEF StatesOf
  <2> QED BY <1>4, <2>1
<1> QED BY <1>2, <1>6, <1>7, <1>8 DEF Core, t

Entered(w, v, c) ==
  /\ v.running \in [Names -> BOOLEAN] /\ v.transient \in [Names -> Builds \union {NoBuild}]
  /\ \A n \in Names : v.running[n] <=> (n = c.mod \/ w.running[n])
  /\ \A n \in Names : v.transient[n] =
       IF n # c.mod THEN w.transient[n]
       ELSE IF c.kind \in Leaves THEN NoBuild
       ELSE IF w.transient[n] = NoBuild THEN w.build[n] ELSE w.transient[n]
  /\ v.loaded = w.loaded /\ v.build = w.build /\ v.failed = w.failed /\ v.state = w.state
  /\ v.plan = w.plan /\ v.frame = w.frame /\ v.session = w.session

(* Code is entered on top: its mod is the one more that runs.              *)
LEMMA EnterOn ==
  ASSUME NEW s, NEW w, NEW v, Core(s, w), NEW c \in Entries, Own(c), ~c.holds, In(c.mod, w) \/ c.kind \in Leaves,
         Entered(w, v, c), s = <<>> => w.session = "running",
         Sits(Append(s, c), Len(s) + 1), Stands(Append(s, c), Len(s) + 1, v),
         c.kind = "system" => /\ c.node \in DOMAIN w.frame.nodes
                              /\ w.frame.nodes[c.node].build.mod = c.mod
  PROVE  Core(Append(s, c), v)
<1>1. c.mod \in Names /\ ToSet(w.loaded) \subseteq Names
  BY OfSequences DEF Core, ModsOK, Own, IsCode, CodeKinds, Entries
<1>2. RunIn(v) = RunIn(w) /\ PlanIn(v) = PlanIn(w) /\ \A m : In(m, v) <=> In(m, w)
  BY DEF Entered, RunIn, PlanIn, In
<1>3. ModsOK(v)
  <2>0. /\ \A n \in Names : w.transient[n] \in {NoBuild, w.build[n]}
        /\ \A n \in Names \ ToSet(w.loaded) : w.transient[n] = NoBuild
    BY DEF Core, ModsOK
  <2>1. ASSUME NEW n \in Names PROVE v.transient[n] \in {NoBuild, v.build[n]}
    <3>1. v.build[n] = w.build[n]
      BY DEF Entered
    <3>2. v.transient[n] \in {NoBuild, w.build[n], w.transient[n]}
      BY DEF Entered
    <3> QED BY <2>0, <3>1, <3>2
  <2>2. ASSUME NEW n \in Names \ ToSet(v.loaded) PROVE v.transient[n] = NoBuild
    <3>1. n \in Names \ ToSet(w.loaded) /\ (n = c.mod => c.kind \in Leaves)
      BY <1>2 DEF In
    <3> QED BY <2>0, <3>1 DEF Entered
  <2> QED BY <2>1, <2>2 DEF Core, ModsOK, Entered
<1>4. StackOf(s, v)
  <2> SUFFICES ASSUME NEW i \in 1..Len(s) PROVE Stands(s, i, v)
    BY DEF Core, StackOf
  <2>1. Stands(s, i, w)
    BY DEF Core, StackOf
  <2>2. s[i].kind = "retiring" => c.kind \in Leaves
    <3>1. /\ Len(s) \in Nat /\ Append(s, c)[Len(s) + 1] = c /\ Append(s, c)[i] = s[i]
      BY Pushed DEF Core, StackOf
    <3>2. i \in 1..Len(s) + 1 - 1
      BY <3>1
    <3> QED BY <3>1, <3>2 DEF Sits, Clear, Taken
  <2>3. ASSUME s[i].kind = "retiring" PROVE BatchOK(s[i], v)
    <3>1. BatchOK(s[i], w)
      BY <2>1, <2>3 DEF Stands
    <3>2. \A m \in Names : w.transient[m] = NoBuild => v.transient[m] = NoBuild
      BY <2>2, <2>3 DEF Entered
    <3>3. ASSUME NEW o \in ToSet(s[i].batch), In(o.mod, v)
          PROVE  ~v.build[o.mod].resident /\ Handed(s[i], o, v)
      <4>1. o.mod \in Names /\ ~w.build[o.mod].resident /\ Handed(s[i], o, w)
        BY <1>1, <1>2, <3>1, <3>3 DEF BatchOK, In
      <4> QED BY <3>2, <4>1 DEF Handed, Entered
    <3> QED BY <1>2, <3>1, <3>3 DEF BatchOK, Entered
  <2>4. s[i].kind = "loading" => LoadingOK(s[i], v)
    BY <1>2, <2>1 DEF Stands, LoadingOK, Entered
  <2>5. IsCode(s[i]) => CodeOK(s[i], v)
    BY <1>2, <2>1 DEF Stands, CodeOK, Entered
  <2>6. s[i].kind = "pump" => \A j \in 1..i - 1 : IsCode(s[j]) => v.build[s[j].mod].resident
    BY <2>1 DEF Stands, Entered
  <2> QED BY <1>2, <2>1, <2>3, <2>4, <2>5, <2>6 DEF Stands
<1>5. StatesOf(s, v)
  BY DEF Core, StatesOf, Entered
<1>6. SessionOf(Append(s, c), v)
  <2>1. /\ Len(s) \in Nat /\ Len(Append(s, c)) = Len(s) + 1 /\ Append(s, c)[Len(s) + 1] = c
        /\ \A i \in 1..Len(s) : Append(s, c)[i] = s[i]
        /\ s # <<>> => Len(s) > 0
    BY Pushed DEF Core, StackOf
  <2>2. \A i \in 1..Len(s) + 1 : i \in 1..Len(s) \/ i = Len(s) + 1
    BY <2>1
  <2>3. c.kind # "closing"
    BY DEF Own, IsCode, CodeKinds
  <2>4. v.session = "running" => \A i \in 1..Len(Append(s, c)) : Append(s, c)[i].kind # "closing"
    BY <2>1, <2>2, <2>3 DEF Core, SessionOf, Entered
  <2>5. v.session # "running" => v.session = "ending" /\ Append(s, c)[1].kind = "closing"
    BY <2>1 DEF Core, SessionOf, Entered
  <2> QED BY <1>2, <2>4, <2>5 DEF Core, SessionOf, Entered
<1>7. v.frame = w.frame /\ \A n \in Names : v.running[n] <=> (n = c.mod \/ w.running[n])
  BY DEF Entered
<1> QED BY <1>1, <1>3, <1>4, <1>5, <1>6, <1>7, PushCode DEF Core, Own

-----------------------------------------------------------------------------
(* What an entry of each kind is made of.                                  *)
CodeEntry     == [kind : CodeKinds, mod : Names, build : Builds, was : BOOLEAN, node : Nat, holds : BOOLEAN]
RetiringEntry == [kind : {"retiring"}, batch : Seq(Builds), todo : Seq(Builds), told : {None, "unload", "close"}]
LoadingEntry  == [kind : {"loading"}, todo : Seq(Names)]

(* The entries of each kind.                                               *)
LEMMA EntryTypes ==
  /\ \A e \in Entries : IsCode(e) => e \in CodeEntry
  /\ \A e \in Entries : e.kind = "retiring" => e \in RetiringEntry
  /\ \A e \in Entries : e.kind = "loading" => e \in LoadingEntry
  /\ \A e \in Entries : e.kind = "stepping" => e \in [kind : {"stepping"}, next : Nat]
  /\ \A e \in Entries : e.kind = "pump" => e \in [kind : {"pump"}, mod : Names \union {None}]
  /\ \A e \in Entries : e.kind \in {"closing", "unloading"} => e \in [kind : {"closing", "unloading"}, mod : Names]
  /\ CodeEntry \union RetiringEntry \union LoadingEntry \union [kind : {"stepping"}, next : Nat] \subseteq Entries
BY DEF Entries, IsCode, CodeKinds, CodeEntry, RetiringEntry, LoadingEntry

(* The entry on top is replaced by one of its kind, and states may change  *)
(* with it, if it has those mods' batch.                                   *)
LEMMA SwapTop ==
  ASSUME NEW s, NEW w, NEW v, Core(s, w), s # <<>>, NEW x, x = Last(s), NEW y \in Entries,
         x.kind \in {"retiring", "loading", "stepping"}, y.kind = x.kind,
         x.kind = "retiring" => y.batch = x.batch /\ BatchOK(y, v),
         x.kind = "loading" => ToSet(y.todo) \subseteq ToSet(x.todo) /\ LoadingOK(y, v),
         v.loaded = w.loaded, v.build = w.build, v.failed = w.failed, v.running = w.running,
         v.transient = w.transient, v.plan = w.plan, v.frame = w.frame, v.session = w.session,
         ModsOK(v), \A i \in 1..Len(s) - 1 : Stands(s, i, v),
         \A m \in ToSet(w.loaded) :
           v.state[m] = w.state[m] \/ (x.kind = "retiring" /\ \E o \in ToSet(x.batch) : o.mod = m)
  PROVE  Core(Append(Front(s), y), v)
<1> DEFINE n == Len(s)
           t == Append(Front(s), y)
<1>1. /\ s \in Seq(Entries) /\ n \in Nat \ {0} /\ x = s[n]
      /\ Front(s) \in Seq(Entries) /\ Len(Front(s)) = n - 1 /\ Front(s) = SubSeq(s, 1, n - 1)
      /\ \A i \in 1..n - 1 : Front(s)[i] = s[i]
  BY TopOf DEF Core, StackOf
<1>2. /\ t \in Seq(Entries) /\ Len(t) = n /\ t[n] = y /\ \A i \in 1..n - 1 : t[i] = s[i]
  BY <1>1, Pushed
<1> HIDE DEF t, n
<1>3. /\ Sits(s, n) /\ Stands(s, n, w)
  BY <1>1 DEF Core, StackOf, n
<1>4. Sits(t, n)
  <2>1. IF n = 1 THEN Starts(y) ELSE Follows(s[n - 1], y)
    BY <1>1, <1>3 DEF Sits, Starts, Follows, IsCode, CodeKinds, Leaves
  <2>2. n # 1 => t[n - 1] = s[n - 1]
    BY <1>1, <1>2
  <2>3. Clear(t, n)
    BY <1>1, <1>2, <1>3 DEF Sits, Clear, IsCode, CodeKinds, Leaves, Own, Pumping, Taken
  <2> QED BY <1>2, <2>1, <2>2, <2>3 DEF Sits
<1>5. Stands(t, n, v)
  BY <1>2 DEF Stands, IsCode, CodeKinds
<1>6. StackOf(t, v)
  <2>1. StackOf(Front(s), v)
    <3>1. PICK k \in 0..Len(s) : k = n - 1
      BY <1>1 DEF n
    <3>2. StackOf(Front(s), w)
      BY <1>1, <3>1, CutStack DEF Core
    <3>3. ASSUME NEW i \in 1..Len(Front(s)) PROVE Stands(Front(s), i, v)
      <4>1. /\ i \in 1..Len(s) - 1 /\ i \in Nat \ {0} /\ \A j \in 1..i : s[j] = Front(s)[j]
            /\ i \in 1..Len(s)
        BY <1>1 DEF n
      <4>2. Stands(s, i, v) /\ Sits(s, i)
        BY <4>1 DEF Core, StackOf
      <4> QED BY <4>1, <4>2, StandsSame
    <3> QED BY <3>2, <3>3 DEF StackOf
  <2>2. n = Len(Front(s)) + 1
    BY <1>1
  <2> QED BY <1>4, <1>5, <2>1, <2>2, PushStack DEF t
<1>7. ~IsCode(x) /\ ~IsCode(y) /\ (Holds(x) <=> Holds(y))
  BY DEF IsCode, CodeKinds, Holds
<1>8. \A i \in 1..n : /\ (IsCode(t[i]) \/ IsCode(s[i])) => t[i] = s[i]
                      /\ Holds(t[i]) <=> Holds(s[i])
                      /\ t[i].kind = s[i].kind
                      /\ t[i].kind = "retiring" => t[i].batch = s[i].batch
  <2> SUFFICES ASSUME NEW i \in 1..n
               PROVE  /\ (IsCode(t[i]) \/ IsCode(s[i])) => t[i] = s[i]
                      /\ Holds(t[i]) <=> Holds(s[i])
                      /\ t[i].kind = s[i].kind
                      /\ t[i].kind = "retiring" => t[i].batch = s[i].batch
    OBVIOUS
  <2>1. CASE i = n
    BY <1>1, <1>2, <1>7, <2>1
  <2>2. CASE i # n
    <3>1. i \in 1..n - 1
      BY <1>1, <2>2
    <3>2. t[i] = s[i]
      BY <1>2, <3>1
    <3> QED BY <3>2
  <2> QED BY <2>1, <2>2
<1>9. RunOf(t, v)
  BY <1>1, <1>2, <1>8 DEF Core, RunOf, n
<1>10. FrameOf(t, v)
  <2>1. /\ FrameOK(w.frame)
        /\ w.frame.open <=> \E i \in 1..n : Holds(s[i])
        /\ \A i, j \in 1..n : Holds(s[i]) /\ Holds(s[j]) => i = j
        /\ \A i \in 1..n : s[i].kind = "system" =>
             s[i].node \in DOMAIN w.frame.nodes /\ w.frame.nodes[s[i].node].build.mod = s[i].mod
    BY DEF Core, FrameOf, n
  <2>2. \A i \in 1..n : t[i].kind = "system" =>
          t[i].node \in DOMAIN w.frame.nodes /\ w.frame.nodes[t[i].node].build.mod = t[i].mod
    BY <1>8, <2>1 DEF IsCode, CodeKinds
  <2>3. ASSUME NEW h \in 1..n, Holds(t[h]), NEW k \in 1..h, IsCode(t[k]), NEW l \in w.frame.logs
        PROVE  t[k].mod # w.frame.nodes[l].build.mod
    <3>1. Holds(s[h]) /\ k \in 1..n
      BY <1>1, <1>8, <2>3
    <3>2. t[k] = s[k]
      BY <1>8, <2>3, <3>1
    <3> QED BY <2>3, <3>1, <3>2 DEF Core, FrameOf, n
  <2> QED BY <1>2, <1>8, <2>1, <2>2, <2>3 DEF FrameOf
<1>11. StatesOf(t, v)
  <2> SUFFICES ASSUME NEW m \in ToSet(w.loaded), v.state[m] # w.build[m].schema
               PROVE  \E i \in 1..Len(t) : t[i].kind = "retiring" /\ \E o \in ToSet(t[i].batch) : o.mod = m
    BY DEF StatesOf
  <2>1. PICK i \in 1..n : s[i].kind = "retiring" /\ \E o \in ToSet(s[i].batch) : o.mod = m
    <3>1. CASE v.state[m] = w.state[m]
      BY <3>1 DEF Core, StatesOf, n
    <3>2. CASE v.state[m] # w.state[m]
      <4>1. x.kind = "retiring" /\ \E o \in ToSet(x.batch) : o.mod = m
        BY <3>2
      <4>2. n \in 1..n /\ s[n] = x
        BY <1>1
      <4> QED BY <4>1, <4>2
    <3> QED BY <3>1, <3>2
  <2> QED BY <1>2, <1>8, <2>1
<1>12. SessionOf(t, v)
  <2>1. t # <<>> /\ 1 \in 1..n
    BY <1>1, <1>2
  <2> QED BY <1>2, <1>8, <2>1 DEF Core, SessionOf, RunIn, PlanIn, n
<1> QED BY <1>6, <1>9, <1>10, <1>11, <1>12 DEF Core, t

(* What is transient may be gone at any time.                              *)
LetsGo(w, u, m) ==
  /\ u.transient \in [Names -> Builds \union {NoBuild}]
  /\ \A n \in Names : u.transient[n] = IF n = m THEN NoBuild ELSE w.transient[n]
  /\ u.loaded = w.loaded /\ u.build = w.build /\ u.failed = w.failed /\ u.state = w.state
  /\ u.running = w.running /\ u.plan = w.plan /\ u.frame = w.frame /\ u.session = w.session

(* A mod may be without its transient part at any time.                    *)
LEMMA LetGo ==
  ASSUME NEW s, NEW w, Core(s, w), NEW m \in Names
  PROVE  \E u : Core(s, u) /\ LetsGo(w, u, m)
<1>1. PICK f : f = [n \in Names |-> IF n = m THEN NoBuild ELSE w.transient[n]]
  OBVIOUS
<1>2. PICK u : u = [loaded |-> w.loaded, build |-> w.build, failed |-> w.failed, running |-> w.running,
                    state |-> w.state, transient |-> f, plan |-> w.plan, frame |-> w.frame,
                    session |-> w.session]
  OBVIOUS
<1>3. /\ u.transient = f
      /\ u.loaded = w.loaded /\ u.build = w.build /\ u.failed = w.failed /\ u.state = w.state
      /\ u.running = w.running /\ u.plan = w.plan /\ u.frame = w.frame /\ u.session = w.session
  BY <1>2
<1>4. /\ f \in [Names -> Builds \union {NoBuild}]
      /\ \A n \in Names : f[n] = IF n = m THEN NoBuild ELSE w.transient[n]
  <2>1. w.transient \in [Names -> Builds \union {NoBuild}]
    BY DEF Core, ModsOK
  <2> QED BY <1>1, <2>1
<1>5. RunIn(u) = RunIn(w) /\ PlanIn(u) = PlanIn(w) /\ \A n : In(n, u) <=> In(n, w)
  BY <1>3 DEF RunIn, PlanIn, In
<1>6. ModsOK(u)
  <2>1. \A n \in Names : u.transient[n] \in {NoBuild, u.build[n]}
    BY <1>3, <1>4 DEF Core, ModsOK
  <2>2. \A n \in Names \ ToSet(u.loaded) : u.transient[n] = NoBuild
    BY <1>3, <1>4 DEF Core, ModsOK
  <2> QED BY <1>3, <1>4, <2>1, <2>2 DEF Core, ModsOK
<1>7. StackOf(s, u)
  <2> SUFFICES ASSUME NEW i \in 1..Len(s) PROVE Stands(s, i, u)
    BY DEF Core, StackOf
  <2>1. Stands(s, i, w)
    BY DEF Core, StackOf
  <2>2. ASSUME s[i].kind = "retiring" PROVE BatchOK(s[i], u)
    <3>1. BatchOK(s[i], w)
      BY <2>1, <2>2 DEF Stands
    <3>2. ASSUME NEW o \in ToSet(s[i].batch), In(o.mod, u)
          PROVE  ~u.build[o.mod].resident /\ Handed(s[i], o, u)
      <4>1. ~w.build[o.mod].resident /\ Handed(s[i], o, w)
        BY <1>5, <3>1, <3>2 DEF BatchOK
      <4>2. o.mod \in Names
        BY <1>5, <3>2, OfSequences DEF Core, ModsOK, In
      <4>3. w.transient[o.mod] = NoBuild => u.transient[o.mod] = NoBuild
        BY <1>3, <1>4, <4>2
      <4> QED BY <1>3, <4>1, <4>3 DEF Handed
    <3> QED BY <1>3, <1>5, <3>1, <3>2 DEF BatchOK
  <2>3. s[i].kind = "loading" => LoadingOK(s[i], u)
    BY <1>3, <1>5, <2>1 DEF Stands, LoadingOK
  <2>4. IsCode(s[i]) => CodeOK(s[i], u)
    BY <1>3, <1>5, <2>1 DEF Stands, CodeOK
  <2> QED BY <1>3, <1>5, <2>1, <2>2, <2>3, <2>4 DEF Stands
<1>8. RunOf(s, u) /\ FrameOf(s, u) /\ StatesOf(s, u)
  BY <1>3 DEF Core, RunOf, FrameOf, StatesOf
<1>9. SessionOf(s, u)
  BY <1>3, <1>5 DEF Core, SessionOf
<1> QED BY <1>3, <1>4, <1>6, <1>7, <1>8, <1>9 DEF Core, LetsGo
-----------------------------------------------------------------------------
(* Code that is entered on the stack, as each of the loader's ways in      *)
(* leaves it: from nothing, or on what may call it.                        *)
LEMMA CodeOnTop ==
  ASSUME NEW s, NEW w, NEW v, Core(s, w), NEW c \in Entries, Own(c), ~c.holds, ~c.was,
         In(c.mod, w) \/ c.kind \in Leaves, Entered(w, v, c), CodeOK(c, v),
         IF s = <<>> THEN c.kind = "run" /\ w.session = "running" ELSE Follows(Last(s), c),
         \A j \in 1..Len(s) : s[j].kind \in Taken => c.kind \in Leaves,
         \A j \in 1..Len(s) : IsCode(s[j]) => s[j].mod # c.mod,
         c.kind = "load" => Deps(c.build) \intersect ToSet(Last(s).todo) = {},
         c.kind = "system" => /\ c.node \in DOMAIN w.frame.nodes
                              /\ w.frame.nodes[c.node].build.mod = c.mod
  PROVE  Core(Append(s, c), v)
<1> DEFINE t == Append(s, c)
           n == Len(s) + 1
<1>1. /\ s \in Seq(Entries) /\ t \in Seq(Entries) /\ Len(s) \in Nat /\ Len(t) = n
      /\ \A i \in 1..Len(s) : t[i] = s[i]
      /\ t[n] = c
  BY Pushed DEF Core, StackOf
<1>2. ASSUME s # <<>> PROVE Len(s) # 0 /\ Last(s) = s[Len(s)] /\ t[n - 1] = Last(s)
  <2>1. Len(s) \in Nat \ {0} /\ Last(s) = s[Len(s)]
    BY <1>1, <1>2, TopOf
  <2>2. n - 1 = Len(s) /\ Len(s) \in 1..Len(s)
    BY <2>1
  <2> QED BY <1>1, <2>1, <2>2
<1>3. s = <<>> => n = 1
  BY <1>1
<1>4. \A j \in 1..n - 1 : j \in 1..Len(s) /\ t[j] = s[j]
  BY <1>1
<1>5. n \in Nat \ {0} /\ (s # <<>> => n # 1)
  BY <1>1, <1>2
<1> HIDE DEF t, n
<1>6. Sits(t, n)
  <2>1. Clear(t, n)
    <3>1. c.kind \in CodeKinds \ {"handler"}
      BY DEF Own, IsCode
    <3> QED BY <1>1, <1>4, <3>1 DEF Clear, Pumping, CodeKinds
  <2>2. IF n = 1 THEN Starts(t[n]) ELSE Follows(t[n - 1], t[n])
    BY <1>1, <1>2, <1>3, <1>5 DEF Starts
  <2> QED BY <2>1, <2>2 DEF Sits
<1>7. Stands(t, n, v)
  <2>1. c.kind \in CodeKinds \ {"handler"}
    BY DEF Own, IsCode
  <2>2. c.kind = "load" => s # <<>>
    OBVIOUS
  <2> QED BY <1>1, <1>2, <2>1, <2>2 DEF Stands, CodeKinds
<1>8. s = <<>> => w.session = "running"
  OBVIOUS
<1> QED BY <1>6, <1>7, <1>8, EnterOn DEF t, n

(* Who isn't on the stack isn't running.                                   *)
LEMMA NotRunning ==
  ASSUME NEW s, NEW w, RunOf(s, w), NEW m \in Names
  PROVE  w.running[m] <=> ~ \A i \in 1..Len(s) : IsCode(s[i]) => s[i].mod # m
BY DEF RunOf

(* Enter marks its mod running, and makes or drops its transient part.     *)
LEMMA EnterDoes ==
  ASSUME ModsOK(World), NEW kind, NEW m \in Names, build[m] \in Builds, Enter(kind, m)
  PROVE  /\ running' \in [Names -> BOOLEAN] /\ transient' \in [Names -> Builds \union {NoBuild}]
         /\ \A n \in Names : running'[n] <=> (n = m \/ running[n])
         /\ \A n \in Names : transient'[n] =
              IF n # m THEN transient[n]
              ELSE IF kind \in Leaves THEN NoBuild
              ELSE IF transient[n] = NoBuild THEN build[n] ELSE transient[n]
<1>1. running \in [Names -> BOOLEAN] /\ transient \in [Names -> Builds \union {NoBuild}]
  BY DEF ModsOK, World
<1>2. running' = [running EXCEPT ![m] = TRUE]
  BY DEF Enter
<1>3. transient' = [transient EXCEPT ![m] =
                      IF kind \in {"unload", "close"} THEN NoBuild
                      ELSE IF @ = NoBuild THEN build[m] ELSE @]
  BY DEF Enter
<1>4. running' \in [Names -> BOOLEAN] /\ \A n \in Names : running'[n] <=> (n = m \/ running[n])
  BY <1>1, <1>2
<1>5. PICK b \in Builds \union {NoBuild} :
        b = IF kind \in {"unload", "close"} THEN NoBuild
            ELSE IF transient[m] = NoBuild THEN build[m] ELSE transient[m]
  BY <1>1
<1>6. transient' = [transient EXCEPT ![m] = b]
  BY <1>3, <1>5
<1>7. transient' \in [Names -> Builds \union {NoBuild}]
  BY <1>1, <1>6
<1>8. \A n \in Names : transient'[n] = IF n # m THEN transient[n] ELSE b
  BY <1>1, <1>6
<1> QED BY <1>4, <1>5, <1>7, <1>8 DEF Leaves

(* Enter is what the stack's invariant calls entering.                     *)
LEMMA Enters ==
  ASSUME ModsOK(World), NEW kind, NEW m \in Names, build[m] \in Builds, Enter(kind, m), NEW c, c.kind = kind, c.mod = m,
         UNCHANGED <<loaded, build, failed, state, plan, frame, session>>
  PROVE  Entered(World, World', c)
BY EnterDoes DEF Entered, World

(* Code that is entered in a mod that is loaded and isn't running.         *)
Fresh(c, w, v) ==
  /\ c \in Entries /\ Own(c) /\ ~c.holds /\ ~c.was /\ In(c.mod, w)
  /\ Entered(w, v, c) /\ CodeOK(c, v)

(* A fresh entry of a mod's code, entered on its build.                    *)
LEMMA EntersCode ==
  ASSUME ModsOK(World), NEW kind \in CodeKinds \ {"handler"}, NEW m, In(m, World), ~World.running[m],
         Enter(kind, m), UNCHANGED <<loaded, build, failed, state, plan, frame, session>>,
         state[m] = build[m].schema, kind \notin {"load"} \union Leaves => ~World.failed[m], NEW node \in Nat
  PROVE  /\ Fresh(Code(kind, m, node), World, World')
         /\ Code(kind, m, node).kind = kind /\ Code(kind, m, node).mod = m
         /\ Code(kind, m, node).node = node /\ Code(kind, m, node).build = build[m]
<1>1. /\ m \in Names /\ build[m] \in Builds /\ running \in [Names -> BOOLEAN] /\ failed \in [Names -> BOOLEAN]
      /\ running[m] = FALSE
  BY OfSequences DEF ModsOK, In, World
<1> DEFINE c == Code(kind, m, node)
<1>2. /\ c \in Entries /\ IsCode(c) /\ c.kind = kind /\ c.mod = m /\ c.build = build[m]
      /\ c.was = FALSE /\ c.node = node /\ c.holds = FALSE
  BY <1>1 DEF Code, Entries, IsCode
<1> HIDE DEF c
<1>3. Entered(World, World', c)
  BY <1>1, <1>2, Enters
<1>4. In(m, World')
  BY DEF In, World
<1>5. World'.build = build /\ World'.state = state /\ World'.failed = World.failed
  BY DEF World
<1>6. CodeOK(c, World')
  BY <1>2, <1>4, <1>5 DEF CodeOK
<1> QED BY <1>2, <1>3, <1>6 DEF Fresh, Own, c
-----------------------------------------------------------------------------
(* The entry on top, and the code under a batch.                           *)
LEMMA AtTop ==
  ASSUME NEW s, NEW w, Core(s, w), s # <<>>
  PROVE  /\ s \in Seq(Entries) /\ Len(s) \in Nat \ {0} /\ Last(s) = s[Len(s)] /\ Last(s) \in Entries
         /\ Sits(s, Len(s)) /\ Stands(s, Len(s), w)
BY TopOf DEF Core, StackOf

(* A loaded mod has a build of its own name.                               *)
LEMMA ModsAre ==
  ASSUME NEW w, ModsOK(w)
  PROVE  /\ \A m : In(m, w) => m \in Names /\ w.build[m] \in Builds /\ w.build[m].mod = m
         /\ NoBuild.mod \notin Names
BY OfSequences, GamesAssumption DEF ModsOK, In, NoBuild

(* What is under a batch stands on residents only, so it does not depend   *)
(* on the rest.                                                            *)
LEMMA CalmStands ==
  ASSUME NEW s, NEW w, NEW v, Core(s, w), NEW k \in 0..Len(s), Calm(s, w, k),
         \A m \in Names : In(m, w) /\ w.build[m].resident =>
           /\ In(m, v) /\ v.build[m] = w.build[m]
           /\ v.state[m] = w.state[m] /\ v.failed[m] = w.failed[m]
  PROVE  \A i \in 1..k : Stands(s, i, v)
<1> SUFFICES ASSUME NEW i \in 1..k PROVE Stands(s, i, v)
  OBVIOUS
<1>1. Len(s) \in Nat /\ i \in 1..Len(s) /\ \A j \in 1..i - 1 : j \in 1..k
  BY DEF Core, StackOf
<1>2. Stands(s, i, w)
  BY <1>1 DEF Core, StackOf
<1>3. \A j \in 1..k : IsCode(s[j]) => /\ In(s[j].mod, w) /\ s[j].mod \in Names /\ w.build[s[j].mod].resident
  BY ModsAre DEF Calm, Core
<1>4. s[i].kind \notin Taken \union Shared \union Leaves \union {"load"}
  BY DEF Calm
<1>5. IsCode(s[i]) => CodeOK(s[i], v)
  BY <1>2, <1>3 DEF Stands, CodeOK
<1>6. s[i].kind = "pump" => \A j \in 1..i - 1 : IsCode(s[j]) => v.build[s[j].mod].resident
  BY <1>1, <1>3
<1> QED BY <1>4, <1>5, <1>6 DEF Stands, Taken, Shared

(* All but the entry on top stand as they are.                             *)
LEMMA SameStands ==
  ASSUME NEW s, NEW w, Core(s, w)
  PROVE  \A i \in 1..Len(s) - 1 : Stands(s, i, w)
<1> SUFFICES ASSUME NEW i \in 1..Len(s) - 1 PROVE Stands(s, i, w)
  OBVIOUS
<1>1. i \in 1..Len(s)
  BY DEF Core, StackOf
<1> QED BY <1>1 DEF Core, StackOf

(* The first of a batch, and what is left.                                 *)
LEMMA FirstOfTail ==
  ASSUME NEW u \in Seq(Builds), u # <<>>, Distinct(u)
  PROVE  /\ Head(u) \in Builds /\ Tail(u) \in Seq(Builds) /\ Distinct(Tail(u))
         /\ Head(u) \in ToSet(u) /\ Head(u) \notin ToSet(Tail(u))
         /\ ToSet(u) = {Head(u)} \union ToSet(Tail(u))
<1>1. /\ Head(u) \in Builds /\ Tail(u) \in Seq(Builds) /\ ToSet(u) = {Head(u)} \union ToSet(Tail(u))
  BY OfSequences
<1>2. /\ Head(u) = u[1] /\ Len(u) \in Nat \ {0} /\ Len(Tail(u)) = Len(u) - 1
      /\ \A i \in 1..Len(u) - 1 : Tail(u)[i] = u[i + 1]
      /\ DOMAIN u = 1..Len(u) /\ DOMAIN Tail(u) = 1..Len(u) - 1
  BY <1>1
<1>3. Distinct(Tail(u))
  <2> SUFFICES ASSUME NEW i \in 1..Len(u) - 1, NEW j \in 1..Len(u) - 1, Tail(u)[i].mod = Tail(u)[j].mod
               PROVE  i = j
    BY <1>2 DEF Distinct
  <2>1. i + 1 \in DOMAIN u /\ j + 1 \in DOMAIN u /\ u[i + 1].mod = u[j + 1].mod
    BY <1>2
  <2>2. i + 1 = j + 1
    BY <2>1 DEF Distinct
  <2> QED BY <2>2
<1>4. ASSUME Head(u) \in ToSet(Tail(u)) PROVE FALSE
  <2>0. ToSet(Tail(u)) = {Tail(u)[i] : i \in 1..Len(Tail(u))}
    BY <1>1, OfSequences
  <2>1. PICK i \in 1..Len(u) - 1 : Head(u) = Tail(u)[i]
    BY <1>2, <1>4, <2>0
  <2>2. u[1] = u[i + 1] /\ 1 \in DOMAIN u /\ i + 1 \in DOMAIN u
    BY <1>2, <2>1
  <2>3. i + 1 = 1
    BY <2>2 DEF Distinct
  <2> QED BY <2>3
<1> QED BY <1>1, <1>3, <1>4

(* A batch has one build of a name.                                        *)
LEMMA OneOfAName ==
  ASSUME NEW A, NEW u \in Seq(A), Distinct(u), NEW o \in ToSet(u), NEW p \in ToSet(u), o.mod = p.mod
  PROVE  o = p
<1>1. ToSet(u) = {u[i] : i \in 1..Len(u)} /\ DOMAIN u = 1..Len(u)
  BY OfSequences
<1>2. PICK i \in 1..Len(u) : o = u[i]
  BY <1>1
<1>3. PICK j \in 1..Len(u) : p = u[j]
  BY <1>1
<1> QED BY <1>1, <1>2, <1>3 DEF Distinct

(* A batch goes on with the next of its builds.                            *)
LEMMA NextOfBatch ==
  ASSUME NEW w, NEW v, ModsOK(w), NEW x \in RetiringEntry, BatchOK(x, w), x.todo # <<>>,
         NEW y \in RetiringEntry, y.batch = x.batch, y.todo = Tail(x.todo), y.told = None,
         v.loaded = w.loaded, v.build = w.build, v.plan = w.plan, v.transient = w.transient,
         NEW h, h = Head(x.todo), \A n \in Names : n # h.mod => v.state[n] = w.state[n],
         In(h.mod, w) => x.told # None /\ v.state[h.mod] = h.schema /\ w.transient[h.mod] = NoBuild
  PROVE  BatchOK(y, v)
<1>1. /\ Distinct(x.batch) /\ Ordered(x.batch) /\ Distinct(x.todo)
      /\ ToSet(x.todo) \subseteq ToSet(x.batch) /\ x.todo \in Seq(Builds) /\ x.batch \in Seq(Builds)
  BY DEF BatchOK, RetiringEntry
<1>2. /\ h \in Builds /\ Distinct(Tail(x.todo)) /\ h \in ToSet(x.todo) /\ h \notin ToSet(Tail(x.todo))
      /\ ToSet(x.todo) = {h} \union ToSet(Tail(x.todo))
  BY <1>1, FirstOfTail
<1>3. RunIn(v) = RunIn(w) /\ \A n : In(n, v) <=> In(n, w)
  BY DEF RunIn, In
<1>4. ASSUME NEW o \in ToSet(x.batch), In(o.mod, v)
      PROVE  ~v.build[o.mod].resident /\ Handed(y, o, v)
  <2>1. ~w.build[o.mod].resident /\ Handed(x, o, w) /\ o.mod \in Names
    BY <1>3, <1>4, ModsAre DEF BatchOK
  <2>2. CASE o = h
    BY <1>2, <1>3, <1>4, <2>1, <2>2 DEF Handed, None
  <2>3. CASE o # h
    <3>1. o.mod # h.mod
      BY <1>1, <1>2, <2>3, OneOfAName
    <3>2. o \in ToSet(y.todo) <=> o \in ToSet(x.todo)
      BY <1>2, <2>3
    <3>3. v.state[o.mod] = w.state[o.mod]
      BY <2>1, <3>1
    <3> QED BY <2>1, <2>3, <3>2, <3>3 DEF Handed, None
  <2> QED BY <2>1, <2>2, <2>3
<1> QED BY <1>1, <1>2, <1>3, <1>4 DEF BatchOK

(* A build that replaces none is passed over.                              *)
LEMMA RetireNoneKeeps ==
  ASSUME IInv, RetireNone
  PROVE  Core(stack', World')
<1> DEFINE x == Top
           y == [x EXCEPT !.todo = Tail(@)]
<1>1. /\ stack # <<>> /\ x.kind = "retiring" /\ x.todo # <<>> /\ x.told = None
      /\ ~In(Head(x.todo).mod, World)
      /\ stack' = Append(Front(stack), y) /\ World' = World
  BY DEF RetireNone, Untold, OnTop, IsLoaded, In, World, perMod
<1>2. Core(stack, World) /\ x \in Entries /\ Stands(stack, Len(stack), World) /\ x = stack[Len(stack)]
  BY <1>1, AtTop DEF IInv, Top
<1>3. x \in RetiringEntry /\ BatchOK(x, World)
  BY <1>1, <1>2, EntryTypes DEF Stands
<1>4. Tail(x.todo) \in Seq(Builds)
  BY <1>1, <1>3 DEF RetiringEntry
<1>5. y \in RetiringEntry /\ y.kind = "retiring" /\ y.batch = x.batch /\ y.todo = Tail(x.todo) /\ y.told = x.told
  BY <1>3, <1>4 DEF RetiringEntry
<1>6. x = Last(stack)
  BY DEF Top
<1> HIDE DEF x, y
<1>7. BatchOK(y, World)
  BY <1>1, <1>2, <1>3, <1>5, NextOfBatch DEF Core
<1>8. y \in Entries
  BY <1>5, EntryTypes
<1>9. ModsOK(World) /\ \A i \in 1..Len(stack) - 1 : Stands(stack, i, World)
  BY <1>2, SameStands DEF Core
<1>10. Core(Append(Front(stack), y), World)
  BY <1>1, <1>2, <1>5, <1>6, <1>7, <1>8, <1>9, SwapTop
<1> QED BY <1>1, <1>10
(* The one to be replaced is told, to keep its state or to drop it.        *)
LEMMA TellsTheOld ==
  ASSUME IInv, stack # <<>>, Top.kind = "retiring", Top.todo # <<>>,
         NEW h, h = Head(Top.todo), In(h.mod, World), state[h.mod] = build[h.mod].schema,
         NEW how \in {"unload", "close"}, how = "unload" => Carried(build[h.mod].schema, h.schema),
         Hook(how, h.mod, [Top EXCEPT !.told = how]),
         UNCHANGED <<loaded, build, failed, state, plan, frame, session>>
  PROVE  Core(stack', World')
<1> DEFINE x == Top
           y == [x EXCEPT !.told = how]
           c == Code(how, h.mod, 0)
           t == Append(Front(stack), y)
<1>1. /\ Core(stack, World) /\ x \in Entries /\ Stands(stack, Len(stack), World) /\ x = stack[Len(stack)]
      /\ x = Last(stack) /\ ModsOK(World) /\ RunOf(stack, World) /\ Len(stack) \in Nat \ {0}
      /\ stack \in Seq(Entries)
  BY AtTop DEF IInv, Top, Core
<1>2. x \in RetiringEntry /\ BatchOK(x, World)
  BY <1>1, EntryTypes DEF Stands
<1>3. y \in RetiringEntry /\ y.kind = "retiring" /\ y.batch = x.batch /\ y.todo = x.todo /\ y.told = how
  BY <1>2 DEF RetiringEntry
<1>4. /\ Distinct(x.batch) /\ Ordered(x.batch) /\ Distinct(x.todo)
      /\ ToSet(x.todo) \subseteq ToSet(x.batch) /\ x.todo \in Seq(Builds) /\ x.batch \in Seq(Builds)
      /\ h \in Builds /\ h \in ToSet(x.todo)
  BY <1>2, FirstOfTail DEF BatchOK, RetiringEntry
<1>5. h.mod \in Names /\ build[h.mod] \in Builds /\ ~build[h.mod].resident
  <2>1. h.mod \in Names /\ World.build[h.mod] \in Builds
    BY <1>1, ModsAre
  <2>2. ~World.build[h.mod].resident
    BY <1>2, <1>4 DEF BatchOK
  <2> QED BY <2>1, <2>2 DEF World
<1>6. stack' = Append(t, c) /\ Enter(how, h.mod)
  <2>1. stack' = Front(stack) \o <<y, c>>
    BY DEF Hook
  <2>2. Front(stack) \in Seq(Entries) /\ y \in Entries
    BY <1>1, <1>3, TopOf, EntryTypes
  <2>3. c \in Entries
    <3>1. running[h.mod] \in BOOLEAN
      BY <1>1, <1>5 DEF ModsOK, World
    <3> QED BY <1>5, <3>1 DEF c, Code, CodeKinds, Entries
  <2> HIDE DEF t, c, y
  <2>4. Front(stack) \o <<y, c>> = Append(Append(Front(stack), y), c)
    BY <2>2, <2>3, PushedTwo
  <2> QED BY <2>1, <2>4 DEF t, Hook
<1>7a. PICK u : Core(stack, u) /\ LetsGo(World, u, h.mod)
  BY <1>1, <1>5, LetGo
<1>7. /\ u.transient \in [Names -> Builds \union {NoBuild}]
      /\ \A n \in Names : u.transient[n] = IF n = h.mod THEN NoBuild ELSE World.transient[n]
      /\ u.loaded = World.loaded /\ u.build = World.build /\ u.failed = World.failed /\ u.state = World.state
      /\ u.running = World.running /\ u.plan = World.plan /\ u.frame = World.frame /\ u.session = World.session
  BY <1>7a DEF LetsGo
<1>8. RunIn(u) = RunIn(World) /\ \A m : In(m, u) <=> In(m, World)
  BY <1>7 DEF RunIn, In
<1> HIDE DEF x, y, c, t
<1>9. BatchOK(y, u)
  <2>1. ASSUME NEW o \in ToSet(x.batch), In(o.mod, u)
        PROVE  ~u.build[o.mod].resident /\ Handed(y, o, u)
    <3>1. ~World.build[o.mod].resident /\ Handed(x, o, World) /\ o.mod \in Names
      BY <1>1, <1>2, <1>8, <2>1, ModsAre DEF BatchOK
    <3>2. World.transient[o.mod] = NoBuild => u.transient[o.mod] = NoBuild
      BY <1>7, <3>1
    <3>3. o = h => u.transient[o.mod] = NoBuild
      BY <1>5, <1>7
    <3>4. o = h => u.state[o.mod] = u.build[o.mod].schema /\ (how = "unload" => Carried(u.build[o.mod].schema, o.schema))
      BY <1>7 DEF World
    <3>5. o \notin ToSet(y.todo) => u.state[o.mod] = o.schema /\ u.transient[o.mod] = NoBuild
      BY <1>3, <1>7, <3>1, <3>2 DEF Handed
    <3>6. Head(y.todo) = h /\ y.told # None
      BY <1>3 DEF x, None
    <3>7. o \in ToSet(y.todo) /\ o # h => u.state[o.mod] = u.build[o.mod].schema
      BY <1>3, <1>7, <3>1, <3>6 DEF Handed
    <3> QED BY <1>3, <1>7, <3>1, <3>3, <3>4, <3>5, <3>6, <3>7 DEF Handed
  <2>2. In(Head(y.todo).mod, u) /\ y.todo # <<>>
    BY <1>3, <1>8 DEF x
  <2> QED BY <1>2, <1>3, <1>7, <1>8, <2>1, <2>2 DEF BatchOK
<1>10. Core(t, u)
  <2>1. y \in Entries
    BY <1>3, EntryTypes
  <2>2. ModsOK(u) /\ \A i \in 1..Len(stack) - 1 : Stands(stack, i, u)
    BY <1>7a, SameStands DEF Core
  <2>3. x.kind = "retiring"
    BY DEF x
  <2> QED BY <1>1, <1>3, <1>7a, <1>9, <2>1, <2>2, <2>3, SwapTop DEF t
<1>11. \A i \in 1..Len(stack) : IsCode(stack[i]) => stack[i].mod # h.mod
  <2> SUFFICES ASSUME NEW i \in 1..Len(stack), IsCode(stack[i])
               PROVE  stack[i].mod # h.mod
    OBVIOUS
  <2>1. i # Len(stack)
    BY <1>1 DEF x, IsCode, CodeKinds
  <2>2. i \in 1..Len(stack) - 1
    BY <1>1, <2>1
  <2>3. Calm(stack, World, Len(stack) - 1)
    <3>1. Len(stack) \in 1..Len(stack) /\ stack[Len(stack)].kind = "retiring"
      BY <1>1 DEF x
    <3> QED BY <1>1, <3>1, UnderBatch DEF Core
  <2>4. World.build[stack[i].mod].resident
    BY <2>2, <2>3 DEF Calm
  <2> QED BY <1>5, <2>4 DEF World
<1>12. running[h.mod] = FALSE
  <2>1. ~World.running[h.mod]
    BY <1>1, <1>5, <1>11, NotRunning
  <2>2. World.running \in [Names -> BOOLEAN] /\ World.running = running
    BY <1>1 DEF World, ModsOK
  <2> QED BY <1>5, <2>1, <2>2
<1>13. /\ c \in Entries /\ IsCode(c) /\ c.kind = how /\ c.mod = h.mod /\ c.build = build[h.mod]
       /\ c.was = FALSE /\ c.holds = FALSE
  <2>1. how \in CodeKinds /\ running[h.mod] \in BOOLEAN /\ 0 \in Nat
    BY <1>12 DEF CodeKinds
  <2>2. c = Code(how, h.mod, 0)
    BY DEF c
  <2> QED BY <1>5, <1>12, <2>1, <2>2 DEF Code, Entries, IsCode
<1>14. Entered(u, World', c)
  <2>1. Entered(World, World', c)
    BY <1>1, <1>5, <1>6, <1>13, Enters
  <2>2. c.kind \in Leaves
    BY <1>13 DEF Leaves
  <2>3. \A n \in Names : World'.transient[n] = IF n # c.mod THEN u.transient[n] ELSE NoBuild
    BY <1>7, <1>13, <2>1, <2>2 DEF Entered
  <2> QED BY <1>7, <2>1, <2>2, <2>3 DEF Entered
<1>15. CodeOK(c, World')
  <2>1. World'.build = build /\ World'.state = state
    BY DEF World
  <2> QED BY <1>13, <2>1 DEF CodeOK, Leaves
<1>16. /\ t \in Seq(Entries) /\ Len(t) = Len(stack) /\ t # <<>> /\ Last(t) = y /\ t[Len(stack)] = y
       /\ \A i \in 1..Len(stack) - 1 : t[i] = stack[i]
  <2>1. Front(stack) \in Seq(Entries) /\ y \in Entries /\ Len(Front(stack)) = Len(stack) - 1
        /\ \A i \in 1..Len(stack) - 1 : Front(stack)[i] = stack[i]
    BY <1>1, <1>3, TopOf, EntryTypes
  <2>2. t \in Seq(Entries) /\ Len(t) = Len(stack) /\ t[Len(stack)] = y /\ \A i \in 1..Len(stack) - 1 : t[i] = stack[i]
    BY <1>1, <2>1, Pushed DEF t
  <2>3. t # <<>>
    BY <1>1, <2>2
  <2>4. Last(t) = t[Len(t)]
    BY <2>2, <2>3, TopOf
  <2> QED BY <2>2, <2>3, <2>4
<1>17. Own(c) /\ ~c.holds /\ ~c.was /\ c.kind \in Leaves /\ c.kind \notin {"load", "system"}
  BY <1>13 DEF Own, Leaves
<1>18. Follows(Last(t), c)
  <2>1. Head(y.todo) = h /\ y.todo # <<>>
    BY <1>3 DEF x
  <2> QED BY <1>3, <1>13, <1>16, <1>17, <2>1 DEF Follows
<1>19. \A j \in 1..Len(t) : IsCode(t[j]) => t[j].mod # c.mod
  <2> SUFFICES ASSUME NEW j \in 1..Len(t), IsCode(t[j])
               PROVE  t[j].mod # c.mod
    OBVIOUS
  <2>1. CASE j = Len(stack)
    BY <1>3, <1>16, <2>1 DEF IsCode, CodeKinds
  <2>2. CASE j # Len(stack)
    BY <1>1, <1>11, <1>13, <1>16, <2>2
  <2> QED BY <2>1, <2>2
<1>20. Core(Append(t, c), World')
  BY <1>10, <1>13, <1>14, <1>15, <1>16, <1>17, <1>18, <1>19, CodeOnTop
<1> QED BY <1>6, <1>20

(* An old build is told to let go.                                         *)
LEMMA RetireKeeps ==
  ASSUME IInv, Retire
  PROVE  Core(stack', World')
<1>1. PICK h : h = Head(Top.todo)
  OBVIOUS
<1>2. PICK how \in {"unload", "close"} : how = IF Carried(Old(h).schema, h.schema) THEN "unload" ELSE "close"
  OBVIOUS
<1>3. /\ stack # <<>> /\ Top.kind = "retiring" /\ Top.todo # <<>> /\ Top.told = None
      /\ In(h.mod, World) /\ Hook(how, h.mod, [Top EXCEPT !.told = how])
      /\ UNCHANGED <<loaded, build, failed, state, plan, frame, session>>
  BY <1>1, <1>2 DEF Retire, Untold, OnTop, IsLoaded, In, World
<1>4. Stands(stack, Len(stack), World) /\ Top = stack[Len(stack)] /\ Top \in RetiringEntry
  BY <1>3, AtTop, EntryTypes DEF IInv, Top
<1>5. BatchOK(Top, World) /\ Distinct(Top.todo) /\ Top.todo \in Seq(Builds)
  BY <1>3, <1>4 DEF Stands, BatchOK, RetiringEntry
<1>6. h \in ToSet(Top.todo) /\ h \in ToSet(Top.batch)
  BY <1>1, <1>3, <1>5, FirstOfTail DEF BatchOK
<1>7. state[h.mod] = build[h.mod].schema
  BY <1>3, <1>5, <1>6 DEF BatchOK, Handed, World
<1>8. how = "unload" => Carried(build[h.mod].schema, h.schema)
  BY <1>2 DEF Old
<1> QED BY <1>1, <1>3, <1>7, <1>8, TellsTheOld

(* An old build's state is closed after all.                               *)
LEMMA PointsIntoItsBuildKeeps ==
  ASSUME IInv, PointsIntoItsBuild
  PROVE  Core(stack', World')
<1>1. PICK h : h = Head(Top.todo)
  OBVIOUS
<1>3. /\ stack # <<>> /\ Top.kind = "retiring" /\ Top.told = "unload"
      /\ Hook("close", h.mod, [Top EXCEPT !.told = "close"])
      /\ UNCHANGED <<loaded, build, failed, state, plan, frame, session>>
  BY <1>1 DEF PointsIntoItsBuild, OnTop
<1>4. Stands(stack, Len(stack), World) /\ Top = stack[Len(stack)] /\ Top \in RetiringEntry
  BY <1>3, AtTop, EntryTypes DEF IInv, Top
<1>5. BatchOK(Top, World) /\ Distinct(Top.todo) /\ Top.todo \in Seq(Builds) /\ Top.todo # <<>> /\ In(h.mod, World)
  BY <1>1, <1>3, <1>4 DEF Stands, BatchOK, RetiringEntry, None
<1>6. h \in ToSet(Top.todo) /\ h \in ToSet(Top.batch)
  BY <1>1, <1>3, <1>5, FirstOfTail DEF BatchOK
<1>7. state[h.mod] = build[h.mod].schema
  BY <1>1, <1>3, <1>5, <1>6 DEF BatchOK, Handed, World
<1> QED BY <1>1, <1>3, <1>5, <1>7, TellsTheOld

(* A state is handed over to the new build.                                *)
LEMMA HandOverKeeps ==
  ASSUME IInv, HandOver
  PROVE  Core(stack', World')
<1> DEFINE x == Top
           y == [x EXCEPT !.todo = Tail(@), !.told = None]
<1>0. PICK h : h = Head(Top.todo)
  OBVIOUS
<1>1. /\ stack # <<>> /\ x.kind = "retiring" /\ x.told # None
      /\ stack' = Append(Front(stack), y)
      /\ state' = [state EXCEPT ![h.mod] =
                     IF x.told = "unload" /\ ~Migrates(build[h.mod].schema, h.schema) THEN @ ELSE h.schema]
      /\ UNCHANGED <<loaded, build, failed, running, transient, plan, frame, session>>
  BY <1>0 DEF HandOver, OnTop, Old
<1>2. /\ Core(stack, World) /\ x \in Entries /\ Stands(stack, Len(stack), World) /\ x = stack[Len(stack)]
      /\ x = Last(stack) /\ ModsOK(World) /\ Len(stack) \in Nat \ {0}
  BY <1>1, AtTop DEF IInv, Top, Core
<1>3. x \in RetiringEntry /\ BatchOK(x, World)
  BY <1>1, <1>2, EntryTypes DEF Stands
<1>4. /\ x.todo # <<>> /\ Distinct(x.todo) /\ x.todo \in Seq(Builds) /\ x.batch \in Seq(Builds)
      /\ In(h.mod, World)
  BY <1>0, <1>1, <1>3 DEF BatchOK, RetiringEntry
<1>5. h \in Builds /\ Tail(x.todo) \in Seq(Builds) /\ h \in ToSet(x.todo) /\ h \in ToSet(x.batch)
  BY <1>0, <1>3, <1>4, FirstOfTail DEF BatchOK
<1>6. y \in RetiringEntry /\ y.kind = "retiring" /\ y.batch = x.batch /\ y.todo = Tail(x.todo) /\ y.told = None
  BY <1>3, <1>5 DEF RetiringEntry
<1>7. h.mod \in Names /\ ~World.build[h.mod].resident /\ Handed(x, h, World)
  BY <1>2, <1>3, <1>4, <1>5, ModsAre DEF BatchOK
<1>8. /\ World'.loaded = World.loaded /\ World'.build = World.build /\ World'.failed = World.failed
      /\ World'.running = World.running /\ World'.transient = World.transient /\ World'.plan = World.plan
      /\ World'.frame = World.frame /\ World'.session = World.session
      /\ World.state = state /\ World'.state = state' /\ World.build = build
  BY <1>1 DEF World
<1>9. state \in [Names -> {b.schema : b \in Builds} \union {NoState, Dropped}]
  BY <1>2 DEF ModsOK, World
<1>10. state'[h.mod] = h.schema /\ \A n \in Names : n # h.mod => state'[n] = state[n]
  <2>1. x.told = "unload" => state[h.mod] = build[h.mod].schema /\ Carried(build[h.mod].schema, h.schema)
    BY <1>0, <1>5, <1>7 DEF Handed, World
  <2> HIDE DEF x
  <2> QED BY <1>1, <1>7, <1>9, <2>1 DEF Carried
<1>11. state' \in [Names -> {b.schema : b \in Builds} \union {NoState, Dropped}]
  <2>1. PICK z \in {b.schema : b \in Builds} \union {NoState, Dropped} :
          z = IF x.told = "unload" /\ ~Migrates(build[h.mod].schema, h.schema) THEN state[h.mod] ELSE h.schema
    BY <1>5, <1>7, <1>9
  <2>2. state' = [state EXCEPT ![h.mod] = z]
    BY <1>1, <2>1
  <2> QED BY <1>9, <2>2
<1>12. ModsOK(World')
  BY <1>2, <1>8, <1>11 DEF ModsOK
<1>13. World.transient[h.mod] = NoBuild
  BY <1>0, <1>1, <1>5, <1>7 DEF Handed
<1>14. x = Last(stack)
  BY DEF Top
<1> HIDE DEF x, y
<1>15. BatchOK(y, World')
  <2>1. h = Head(x.todo)
    BY <1>0 DEF x
    <2>2. In(h.mod, World) => x.told # None /\ World'.state[h.mod] = h.schema /\ World.transient[h.mod] = NoBuild
    BY <1>1, <1>8, <1>10, <1>13 DEF x
  <2>3. \A n \in Names : n # h.mod => World'.state[n] = World.state[n]
    BY <1>8, <1>10
  <2>4. x \in RetiringEntry /\ BatchOK(x, World) /\ x.todo # <<>>
    BY <1>3, <1>4 DEF x
  <2> QED BY <1>2, <1>6, <1>8, <2>1, <2>2, <2>3, <2>4, NextOfBatch
<1>16. \A i \in 1..Len(stack) - 1 : Stands(stack, i, World')
  <2>1. Len(stack) \in 1..Len(stack) /\ stack[Len(stack)].kind = "retiring" /\ Len(stack) - 1 \in 0..Len(stack)
    BY <1>1, <1>2
  <2>2. Calm(stack, World, Len(stack) - 1)
    BY <1>2, <2>1, UnderBatch DEF Core
  <2>3. \A m \in Names : In(m, World) /\ World.build[m].resident =>
           /\ In(m, World') /\ World'.build[m] = World.build[m]
           /\ World'.state[m] = World.state[m] /\ World'.failed[m] = World.failed[m]
    BY <1>7, <1>8, <1>10 DEF In
  <2> QED BY <1>2, <2>1, <2>2, <2>3, CalmStands
<1>17. \A m \in ToSet(World.loaded) :
         World'.state[m] = World.state[m] \/ (x.kind = "retiring" /\ \E o \in ToSet(x.batch) : o.mod = m)
  <2>1. ToSet(World.loaded) \subseteq Names
    BY <1>2, OfSequences DEF ModsOK
  <2> QED BY <1>1, <1>5, <1>8, <1>10, <2>1
<1>18. y \in Entries
  BY <1>6, EntryTypes
<1>19. Core(Append(Front(stack), y), World')
  <2>1. x.kind = "retiring" /\ stack # <<>>
    BY <1>1 DEF x
  <2>2. /\ x.kind \in {"retiring", "loading", "stepping"} /\ y.kind = x.kind
        /\ x.kind = "retiring" => y.batch = x.batch /\ BatchOK(y, World')
        /\ x.kind = "loading" => ToSet(y.todo) \subseteq ToSet(x.todo) /\ LoadingOK(y, World')
    BY <1>6, <1>15, <2>1
  <2>3. Core(stack, World)
    BY <1>2
  <2> QED BY <1>8, <1>12, <1>14, <1>16, <1>17, <1>18, <2>1, <2>2, <2>3, SwapTop
<1> QED BY <1>1, <1>19
-----------------------------------------------------------------------------
(* The new builds load.                                                    *)
LEMMA NameOfTail ==
  ASSUME NEW u \in Seq(Names), u # <<>>
  PROVE  /\ Head(u) \in ToSet(u) /\ Tail(u) \in Seq(Names) /\ ToSet(Tail(u)) \subseteq ToSet(u)
         /\ Head(u) = u[1] /\ 1 \in DOMAIN u
         /\ \A i \in DOMAIN Tail(u) : i + 1 \in DOMAIN u /\ Tail(u)[i] = u[i + 1] /\ i \in Nat \ {0}
         /\ ToSet(Tail(u)) = {Tail(u)[i] : i \in DOMAIN Tail(u)}
<1>1. Tail(u) \in Seq(Names) /\ ToSet(u) = {Head(u)} \union ToSet(Tail(u))
  BY OfSequences
<1>2. ToSet(Tail(u)) = {Tail(u)[i] : i \in DOMAIN Tail(u)}
  BY <1>1, OfSequences
<1>3. /\ Head(u) = u[1] /\ 1 \in DOMAIN u
      /\ \A i \in DOMAIN Tail(u) : i + 1 \in DOMAIN u /\ Tail(u)[i] = u[i + 1] /\ i \in Nat \ {0}
  OBVIOUS
<1> QED BY <1>1, <1>2, <1>3

(* A new build's load hook runs.                                           *)
LEMMA LoadKeeps ==
  ASSUME IInv, Load
  PROVE  Core(stack', World')
<1> DEFINE x == Top
           y == [x EXCEPT !.todo = Tail(@)]
           m == Head(x.todo)
           c == Code("load", m, 0)
           t == Append(Front(stack), y)
<1>1. /\ stack # <<>> /\ x.kind = "loading" /\ x.todo # <<>>
      /\ Enter("load", m) /\ stack' = Front(stack) \o <<y, c>>
      /\ UNCHANGED <<loaded, build, failed, state, plan, frame, session>>
  BY DEF Load, Hook, OnTop
<1>2. /\ Core(stack, World) /\ x \in Entries /\ Stands(stack, Len(stack), World) /\ x = stack[Len(stack)]
      /\ Sits(stack, Len(stack)) /\ x = Last(stack) /\ ModsOK(World) /\ RunOf(stack, World)
      /\ Len(stack) \in Nat \ {0} /\ stack \in Seq(Entries)
  BY <1>1, AtTop DEF IInv, Top, Core
<1>3. x \in LoadingEntry /\ LoadingOK(x, World) /\ x.todo \in Seq(Names)
  BY <1>1, <1>2, EntryTypes DEF Stands, LoadingEntry
<1>4. /\ m \in ToSet(x.todo) /\ Tail(x.todo) \in Seq(Names) /\ ToSet(Tail(x.todo)) \subseteq ToSet(x.todo)
      /\ m = x.todo[1] /\ 1 \in DOMAIN x.todo
      /\ \A i \in DOMAIN Tail(x.todo) :
           i + 1 \in DOMAIN x.todo /\ Tail(x.todo)[i] = x.todo[i + 1] /\ i \in Nat \ {0}
      /\ ToSet(Tail(x.todo)) = {Tail(x.todo)[i] : i \in DOMAIN Tail(x.todo)}
  BY <1>1, <1>3, NameOfTail
<1>5. y \in LoadingEntry /\ y.kind = "loading" /\ y.todo = Tail(x.todo) /\ y \in Entries
  BY <1>3, <1>4 DEF LoadingEntry, Entries
<1>6. In(m, World) /\ m \in Names
  BY <1>2, <1>3, <1>4, ModsAre DEF LoadingOK
<1>7. LoadingOK(y, World)
  <2>1. \A n \in ToSet(y.todo) : In(n, World)
    BY <1>3, <1>4, <1>5 DEF LoadingOK
  <2>2. ASSUME NEW i \in DOMAIN y.todo, NEW j \in DOMAIN y.todo, i < j
        PROVE  y.todo[j] \notin Deps(World.build[y.todo[i]])
    <3>1. i + 1 \in DOMAIN x.todo /\ j + 1 \in DOMAIN x.todo /\ i + 1 < j + 1
      BY <1>4, <1>5, <2>2
    <3> HIDE DEF x
    <3>2. x.todo[j + 1] \notin Deps(World.build[x.todo[i + 1]])
      BY <1>3, <3>1 DEF LoadingOK
    <3> QED BY <1>4, <1>5, <3>2
  <2> QED BY <2>1, <2>2 DEF LoadingOK
<1>8. Deps(build[m]) \intersect ToSet(y.todo) = {}
  <2> SUFFICES ASSUME NEW i \in DOMAIN y.todo, y.todo[i] \in Deps(build[m]) PROVE FALSE
    BY <1>4, <1>5
  <2>1. i + 1 \in DOMAIN x.todo /\ 1 < i + 1 /\ y.todo[i] = x.todo[i + 1]
    BY <1>4, <1>5
  <2>2. x.todo[i + 1] \notin Deps(World.build[x.todo[1]])
    <3> HIDE DEF x
    <3> QED BY <1>3, <1>4, <2>1 DEF LoadingOK
  <2> QED BY <1>4, <2>1, <2>2 DEF World
<1>9. Calm(stack, World, Len(stack) - 1)
  <2>1. Len(stack) \in 1..Len(stack) /\ stack[Len(stack)].kind = "loading"
    BY <1>1, <1>2
  <2> QED BY <1>2, <2>1, UnderBatch DEF Core
<1>10. \A i \in 1..Len(stack) : IsCode(stack[i]) => stack[i].mod # m
  <2> SUFFICES ASSUME NEW i \in 1..Len(stack), IsCode(stack[i])
               PROVE  stack[i].mod # m
    OBVIOUS
  <2>1. i # Len(stack)
    BY <1>1, <1>2 DEF IsCode, CodeKinds
  <2>2. i \in 1..Len(stack) - 1
    BY <1>2, <2>1
  <2>3. stack[i].mod \notin ToSet(x.todo)
    <3> HIDE DEF m
    <3> QED BY <1>1, <1>2, <2>2 DEF Sits, Clear
  <2> QED BY <1>4, <2>3
<1>11. ~World.running[m]
  BY <1>2, <1>6, <1>10, NotRunning
<1>12. state[m] = build[m].schema
  <2>1. World.state[m] = World.build[m].schema \/ \E i \in 1..Len(stack) : stack[i].kind = "retiring"
    BY <1>2, <1>6 DEF Core, StatesOf, In
  <2>2. ASSUME NEW i \in 1..Len(stack) PROVE stack[i].kind # "retiring"
    <3>1. CASE i = Len(stack)
      BY <1>1, <1>2, <3>1
    <3>2. CASE i # Len(stack)
      BY <1>2, <1>9, <3>2 DEF Calm, Taken
    <3> QED BY <3>1, <3>2
  <2> QED BY <2>1, <2>2 DEF World
<1>13. /\ Fresh(c, World, World') /\ c.kind = "load" /\ c.mod = m /\ c.build = build[m]
  <2>1. "load" \in CodeKinds \ {"handler"} /\ 0 \in Nat
    BY DEF CodeKinds
  <2>2. Enter("load", m) /\ UNCHANGED <<loaded, build, failed, state, plan, frame, session>> /\ ModsOK(World)
    BY <1>1, <1>2
  <2> HIDE DEF m
  <2> QED BY <1>6, <1>11, <1>12, <2>1, <2>2, EntersCode
<1> HIDE DEF x, y, m, c, t
<1>14. Core(t, World)
  <2>1. x.kind = "loading"
    BY <1>1
  <2>2. ModsOK(World) /\ \A i \in 1..Len(stack) - 1 : Stands(stack, i, World)
    BY <1>2, SameStands
  <2> QED BY <1>1, <1>2, <1>4, <1>5, <1>7, <2>1, <2>2, SwapTop DEF t
<1>15. /\ t \in Seq(Entries) /\ Len(t) = Len(stack) /\ t # <<>> /\ Last(t) = y /\ t[Len(stack)] = y
       /\ \A i \in 1..Len(stack) - 1 : t[i] = stack[i]
       /\ Front(stack) \in Seq(Entries)
  <2>1. Front(stack) \in Seq(Entries) /\ Len(Front(stack)) = Len(stack) - 1
        /\ \A i \in 1..Len(stack) - 1 : Front(stack)[i] = stack[i]
    BY <1>1, <1>2, TopOf
  <2>2. t \in Seq(Entries) /\ Len(t) = Len(stack) /\ t[Len(stack)] = y /\ \A i \in 1..Len(stack) - 1 : t[i] = stack[i]
    BY <1>2, <1>5, <2>1, Pushed DEF t
  <2>3. t # <<>>
    BY <1>2, <2>2
  <2>4. Last(t) = t[Len(t)]
    BY <2>2, <2>3, TopOf
  <2> QED BY <2>1, <2>2, <2>3, <2>4
<1>16. Follows(Last(t), c)
  BY <1>5, <1>13, <1>15 DEF Follows
<1>17. \A j \in 1..Len(t) : t[j].kind \notin Taken /\ (IsCode(t[j]) => t[j].mod # c.mod)
  <2> SUFFICES ASSUME NEW j \in 1..Len(t)
               PROVE  t[j].kind \notin Taken /\ (IsCode(t[j]) => t[j].mod # c.mod)
    OBVIOUS
  <2>1. CASE j = Len(stack)
    BY <1>5, <1>15, <2>1 DEF IsCode, CodeKinds, Taken
  <2>2. CASE j # Len(stack)
    <3>1. j \in 1..Len(stack) - 1 /\ j \in 1..Len(stack)
      BY <1>2, <1>15, <2>2
    <3> QED BY <1>9, <1>10, <1>13, <1>15, <3>1 DEF Calm
  <2> QED BY <2>1, <2>2
<1>18. Core(Append(t, c), World')
  <2>1. c.kind = "load" /\ Deps(c.build) \intersect ToSet(Last(t).todo) = {}
    BY <1>8, <1>13, <1>15
  <2>2. /\ c \in Entries /\ Own(c) /\ ~c.holds /\ ~c.was /\ In(c.mod, World)
        /\ Entered(World, World', c) /\ CodeOK(c, World')
    BY <1>13 DEF Fresh
  <2> QED BY <1>14, <1>15, <1>16, <1>17, <2>1, <2>2, CodeOnTop
<1>19. stack' = Append(t, c)
  <2>1. c \in Entries /\ y \in Entries /\ stack' = Front(stack) \o <<y, c>>
    BY <1>1, <1>5, <1>13 DEF Fresh, c, y, x, m
  <2> QED BY <1>15, <2>1, PushedTwo DEF t
<1> QED BY <1>18, <1>19

(* The batch is done with, or the pump.                                    *)
LEMMA PopsPlain ==
  ASSUME IInv, stack # <<>>, Top.kind \in {"loading", "pump"}, stack' = Front(stack), World' = World
  PROVE  Core(stack', World')
<1>1. /\ Core(stack, World) /\ stack \in Seq(Entries) /\ Len(stack) \in Nat \ {0} /\ Top = stack[Len(stack)]
  BY AtTop DEF IInv, Top, Core
<1>2. Front(stack) = SubSeq(stack, 1, Len(stack) - 1) /\ Len(stack) - 1 \in 0..Len(stack)
  BY <1>1, TopOf
<1>3. \A i \in Len(stack) - 1 + 1..Len(stack) : ~IsCode(stack[i]) /\ ~Holds(stack[i]) /\ stack[i].kind # "retiring"
  BY <1>1 DEF IsCode, Holds, CodeKinds
<1>4. Core(SubSeq(stack, 1, Len(stack) - 1), World)
  BY <1>1, <1>2, <1>3, CutPlain
<1> QED BY <1>2, <1>4

(* A batch is done with.                                                   *)
LEMMA LoadedKeeps ==
  ASSUME IInv, Loaded
  PROVE  Core(stack', World')
BY PopsPlain DEF Loaded, OnTop, World, perMod

(* A pump returns.                                                         *)
LEMMA PumpedKeeps ==
  ASSUME IInv, Pumped
  PROVE  Core(stack', World')
BY PopsPlain DEF Pumped, OnTop, World, perMod
-----------------------------------------------------------------------------
(* The swap: the mods of a batch run its builds, and the others theirs.    *)
SwapIn(B, w, v) ==
  /\ \A o \in ToSet(B) : v.build[o.mod] = o /\ v.failed[o.mod] = FALSE
  /\ \A o \in ToSet(B) : v.state[o.mod] = IF In(o.mod, w) THEN w.state[o.mod] ELSE o.schema
  /\ \A m \in Names : (\A o \in ToSet(B) : o.mod # m) =>
       v.build[m] = w.build[m] /\ v.failed[m] = w.failed[m] /\ v.state[m] = w.state[m]
  /\ ToSet(v.loaded) = ToSet(w.loaded) \union {o.mod : o \in ToSet(B)}
  /\ v.running = w.running /\ v.transient = w.transient /\ v.plan = w.plan
  /\ v.frame = w.frame /\ v.session = w.session

(* The names of a batch's builds, in its order.                            *)
LEMMA NamesOfBatch ==
  ASSUME NEW B \in Seq(Builds)
  PROVE  LET names == [i \in DOMAIN B |-> B[i].mod]
         IN  /\ names \in Seq(Names) /\ DOMAIN names = DOMAIN B /\ ToSet(names) = {o.mod : o \in ToSet(B)}
             /\ \A i \in DOMAIN B : names[i] = B[i].mod
<1> DEFINE names == [i \in DOMAIN B |-> B[i].mod]
<1>1. DOMAIN B = 1..Len(B) /\ ToSet(B) = {B[i] : i \in 1..Len(B)} /\ Len(B) \in Nat
  BY OfSequences
<1>2. \A i \in 1..Len(B) : B[i] \in Builds /\ B[i].mod \in Names
  BY BuildsAssumption
<1>3. names \in Seq(Names) /\ Len(names) = Len(B) /\ DOMAIN names = DOMAIN B
  BY <1>1, <1>2
<1>4. ToSet(names) = {names[i] : i \in 1..Len(names)}
  <2> HIDE DEF names
  <2> QED BY <1>3, OfSequences
<1>5. ToSet(names) = {o.mod : o \in ToSet(B)}
  BY <1>1, <1>3, <1>4
<1> QED BY <1>3, <1>5

(* Two sequences of different entries, one after the other.                *)
LEMMA Joined ==
  ASSUME NEW S, NEW s \in Seq(S), NEW t \in Seq(S),
         \A i, j \in DOMAIN s : s[i] = s[j] => i = j,
         \A i, j \in DOMAIN t : t[i] = t[j] => i = j,
         ToSet(s) \intersect ToSet(t) = {}
  PROVE  /\ s \o t \in Seq(S) /\ ToSet(s \o t) = ToSet(s) \union ToSet(t)
         /\ \A i, j \in DOMAIN (s \o t) : (s \o t)[i] = (s \o t)[j] => i = j
<1> DEFINE u == s \o t
<1>1. /\ u \in Seq(S) /\ Len(u) = Len(s) + Len(t) /\ Len(s) \in Nat /\ Len(t) \in Nat
      /\ \A i \in 1..Len(s) : u[i] = s[i]
      /\ \A i \in 1..Len(t) : u[Len(s) + i] = t[i]
  OBVIOUS
<1>2. /\ DOMAIN s = 1..Len(s) /\ DOMAIN t = 1..Len(t) /\ DOMAIN u = 1..Len(u)
      /\ ToSet(s) = {s[i] : i \in 1..Len(s)} /\ ToSet(t) = {t[i] : i \in 1..Len(t)}
      /\ ToSet(u) = {u[i] : i \in 1..Len(u)}
  <2> HIDE DEF u
  <2>1. \A r \in Seq(S) : DOMAIN r = 1..Len(r) /\ ToSet(r) = {r[i] : i \in 1..Len(r)}
    BY OfSequences
  <2> QED BY <1>1, <2>1
<1> HIDE DEF u
<1>3. \A i \in 1..Len(u) : \/ i \in 1..Len(s) /\ u[i] = s[i]
                           \/ i - Len(s) \in 1..Len(t) /\ u[i] = t[i - Len(s)]
  <2> SUFFICES ASSUME NEW i \in 1..Len(u), i \notin 1..Len(s)
               PROVE  i - Len(s) \in 1..Len(t) /\ u[i] = t[i - Len(s)]
    BY <1>1
  <2>1. i - Len(s) \in 1..Len(t) /\ Len(s) + (i - Len(s)) = i
    BY <1>1
  <2>2. u[Len(s) + (i - Len(s))] = t[i - Len(s)]
    BY <1>1, <2>1
  <2> QED BY <2>1, <2>2
<1>4. ToSet(u) = ToSet(s) \union ToSet(t)
  <2>1. ASSUME NEW i \in 1..Len(s) PROVE s[i] \in ToSet(u)
    <3>1. i \in 1..Len(u) /\ u[i] = s[i]
      BY <1>1
    <3> QED BY <1>2, <3>1
  <2>2. ASSUME NEW i \in 1..Len(t) PROVE t[i] \in ToSet(u)
    <3>1. Len(s) + i \in 1..Len(u) /\ u[Len(s) + i] = t[i]
      BY <1>1
    <3> QED BY <1>2, <3>1
  <2>3. ASSUME NEW i \in 1..Len(u) PROVE u[i] \in ToSet(s) \union ToSet(t)
    <3>1. CASE i \in 1..Len(s) /\ u[i] = s[i]
      BY <1>2, <3>1
    <3>2. CASE i - Len(s) \in 1..Len(t) /\ u[i] = t[i - Len(s)]
      BY <1>2, <3>2
    <3> QED BY <1>3, <3>1, <3>2
  <2>4. ToSet(u) \subseteq ToSet(s) \union ToSet(t)
    BY <1>2, <2>3
  <2>5. ToSet(s) \subseteq ToSet(u) /\ ToSet(t) \subseteq ToSet(u)
    BY <1>2, <2>1, <2>2
  <2> QED BY <2>4, <2>5
<1>5. ASSUME NEW i \in 1..Len(u), NEW j \in 1..Len(u), u[i] = u[j] PROVE i = j
  <2>1. CASE i \in 1..Len(s) /\ j \in 1..Len(s)
    BY <1>1, <1>2, <1>5, <2>1
  <2>2. CASE i \notin 1..Len(s) /\ j \notin 1..Len(s)
    <3>1. /\ i - Len(s) \in DOMAIN t /\ u[i] = t[i - Len(s)]
          /\ j - Len(s) \in DOMAIN t /\ u[j] = t[j - Len(s)]
      BY <1>2, <1>3, <2>2
    <3>2. i - Len(s) = j - Len(s)
      BY <1>5, <3>1
    <3> QED BY <1>1, <3>2
  <2>3. CASE (i \in 1..Len(s)) # (j \in 1..Len(s))
    <3>1. u[i] \in ToSet(s) /\ u[i] \in ToSet(t)
      BY <1>2, <1>3, <1>5, <2>3
    <3> QED BY <3>1
  <2> QED BY <2>1, <2>2, <2>3
<1> QED BY <1>1, <1>2, <1>4, <1>5 DEF u

(* What Swap does to each mod: a new build takes a handed over state, or   *)
(* its own.                                                                *)
LEMMA SwapsBuilds ==
  ASSUME NEW B \in Seq(Builds), Distinct(B), ModsOK(World),
         loaded' = loaded \o NewNames(B),
         build'  = [m \in Names |-> IF m \in {o.mod : o \in ToSet(B)} THEN BuildIn(B, m) ELSE build[m]],
         failed' = [m \in Names |-> IF m \in {o.mod : o \in ToSet(B)} THEN FALSE ELSE failed[m]],
         state'  = [m \in Names |-> IF m \in {o.mod : o \in ToSet(B)} /\ ~IsLoaded(m)
                                    THEN BuildIn(B, m).schema ELSE state[m]],
         UNCHANGED <<running, transient, plan, frame, session>>,
         \A o \in ToSet(B) : In(o.mod, World) => transient[o.mod] = NoBuild
  PROVE  SwapIn(B, World, World') /\ ModsOK(World')
<1>1. /\ ToSet(B) = {B[i] : i \in 1..Len(B)} /\ DOMAIN B = 1..Len(B) /\ ToSet(B) \subseteq Builds
      /\ \A o \in ToSet(B) : o.mod \in Names
  BY OfSequences, BuildsAssumption
<1>2. ASSUME NEW o \in ToSet(B) PROVE BuildIn(B, o.mod) = o
  <2>1. \A p \in ToSet(B) : p.mod = o.mod => p = o
    BY OneOfAName
  <2> QED BY <2>1 DEF BuildIn
<1> DEFINE names == [i \in DOMAIN B |-> B[i].mod]
           new   == Keep(names, Names \ ToSet(loaded))
<1>3. /\ names \in Seq(Names) /\ DOMAIN names = DOMAIN B /\ ToSet(names) = {o.mod : o \in ToSet(B)}
      /\ \A i \in DOMAIN B : names[i] = B[i].mod
  BY NamesOfBatch
<1>4. \A i, j \in DOMAIN names : names[i] = names[j] => i = j
  BY <1>3 DEF Distinct
<1>5. loaded' = loaded \o new
  BY DEF NewNames
<1> HIDE DEF names
<1>6. /\ new \in Seq(Names) /\ ToSet(new) = ToSet(names) \intersect (Names \ ToSet(loaded))
      /\ \A i, j \in DOMAIN new : new[i] = new[j] => i = j
  BY <1>3, <1>4, KeepProperties
<1> HIDE DEF new
<1>7. loaded \in Seq(Names) /\ \A i, j \in DOMAIN loaded : loaded[i] = loaded[j] => i = j
  BY DEF ModsOK, World
<1>8. /\ loaded' \in Seq(Names) /\ ToSet(loaded') = ToSet(loaded) \union ToSet(new)
      /\ \A i, j \in DOMAIN loaded' : loaded'[i] = loaded'[j] => i = j
  <2>1. ToSet(loaded) \intersect ToSet(new) = {}
    BY <1>6
  <2>2. /\ loaded \o new \in Seq(Names) /\ ToSet(loaded \o new) = ToSet(loaded) \union ToSet(new)
        /\ \A i, j \in DOMAIN (loaded \o new) : (loaded \o new)[i] = (loaded \o new)[j] => i = j
    BY <1>6, <1>7, <2>1, Joined
  <2> QED BY <1>5, <2>2
<1>9. ToSet(loaded') = ToSet(loaded) \union {o.mod : o \in ToSet(B)}
  BY <1>1, <1>3, <1>6, <1>8
<1>10. \A o \in ToSet(B) : build'[o.mod] = o /\ failed'[o.mod] = FALSE
  BY <1>1, <1>2
<1>11. \A o \in ToSet(B) : state'[o.mod] = IF In(o.mod, World) THEN state[o.mod] ELSE o.schema
  BY <1>1, <1>2 DEF In, World, IsLoaded
<1>12. \A m \in Names : (\A o \in ToSet(B) : o.mod # m) =>
         build'[m] = build[m] /\ failed'[m] = failed[m] /\ state'[m] = state[m]
  OBVIOUS
<1>13. SwapIn(B, World, World')
  <2>1. /\ World.loaded = loaded /\ World.build = build /\ World.failed = failed /\ World.state = state
        /\ World.running = running /\ World.transient = transient /\ World.plan = plan
        /\ World.frame = frame /\ World.session = session
    BY DEF World
  <2>2. /\ World'.loaded = loaded' /\ World'.build = build' /\ World'.failed = failed' /\ World'.state = state'
        /\ World'.running = running /\ World'.transient = transient /\ World'.plan = plan
        /\ World'.frame = frame /\ World'.session = session
    BY DEF World
  <2>3. PICK w : w = World
    OBVIOUS
  <2>4. PICK v : v = World'
    OBVIOUS
  <2>5. /\ \A o \in ToSet(B) : v.build[o.mod] = o /\ v.failed[o.mod] = FALSE
        /\ \A o \in ToSet(B) : v.state[o.mod] = IF In(o.mod, w) THEN w.state[o.mod] ELSE o.schema
    BY <1>10, <1>11, <2>1, <2>2, <2>3, <2>4
  <2>6. \A m \in Names : (\A o \in ToSet(B) : o.mod # m) =>
          v.build[m] = w.build[m] /\ v.failed[m] = w.failed[m] /\ v.state[m] = w.state[m]
    BY <1>12, <2>1, <2>2, <2>3, <2>4
  <2>7. /\ ToSet(v.loaded) = ToSet(w.loaded) \union {o.mod : o \in ToSet(B)}
        /\ v.running = w.running /\ v.transient = w.transient /\ v.plan = w.plan
        /\ v.frame = w.frame /\ v.session = w.session
    BY <1>9, <2>1, <2>2, <2>3, <2>4
  <2>8. SwapIn(B, w, v)
    BY <2>5, <2>6, <2>7 DEF SwapIn
  <2> QED BY <2>3, <2>4, <2>8
<1>14. /\ build \in [Names -> Builds \union {NoBuild}] /\ failed \in [Names -> BOOLEAN]
       /\ running \in [Names -> BOOLEAN] /\ transient \in [Names -> Builds \union {NoBuild}]
       /\ state \in [Names -> {b.schema : b \in Builds} \union {NoState, Dropped}]
       /\ plan \in Seq(Builds) \union {NoPlan}
       /\ \A m \in ToSet(loaded) : build[m] \in Builds /\ build[m].mod = m
       /\ \A m \in Names : transient[m] \in {NoBuild, build[m]}
       /\ \A m \in Names \ ToSet(loaded) : transient[m] = NoBuild
  BY DEF ModsOK, World
<1>15. /\ build' \in [Names -> Builds \union {NoBuild}] /\ failed' \in [Names -> BOOLEAN]
       /\ state' \in [Names -> {b.schema : b \in Builds} \union {NoState, Dropped}]
  <2>1. ASSUME NEW m \in Names PROVE build'[m] \in Builds \union {NoBuild}
    <3>1. CASE \E o \in ToSet(B) : o.mod = m
      <4>1. PICK o \in ToSet(B) : o.mod = m
        BY <3>1
      <4>2. build'[m] = o /\ o \in Builds
        BY <1>1, <1>10, <4>1
      <4> QED BY <4>2
    <3>2. CASE ~ \E o \in ToSet(B) : o.mod = m
      BY <1>12, <1>14, <3>2
    <3> QED BY <3>1, <3>2
  <2>2. \A m \in Names : failed'[m] \in BOOLEAN
    <3> SUFFICES ASSUME NEW m \in Names PROVE failed'[m] \in BOOLEAN
      OBVIOUS
    <3>1. CASE m \in {o.mod : o \in ToSet(B)}
      BY <3>1
    <3>2. CASE m \notin {o.mod : o \in ToSet(B)}
      BY <1>14, <3>2
    <3> QED BY <3>1, <3>2
  <2>3. \A m \in Names : state'[m] \in {b.schema : b \in Builds} \union {NoState, Dropped}
    <3> SUFFICES ASSUME NEW m \in Names PROVE state'[m] \in {b.schema : b \in Builds} \union {NoState, Dropped}
      OBVIOUS
    <3>1. CASE \E o \in ToSet(B) : o.mod = m
      <4>1. PICK o \in ToSet(B) : o.mod = m
        BY <3>1
      <4>2. state'[m] = state[m] \/ state'[m] = o.schema
        BY <1>11, <4>1
      <4>3. o \in Builds
        BY <1>1
      <4> QED BY <1>14, <4>2, <4>3
    <3>2. CASE ~ \E o \in ToSet(B) : o.mod = m
      BY <1>12, <1>14, <3>2
    <3> QED BY <3>1, <3>2
  <2>4. /\ build'  = [m \in Names |-> build'[m]]
        /\ failed' = [m \in Names |-> failed'[m]]
        /\ state'  = [m \in Names |-> state'[m]]
    OBVIOUS
  <2> QED BY <2>1, <2>2, <2>3, <2>4
<1>16. \A m \in ToSet(loaded') : build'[m] \in Builds /\ build'[m].mod = m
  <2> SUFFICES ASSUME NEW m \in ToSet(loaded') PROVE build'[m] \in Builds /\ build'[m].mod = m
    OBVIOUS
  <2>0. m \in Names
    <3>1. ToSet(loaded') \subseteq Names
      BY <1>8, OfSequences
    <3> QED BY <3>1
  <2>1. CASE \E o \in ToSet(B) : o.mod = m
    <3>1. PICK o \in ToSet(B) : o.mod = m
      BY <2>1
    <3>2. build'[m] = o /\ o \in Builds
      BY <1>1, <1>10, <3>1
    <3> QED BY <3>1, <3>2
  <2>2. CASE ~ \E o \in ToSet(B) : o.mod = m
    BY <1>9, <1>12, <1>14, <2>0, <2>2
  <2> QED BY <2>1, <2>2
<1>17. ASSUME NEW m \in Names PROVE transient[m] \in {NoBuild, build'[m]}
  <2>1. CASE \E o \in ToSet(B) : o.mod = m
    BY <1>14, <2>1 DEF In, World
  <2>2. CASE ~ \E o \in ToSet(B) : o.mod = m
    BY <1>12, <1>14, <2>2
  <2> QED BY <2>1, <2>2
<1>18. \A m \in Names \ ToSet(loaded') : transient[m] = NoBuild
  BY <1>9, <1>14
<1>19. ModsOK(World')
  BY <1>8, <1>14, <1>15, <1>16, <1>17, <1>18 DEF ModsOK, World
<1> QED BY <1>13, <1>19

(* After a swap the mods run that ran and are not in the batch, and those  *)
(* of the batch.                                                           *)
LEMMA SwapsRun ==
  ASSUME NEW B \in Seq(Builds), NEW w, NEW v, ModsOK(w), SwapIn(B, w, v)
  PROVE  RunIn(v) = After(RunIn(w), ToSet(B))
<1>1. /\ \A o \in ToSet(B) : o.mod \in Names
      /\ ToSet(w.loaded) \subseteq Names /\ \A m \in ToSet(w.loaded) : w.build[m].mod = m
  BY OfSequences, BuildsAssumption DEF ModsOK
<1>2. ASSUME NEW m \in ToSet(v.loaded) PROVE v.build[m] \in After(RunIn(w), ToSet(B))
  <2>1. CASE \E o \in ToSet(B) : o.mod = m
    BY <2>1 DEF SwapIn, After
  <2>2. CASE ~ \E o \in ToSet(B) : o.mod = m
    <3>1. m \in ToSet(w.loaded) /\ v.build[m] = w.build[m]
      BY <1>1, <2>2 DEF SwapIn
    <3> QED BY <1>1, <2>2, <3>1 DEF After, RunIn
  <2> QED BY <2>1, <2>2
<1>3. ASSUME NEW m \in ToSet(w.loaded), \A o \in ToSet(B) : o.mod # w.build[m].mod
      PROVE  w.build[m] \in RunIn(v)
  <2>1. m \in ToSet(v.loaded) /\ v.build[m] = w.build[m]
    BY <1>1, <1>3 DEF SwapIn
  <2> QED BY <2>1 DEF RunIn
<1>4. ASSUME NEW o \in ToSet(B) PROVE o \in RunIn(v)
  <2>1. o.mod \in ToSet(v.loaded) /\ v.build[o.mod] = o
    BY DEF SwapIn
  <2> QED BY <2>1 DEF RunIn
<1>5. RunIn(v) \subseteq After(RunIn(w), ToSet(B))
  BY <1>2 DEF RunIn
<1>6. After(RunIn(w), ToSet(B)) \subseteq RunIn(v)
  BY <1>3, <1>4 DEF After, RunIn
<1> QED BY <1>5, <1>6
(* A pump and a batch are of a running session, under which nothing is     *)
(* borrowed.                                                               *)
LEMMA InSession ==
  ASSUME NEW s, NEW w, Core(s, w), s # <<>>, Last(s).kind \in {"pump", "retiring", "loading", "unloading"}
  PROVE  /\ w.session = "running" /\ ~w.frame.open /\ Calm(s, w, Len(s) - 1)
         /\ \A i \in 1..Len(s) : ~Holds(s[i]) /\ s[i].kind \notin Shared \ {"loading"} /\ s[i].kind \notin Leaves \union {"load"}
<1>1. s \in Seq(Entries) /\ Len(s) \in Nat \ {0} /\ Last(s) = s[Len(s)] /\ Sits(s, Len(s)) /\ StackOf(s, w)
  BY AtTop DEF Core
<1>2. ASSUME w.session # "running" PROVE FALSE
  <2>1. s[1].kind = "closing"
    BY <1>2 DEF Core, SessionOf
  <2>2. 1 \in 1..Len(s) - 1
    BY <1>1, <2>1
  <2> QED BY <1>1, <2>1, <2>2 DEF Sits, Clear, Taken, Leaves
<1>3. Len(s) \in 1..Len(s) /\ \A i \in 1..Len(s) - 1 : i \in 1..Len(s)
  BY <1>1
<1>4. Calm(s, w, Len(s) - 1)
  <2>1. CASE Last(s).kind = "pump"
    <3>1. Calm(s, w, Len(s))
      BY <1>1, <1>3, <2>1, UnderPump
    <3> QED BY <1>3, <3>1 DEF Calm
  <2>2. CASE Last(s).kind # "pump"
    BY <1>1, <1>3, <2>2, UnderBatch
  <2> QED BY <2>1, <2>2
<1>5. ASSUME NEW i \in 1..Len(s)
      PROVE  ~Holds(s[i]) /\ s[i].kind \notin Shared \ {"loading"} /\ s[i].kind \notin Leaves \union {"load"}
  <2>1. CASE i = Len(s)
    BY <1>1, <2>1 DEF Holds, IsCode, CodeKinds, Shared, Leaves
  <2>2. CASE i # Len(s)
    <3>1. i \in 1..Len(s) - 1
      BY <1>1, <2>2
    <3> QED BY <1>4, <3>1 DEF Calm
  <2> QED BY <2>1, <2>2
<1>6. ~w.frame.open
  BY <1>5 DEF Core, FrameOf
<1> QED BY <1>2, <1>4, <1>5, <1>6

(* The new builds are swapped in together.                                 *)
LEMMA SwapKeeps ==
  ASSUME IInv, Swap
  PROVE  Core(stack', World')
<1> DEFINE x == Top
           B == Top.batch
           n == Len(stack)
           names == [i \in DOMAIN B |-> B[i].mod]
           y == [kind |-> "loading", todo |-> names]
           t == Append(Front(stack), y)
<1>1. /\ stack # <<>> /\ x.kind = "retiring" /\ x.todo = <<>> /\ stack' = t
      /\ loaded' = loaded \o NewNames(B)
      /\ build'  = [m \in Names |-> IF m \in {o.mod : o \in ToSet(B)} THEN BuildIn(B, m) ELSE build[m]]
      /\ failed' = [m \in Names |-> IF m \in {o.mod : o \in ToSet(B)} THEN FALSE ELSE failed[m]]
      /\ state'  = [m \in Names |-> IF m \in {o.mod : o \in ToSet(B)} /\ ~IsLoaded(m)
                                    THEN BuildIn(B, m).schema ELSE state[m]]
      /\ UNCHANGED <<running, transient, plan, frame, session>>
  BY DEF Swap, OnTop
<1>2. /\ Core(stack, World) /\ x \in Entries /\ Stands(stack, n, World) /\ x = stack[n]
      /\ x = Last(stack) /\ ModsOK(World) /\ n \in Nat \ {0} /\ stack \in Seq(Entries)
      /\ Sits(stack, n)
  BY <1>1, AtTop DEF IInv, Top, Core
<1>3. x \in RetiringEntry /\ BatchOK(x, World)
  BY <1>1, <1>2, EntryTypes DEF Stands
<1>4. /\ B \in Seq(Builds) /\ Distinct(B) /\ Ordered(B) /\ World.plan = NoPlan
      /\ Linked(After(RunIn(World), ToSet(B))) /\ Plannable(After(RunIn(World), ToSet(B)))
      /\ ToSet(x.todo) = {}
  BY <1>1, <1>3, OfSequences DEF BatchOK, RetiringEntry
<1>5. \A o \in ToSet(B) : In(o.mod, World) =>
        ~World.build[o.mod].resident /\ World.state[o.mod] = o.schema /\ World.transient[o.mod] = NoBuild
  BY <1>3, <1>4 DEF BatchOK, Handed
<1>6. /\ names \in Seq(Names) /\ DOMAIN names = DOMAIN B /\ ToSet(names) = {o.mod : o \in ToSet(B)}
      /\ \A i \in DOMAIN B : names[i] = B[i].mod
  <2> HIDE DEF B
  <2> QED BY <1>4, NamesOfBatch
<1>7. y \in Entries /\ y.kind = "loading" /\ y.todo = names
  BY <1>6 DEF Entries
<1>8. SwapIn(B, World, World') /\ ModsOK(World')
  <2>1. \A o \in ToSet(B) : In(o.mod, World) => transient[o.mod] = NoBuild
    BY <1>5 DEF World
  <2> HIDE DEF B
  <2> QED BY <1>1, <1>2, <1>4, <2>1, SwapsBuilds
<1>9. RunIn(World') = After(RunIn(World), ToSet(B))
  BY <1>2, <1>4, <1>8, SwapsRun
<1>10. PICK w : w = World
  OBVIOUS
<1>11. PICK v : v = World'
  OBVIOUS
<1>12. /\ w.session = "running" /\ ~w.frame.open /\ Calm(stack, w, n - 1)
       /\ \A i \in 1..n : ~Holds(stack[i]) /\ stack[i].kind \notin Shared \ {"loading"}
                                           /\ stack[i].kind \notin Leaves \union {"load"}
  BY <1>1, <1>2, <1>10, InSession
<1>13. /\ t \in Seq(Entries) /\ Len(t) = n /\ t[n] = y /\ \A i \in 1..n - 1 : t[i] = stack[i]
       /\ Front(stack) \in Seq(Entries) /\ Len(Front(stack)) = n - 1
       /\ \A i \in 1..n - 1 : Front(stack)[i] = stack[i]
  <2> HIDE DEF y
  <2>1. Front(stack) \in Seq(Entries) /\ Len(Front(stack)) = n - 1
        /\ \A i \in 1..n - 1 : Front(stack)[i] = stack[i]
    BY <1>1, <1>2, TopOf
  <2> QED BY <1>2, <1>7, <2>1, Pushed
<1>14. \A i \in 1..n : i = n \/ i \in 1..n - 1
  BY <1>2
<1> HIDE DEF x, B, n, names, y, t
<1>15. Core(stack, w) /\ SwapIn(B, w, v) /\ ModsOK(v) /\ ModsOK(w) /\ BatchOK(x, w)
  BY <1>2, <1>3, <1>8, <1>10, <1>11
<1>16. \A o \in ToSet(B) : In(o.mod, w) =>
        ~w.build[o.mod].resident /\ w.state[o.mod] = o.schema /\ w.transient[o.mod] = NoBuild
  BY <1>5, <1>10
<1>17. \A i \in 1..n - 1 : Stands(stack, i, v)
  <2>1. ASSUME NEW m \in Names, In(m, w), w.build[m].resident
        PROVE  /\ In(m, v) /\ v.build[m] = w.build[m]
               /\ v.state[m] = w.state[m] /\ v.failed[m] = w.failed[m]
    <3>1. \A o \in ToSet(B) : o.mod # m
      BY <1>16, <2>1
    <3>2. In(m, v)
      BY <1>15, <2>1 DEF SwapIn, In
    <3> QED BY <1>15, <3>1, <3>2 DEF SwapIn
  <2>2. n - 1 \in 0..Len(stack)
    BY <1>2 DEF n
  <2> QED BY <1>12, <1>15, <2>1, <2>2, CalmStands
<1>18. StackOf(t, v)
  <2>1. StackOf(Front(stack), v)
    <3>0. n - 1 \in 0..Len(stack)
      BY <1>2 DEF n
    <3>1. PICK k \in 0..Len(stack) : k = n - 1
      BY <3>0
    <3>2. Front(stack) = SubSeq(stack, 1, k)
      BY <1>1, <1>2, <3>1, TopOf DEF n
    <3>3. StackOf(Front(stack), w)
      BY <1>15, <3>2, CutStack DEF Core
    <3>4. ASSUME NEW i \in 1..Len(Front(stack)) PROVE Stands(Front(stack), i, v)
      <4>1. /\ i \in 1..n - 1 /\ i \in Nat \ {0} /\ \A j \in 1..i : stack[j] = Front(stack)[j]
            /\ i \in 1..Len(stack)
        BY <1>13 DEF n
      <4>2. Stands(stack, i, v) /\ Sits(stack, i)
        BY <1>15, <1>17, <4>1 DEF Core, StackOf
      <4> QED BY <4>1, <4>2, StandsSame
    <3> QED BY <3>3, <3>4 DEF StackOf
  <2>2. Sits(t, n)
    <3>1. IF n = 1 THEN Starts(y) ELSE Follows(stack[n - 1], y)
      <4>1. x.kind = "retiring"
        BY <1>1 DEF x
      <4> QED BY <1>2, <1>7, <4>1 DEF Sits, Starts, Follows, IsCode, CodeKinds, Leaves
    <3>2. n # 1 => t[n - 1] = stack[n - 1]
      BY <1>2, <1>13
    <3>3. \A j \in 1..n - 1 : /\ t[j].kind \notin Taken
                              /\ IsCode(t[j]) => t[j].mod \notin ToSet(y.todo)
      <4> SUFFICES ASSUME NEW j \in 1..n - 1
                   PROVE  t[j].kind \notin Taken /\ (IsCode(t[j]) => t[j].mod \notin ToSet(y.todo))
        OBVIOUS
      <4>1. /\ t[j] = stack[j] /\ stack[j].kind \notin Taken
            /\ IsCode(stack[j]) => In(stack[j].mod, w) /\ w.build[stack[j].mod].resident
        BY <1>12, <1>13 DEF Calm
      <4> QED BY <1>6, <1>7, <1>16, <4>1
    <3>4. Clear(t, n)
      BY <1>7, <1>13, <3>3 DEF Clear, IsCode, CodeKinds, Leaves, Own, Pumping
    <3> QED BY <1>13, <3>1, <3>2, <3>4 DEF Sits
  <2>3. Stands(t, n, v)
    <3>1. \A m \in ToSet(y.todo) : In(m, v)
      BY <1>6, <1>7, <1>15 DEF SwapIn, In
    <3>2. ASSUME NEW i \in DOMAIN y.todo, NEW j \in DOMAIN y.todo, i < j
          PROVE  y.todo[j] \notin Deps(v.build[y.todo[i]])
      <4>1. i \in DOMAIN B /\ j \in DOMAIN B /\ y.todo[i] = B[i].mod /\ y.todo[j] = B[j].mod
        BY <1>6, <1>7
      <4>2. B[i] \in ToSet(B)
        BY <4>1 DEF ToSet
      <4>3. v.build[y.todo[i]] = B[i]
        BY <1>15, <4>1, <4>2 DEF SwapIn
      <4> QED BY <1>4, <3>2, <4>1, <4>3 DEF Ordered
    <3>3. LoadingOK(y, v)
      BY <3>1, <3>2 DEF LoadingOK
    <3> QED BY <1>7, <1>13, <3>3 DEF Stands, IsCode, CodeKinds
  <2>4. n = Len(Front(stack)) + 1
    BY <1>2, <1>13
  <2> QED BY <1>7, <2>1, <2>2, <2>3, <2>4, PushStack DEF t
<1>19. \A i \in 1..n : /\ (IsCode(t[i]) \/ IsCode(stack[i])) => t[i] = stack[i]
                       /\ ~Holds(t[i]) /\ t[i].kind # "system" /\ t[i].kind # "closing"
  <2> SUFFICES ASSUME NEW i \in 1..n
               PROVE  /\ (IsCode(t[i]) \/ IsCode(stack[i])) => t[i] = stack[i]
                      /\ ~Holds(t[i]) /\ t[i].kind # "system" /\ t[i].kind # "closing"
    OBVIOUS
  <2>1. CASE i = n
    <3>1. stack[i].kind = "retiring"
      BY <1>1, <1>2, <2>1 DEF x
    <3> QED BY <1>7, <1>13, <2>1, <3>1 DEF Holds, IsCode, CodeKinds
  <2>2. CASE i # n
    <3>1. i \in 1..n - 1
      BY <1>14, <2>2
    <3> QED BY <1>12, <1>13, <3>1 DEF Calm, Taken, Shared
  <2> QED BY <2>1, <2>2
<1>20. RunOf(t, v)
  <2> SUFFICES ASSUME NEW m \in Names
               PROVE  v.running[m] <=> \E i \in 1..Len(t) : IsCode(t[i]) /\ t[i].mod = m
    BY DEF RunOf
  <2>1. w.running[m] <=> \E i \in 1..n : IsCode(stack[i]) /\ stack[i].mod = m
    BY <1>15 DEF Core, RunOf, n
  <2>2. v.running[m] <=> w.running[m]
    BY <1>15 DEF SwapIn
  <2> QED BY <1>13, <1>19, <2>1, <2>2
<1>21. FrameOf(t, v)
  <2>1. v.frame = w.frame /\ FrameOK(w.frame)
    BY <1>15 DEF Core, FrameOf, SwapIn
  <2> QED BY <1>12, <1>13, <1>19, <2>1 DEF FrameOf
<1>22. StatesOf(t, v)
  <2> SUFFICES ASSUME NEW m \in ToSet(v.loaded) PROVE v.state[m] = v.build[m].schema
    BY DEF StatesOf
  <2>1. CASE \E o \in ToSet(B) : o.mod = m
    <3>1. PICK o \in ToSet(B) : o.mod = m
      BY <2>1
    <3> QED BY <1>15, <1>16, <3>1 DEF SwapIn
  <2>2. CASE ~ \E o \in ToSet(B) : o.mod = m
    <3>1. m \in ToSet(w.loaded) /\ m \in Names
      BY <1>15, <2>2, ModsAre DEF SwapIn, In
    <3>2. v.state[m] = w.state[m] /\ v.build[m] = w.build[m]
      BY <1>15, <2>2, <3>1 DEF SwapIn
    <3>3. ASSUME NEW i \in 1..n, stack[i].kind = "retiring" PROVE stack[i] = x
      <4>1. i = n
        BY <1>12, <1>14, <3>3 DEF Calm, Taken
      <4> QED BY <1>2, <4>1
    <3>4. \A i \in 1..n : stack[i].kind = "retiring" => ~ \E o \in ToSet(stack[i].batch) : o.mod = m
      BY <2>2, <3>3 DEF B, x
    <3> QED BY <1>15, <3>1, <3>2, <3>4 DEF Core, StatesOf, n
  <2> QED BY <2>1, <2>2
<1>23. SessionOf(t, v)
  <2>1. v.session = "running" /\ ~v.frame.open /\ v.plan = NoPlan
    BY <1>4, <1>10, <1>12, <1>15 DEF SwapIn
  <2>2. Linked(RunIn(v)) /\ Plannable(RunIn(v))
    BY <1>4, <1>9, <1>11
  <2> QED BY <1>13, <1>19, <2>1, <2>2 DEF SessionOf
<1> QED BY <1>1, <1>11, <1>15, <1>18, <1>20, <1>21, <1>22, <1>23 DEF Core
-----------------------------------------------------------------------------
(* What a batch that is accepted is.                                       *)
LEMMA StatesFit ==
  ASSUME NEW s, NEW w, Core(s, w), \A i \in 1..Len(s) : s[i].kind # "retiring", NEW m, In(m, w)
  PROVE  w.state[m] = w.build[m].schema
BY DEF Core, StatesOf, In

(* A batch in reverse.                                                     *)
LEMMA Reversed ==
  ASSUME NEW u \in Seq(Builds), Distinct(u)
  PROVE  Reverse(u) \in Seq(Builds) /\ ToSet(Reverse(u)) = ToSet(u) /\ Distinct(Reverse(u))
<1> DEFINE r == Reverse(u)
<1>1. /\ Len(u) \in Nat /\ DOMAIN u = 1..Len(u) /\ ToSet(u) = {u[i] : i \in 1..Len(u)}
  BY OfSequences
<1>2. \A i \in 1..Len(u) : Len(u) - i + 1 \in 1..Len(u) /\ u[Len(u) - i + 1] \in Builds
  BY <1>1
<1>3. r \in Seq(Builds) /\ Len(r) = Len(u) /\ \A i \in 1..Len(u) : r[i] = u[Len(u) - i + 1]
  BY <1>1, <1>2 DEF Reverse
<1> HIDE DEF r
<1>4. DOMAIN r = 1..Len(u) /\ ToSet(r) = {r[i] : i \in 1..Len(u)}
  BY <1>3, OfSequences
<1>5. ToSet(r) \subseteq ToSet(u)
  BY <1>1, <1>2, <1>3, <1>4
<1>6. ToSet(u) \subseteq ToSet(r)
  <2> SUFFICES ASSUME NEW i \in 1..Len(u) PROVE u[i] \in ToSet(r)
    BY <1>1
  <2>1. Len(u) - i + 1 \in 1..Len(u) /\ Len(u) - (Len(u) - i + 1) + 1 = i
    BY <1>1
  <2>2. r[Len(u) - i + 1] = u[i]
    BY <1>3, <2>1
  <2> QED BY <1>4, <2>1, <2>2
<1>7. Distinct(r)
  <2> SUFFICES ASSUME NEW i \in 1..Len(u), NEW j \in 1..Len(u), r[i].mod = r[j].mod PROVE i = j
    BY <1>4 DEF Distinct
  <2>1. u[Len(u) - i + 1].mod = u[Len(u) - j + 1].mod
    BY <1>3
  <2>2. Len(u) - i + 1 \in DOMAIN u /\ Len(u) - j + 1 \in DOMAIN u
    BY <1>1, <1>2
  <2>3. Len(u) - i + 1 = Len(u) - j + 1
    BY <2>1, <2>2 DEF Distinct
  <2> QED BY <1>1, <2>3
<1> QED BY <1>3, <1>5, <1>6, <1>7 DEF r

(* A batch that passed load_batch's checks starts out as one that may      *)
(* retire.                                                                 *)
LEMMA AcceptedBatch ==
  ASSUME NEW batch \in Seq(Builds), Accepted(batch), NEW v, v.loaded = loaded, v.build = build, v.state = state,
         v.plan = NoPlan, \A m : In(m, World) => state[m] = build[m].schema
  PROVE  LET r == Retiring(batch)
         IN  r \in RetiringEntry /\ r.kind = "retiring" /\ BatchOK(r, v)
<1> DEFINE left   == Opened(batch)
           opened == {batch[i] : i \in left}
           x      == Sorted(batch, left)
           r      == Retiring(batch)
<1>1. /\ DOMAIN batch = 1..Len(batch) /\ ToSet(batch) = {batch[i] : i \in 1..Len(batch)}
      /\ left \subseteq DOMAIN batch
  BY OfSequences DEF Opened
<1>2. /\ Distinct(batch) /\ x.left = {}
      /\ Linked(After(Running, opened)) /\ Plannable(After(Running, opened))
  BY DEF Accepted, Cyclic, Distinct
<1>3. Sorting(batch, left, x)
  <2> HIDE DEF left
  <2> QED BY <1>1, <1>2, SortsTheBatch
<1> HIDE DEF x
<1>4. x.taken \in Seq(Builds) /\ ToSet(x.taken) = opened /\ Distinct(x.taken) /\ Ordered(x.taken)
  <2> HIDE DEF left
  <2> QED BY <1>2, <1>3 DEF Sorting
<1>5. /\ Reverse(x.taken) \in Seq(Builds) /\ ToSet(Reverse(x.taken)) = ToSet(x.taken)
      /\ Distinct(Reverse(x.taken))
  BY <1>4, Reversed
<1>6. r = [kind |-> "retiring", batch |-> x.taken, todo |-> Reverse(x.taken), told |-> None]
  BY DEF Retiring, InDependencyOrder, x
<1>7. /\ r \in RetiringEntry /\ r.kind = "retiring" /\ r.batch = x.taken /\ r.todo = Reverse(x.taken)
      /\ r.told = None
  BY <1>4, <1>5, <1>6 DEF RetiringEntry
<1> HIDE DEF r
<1>8. RunIn(v) = Running
  BY DEF RunIn, Running
<1>9. ASSUME NEW o \in ToSet(r.batch), In(o.mod, v)
      PROVE  ~v.build[o.mod].resident /\ Handed(r, o, v)
  <2>1. PICK i \in left : o = batch[i]
    BY <1>4, <1>7
  <2>2. In(o.mod, World) /\ o.mod \in ToSet(loaded)
    BY <1>9 DEF In, World
  <2>3. ~build[o.mod].resident
    BY <2>1, <2>2 DEF Opened
  <2>4. o \in ToSet(r.todo)
    BY <1>5, <1>7
  <2>5. v.state[o.mod] = v.build[o.mod].schema
    BY <2>2
  <2> QED BY <1>7, <2>3, <2>4, <2>5 DEF Handed, None
<1> HIDE DEF left, opened
<1>10. BatchOK(r, v)
  BY <1>2, <1>4, <1>5, <1>7, <1>8, <1>9 DEF BatchOK, None
<1> QED BY <1>7, <1>10 DEF r

(* With nothing under way, the session may go on, or end.                  *)
LEMMA AtRest ==
  ASSUME NEW w, NEW v, Core(<<>>, w),
         v.loaded = w.loaded, v.build = w.build, v.failed = w.failed, v.running = w.running,
         v.state = w.state, v.transient = w.transient, v.frame = w.frame,
         v.session \in {"running", "ending", "over"}, v.plan = NoPlan \/ v.plan = w.plan,
         v.session = "running" => w.session = "running" \/ (w.loaded = <<>> /\ v.plan = NoPlan)
  PROVE  Core(<<>>, v)
<1>1. Len(<<>>) = 0 /\ 1..Len(<<>>) = {}
  OBVIOUS
<1>2. RunIn(v) = RunIn(w) /\ PlanIn(v) = PlanIn(w)
  BY DEF RunIn, PlanIn
<1>3. RunOf(<<>>, v) /\ FrameOf(<<>>, v) /\ StatesOf(<<>>, v) /\ StackOf(<<>>, v)
  BY <1>1 DEF Core, RunOf, FrameOf, StatesOf, StackOf
<1>4. ModsOK(v)
  BY DEF Core, ModsOK
<1>5. SessionOf(<<>>, v)
  <2>1. ~w.frame.open
    BY <1>1 DEF Core, FrameOf
  <2>2. ASSUME w.loaded = <<>> PROVE Linked(RunIn(v)) /\ Plannable(RunIn(v))
    <3>1. RunIn(v) = {}
      BY <2>2, OfSequences DEF RunIn
    <3> QED BY <3>1 DEF Linked, Plannable
  <2> QED BY <1>1, <1>2, <2>1, <2>2 DEF Core, SessionOf
<1> QED BY <1>3, <1>4, <1>5 DEF Core

(* The plan is dropped, or made anew.                                      *)
LEMMA PlanTyped ==
  ASSUME NEW w, ModsOK(w)
  PROVE  PlanIn(w) \in Seq(Builds)
<1> DEFINE s == [i \in DOMAIN w.loaded |-> w.build[w.loaded[i]]]
<1>1. w.loaded \in Seq(Names) /\ ToSet(w.loaded) = {w.loaded[i] : i \in 1..Len(w.loaded)}
  BY OfSequences DEF ModsOK
<1>2. \A i \in 1..Len(w.loaded) : w.build[w.loaded[i]] \in Builds
  BY <1>1 DEF ModsOK
<1>3. s \in Seq(Builds)
  BY <1>1, <1>2
<1> HIDE DEF s
<1>4. Keep(s, {b \in Builds : b.system # NoSystem}) \in Seq(Builds)
  BY <1>3, KeepProperties
<1> QED BY <1>4 DEF PlanIn, s

(* The plan may be dropped, and made anew while nothing is retired.        *)
LEMMA NewPlan ==
  ASSUME NEW s, NEW w, NEW v, Core(s, w), v.plan = NoPlan \/ v.plan = PlanIn(w),
         v.plan = NoPlan \/ \A i \in 1..Len(s) : s[i].kind # "retiring",
         v.loaded = w.loaded, v.build = w.build, v.failed = w.failed, v.running = w.running,
         v.state = w.state, v.transient = w.transient, v.frame = w.frame, v.session = w.session
  PROVE  Core(s, v)
<1>1. RunIn(v) = RunIn(w) /\ PlanIn(v) = PlanIn(w) /\ \A m : In(m, v) <=> In(m, w)
  BY DEF RunIn, PlanIn, In
<1>2. RunOf(s, v) /\ FrameOf(s, v) /\ StatesOf(s, v)
  BY DEF Core, RunOf, FrameOf, StatesOf
<1>3. ModsOK(v)
  BY PlanTyped DEF Core, ModsOK
<1>4. SessionOf(s, v)
  BY <1>1 DEF Core, SessionOf
<1>5. StackOf(s, v)
  <2> SUFFICES ASSUME NEW i \in 1..Len(s) PROVE Stands(s, i, v)
    BY DEF Core, StackOf
  <2>1. Stands(s, i, w)
    BY DEF Core, StackOf
  <2>2. s[i].kind = "retiring" => BatchOK(s[i], v)
    BY <1>1, <2>1 DEF Stands, BatchOK, Handed
  <2>3. s[i].kind = "loading" => LoadingOK(s[i], v)
    BY <1>1, <2>1 DEF Stands, LoadingOK
  <2>4. IsCode(s[i]) => CodeOK(s[i], v)
    BY <1>1, <2>1 DEF Stands, CodeOK
  <2> QED BY <1>1, <2>1, <2>2, <2>3, <2>4 DEF Stands
<1> QED BY <1>2, <1>3, <1>4, <1>5 DEF Core
-----------------------------------------------------------------------------
(* The session, and the pump.                                              *)
LEMMA StartKeeps ==
  ASSUME IInv, Start
  PROVE  Core(stack', World')
<1>1. Core(stack, World) /\ session = "starting" /\ game \in Games
  BY DEF IInv, Start
<1>2. stack = <<>> /\ loaded = <<>>
  BY <1>1 DEF Core, SessionOf, World
<1>3. Core(<<>>, World)
  BY <1>1, <1>2
<1>4. /\ World'.loaded = World.loaded /\ World'.build = World.build /\ World'.failed = World.failed
      /\ World'.running = World.running /\ World'.state = World.state /\ World'.transient = World.transient
      /\ World'.frame = World.frame /\ World'.session = session' /\ World'.plan = plan'
      /\ World.loaded = <<>> /\ World.plan = plan /\ World'.loaded = loaded /\ World'.build = build /\ World'.state = state
  BY <1>2 DEF Start, World, perMod
<1>5. CASE Accepted(game.manifest)
  <2>1. session' = "running" /\ stack' = <<Retiring(game.manifest)>> /\ plan' = NoPlan
    BY <1>5 DEF Start
  <2>2. Core(<<>>, World')
    BY <1>3, <1>4, <2>1, AtRest
  <2>3. game.manifest \in Seq(Builds)
    BY <1>1, GamesAssumption
  <2>4. \A m : In(m, World) => state[m] = build[m].schema
    BY <1>4, OfSequences DEF In
  <2> DEFINE r == Retiring(game.manifest)
  <2>5. r \in RetiringEntry /\ r.kind = "retiring" /\ BatchOK(r, World')
    BY <1>4, <1>5, <2>1, <2>3, <2>4, AcceptedBatch
  <2>6. r \in Entries
    BY <2>5, EntryTypes
  <2> HIDE DEF r
  <2>7. /\ Append(<<>>, r) = <<r>> /\ <<r>>[1] = r /\ Len(<<>>) + 1 = 1 /\ 1..1 - 1 = {} /\ <<>> \in Seq(Entries)
    OBVIOUS
  <2>8. Sits(<<r>>, 1)
    BY <2>5, <2>7 DEF Sits, Starts, Clear, Leaves, Own, IsCode, CodeKinds, Pumping
  <2>9. Stands(<<r>>, 1, World')
    BY <2>5, <2>7 DEF Stands, IsCode, CodeKinds
  <2>10. ~IsCode(r) /\ ~Holds(r) /\ r.kind # "closing"
    BY <2>5 DEF IsCode, CodeKinds, Holds
  <2>11. Core(Append(<<>>, r), World')
    BY <1>4, <2>1, <2>2, <2>6, <2>7, <2>8, <2>9, <2>10, PushPlain
  <2> QED BY <2>1, <2>7, <2>11 DEF r
<1>6. CASE ~Accepted(game.manifest)
  <2>1. session' = "over" /\ stack' = stack /\ plan' = plan
    BY <1>6 DEF Start
  <2> QED BY <1>2, <1>3, <1>4, <2>1, AtRest
<1> QED BY <1>5, <1>6

(* The engine pumps itself, or ends.                                       *)
LEMMA PumpAloneKeeps ==
  ASSUME IInv, PumpAlone
  PROVE  Core(stack', World')
<1>1. Core(stack, World) /\ session = "running" /\ stack = <<>>
  BY DEF IInv, PumpAlone
<1>2. Core(<<>>, World) /\ World.session = "running"
  BY <1>1 DEF World
<1>3. CASE quitting
  <2>1. /\ World'.loaded = World.loaded /\ World'.build = World.build /\ World'.failed = World.failed
        /\ World'.running = World.running /\ World'.state = World.state /\ World'.transient = World.transient
        /\ World'.frame = World.frame /\ World'.session = "ending" /\ World'.plan = World.plan /\ stack' = stack
    BY <1>3 DEF PumpAlone, World, perMod
  <2> QED BY <1>1, <1>2, <2>1, AtRest
<1>4. CASE ~quitting
  <2>1. World' = World /\ stack' = <<[kind |-> "pump", mod |-> None]>>
    BY <1>4 DEF PumpAlone, World, perMod
  <2>2. PICK r : r = [kind |-> "pump", mod |-> None]
    OBVIOUS
  <2>3. r \in Entries /\ r.kind = "pump" /\ r.mod = None
    BY <2>2 DEF Entries
  <2>7. /\ Append(<<>>, r) = <<r>> /\ <<r>>[1] = r /\ Len(<<>>) + 1 = 1 /\ 1..1 - 1 = {} /\ <<>> \in Seq(Entries)
    OBVIOUS
  <2>8. Sits(<<r>>, 1)
    BY <2>3, <2>7 DEF Sits, Starts, Clear, Leaves, Own, IsCode, CodeKinds, Pumping
  <2>9. Stands(<<r>>, 1, World)
    BY <2>3, <2>7 DEF Stands, IsCode, CodeKinds
  <2>10. ~IsCode(r) /\ ~Holds(r) /\ r.kind # "closing"
    BY <2>3 DEF IsCode, CodeKinds, Holds
  <2>11. Core(Append(<<>>, r), World)
    BY <1>2, <2>3, <2>7, <2>8, <2>9, <2>10, PushPlain
  <2> QED BY <2>1, <2>2, <2>7, <2>11
<1> QED BY <1>3, <1>4

(* The bootstrap runs, or the session ends.                                *)
LEMMA RunBootstrapKeeps ==
  ASSUME IInv, RunBootstrap
  PROVE  Core(stack', World')
<1>1. /\ Core(stack, World) /\ session = "running" /\ stack = <<>> /\ game.bootstrap \in Names
      /\ UNCHANGED <<loaded, build, failed, state, plan, frame>>
  BY GamesAssumption DEF IInv, RunBootstrap, None
<1>2. Core(<<>>, World) /\ World.session = "running" /\ Len(<<>>) = 0 /\ 1..0 = {} /\ ModsOK(World) /\ RunOf(<<>>, World)
  BY <1>1 DEF World, Core
<1> DEFINE b == game.bootstrap
           c == Code("run", b, 0)
<1>3. CASE Enter("run", b) /\ stack' = <<c>> /\ session' = session /\ IsLoaded(b) /\ ~failed[b]
  <2>1. In(b, World) /\ ~World.failed[b]
    BY <1>3 DEF IsLoaded, In, World
  <2>2. state[b] = build[b].schema
    <3> HIDE DEF b
    <3>1. World.state[b] = World.build[b].schema
      BY <1>2, <2>1, StatesFit
    <3> QED BY <3>1 DEF World
  <2>3. ~World.running[b]
    BY <1>1, <1>2 DEF RunOf
  <2>4. "run" \in CodeKinds \ {"handler"} /\ 0 \in Nat
    BY DEF CodeKinds
  <2>5. Enter("run", b) /\ UNCHANGED <<loaded, build, failed, state, plan, frame, session>>
    BY <1>1, <1>3
  <2>6. Fresh(c, World, World') /\ c.kind = "run"
    <3> HIDE DEF b
    <3> QED BY <1>2, <2>1, <2>2, <2>3, <2>4, <2>5, EntersCode
  <2> HIDE DEF c, b
  <2>7. Append(<<>>, c) = <<c>>
    OBVIOUS
  <2>8. Core(Append(<<>>, c), World')
    BY <1>2, <2>6, CodeOnTop DEF Fresh
  <2> QED BY <1>3, <2>7, <2>8
<1>4. CASE session' = "ending" /\ UNCHANGED <<running, transient, stack>>
  <2>1. /\ World'.loaded = World.loaded /\ World'.build = World.build /\ World'.failed = World.failed
        /\ World'.running = World.running /\ World'.state = World.state /\ World'.transient = World.transient
        /\ World'.frame = World.frame /\ World'.session = "ending" /\ World'.plan = World.plan /\ stack' = stack
    BY <1>1, <1>4 DEF World
  <2> QED BY <1>1, <1>2, <2>1, AtRest
<1> QED BY <1>3, <1>4 DEF RunBootstrap

(* A pump is at a safe point: of residents, with nothing borrowed.         *)
LEMMA PumpKeeps ==
  ASSUME IInv, Pump
  PROVE  Core(stack', World')
<1> DEFINE n == Len(stack)
           e == [kind |-> "pump", mod |-> Top.mod]
           t == Append(stack, e)
<1>1. /\ stack # <<>> /\ IsCode(Top) /\ ~Top.holds /\ SafePoint(Top.mod) /\ stack' = t /\ World' = World
  BY DEF Pump, InCode, IsCode, World, perMod
<1>2. /\ Core(stack, World) /\ stack \in Seq(Entries) /\ n \in Nat \ {0} /\ Top = stack[n] /\ Top \in Entries
      /\ Sits(stack, n) /\ Top = Last(stack) /\ Stands(stack, n, World) /\ StackOf(stack, World)
      /\ ModsOK(World) /\ RunOf(stack, World)
  BY <1>1, AtTop DEF IInv, Top, Core
<1>3. Top \in CodeEntry /\ Top.mod \in Names /\ None \notin Names
  BY <1>1, <1>2, EntryTypes, GamesAssumption DEF CodeEntry, None
<1>4. e \in Entries /\ e.kind = "pump" /\ e.mod = Top.mod
  BY <1>3 DEF Entries
<1>5. \A i \in 1..n : stack[i].kind \notin Taken \union Shared /\ stack[i].kind \in Kinds
  <2> SUFFICES ASSUME NEW i \in 1..n PROVE stack[i].kind \notin Taken \union Shared /\ stack[i].kind \in Kinds
    OBVIOUS
  <2>1. i \in DOMAIN stack
    BY <1>2
  <2>2. stack[i].kind \in Kinds
    BY <2>1 DEF Kinds
  <2>3. ~ListTaken /\ ~ListShared
    BY <1>1 DEF SafePoint
  <2> QED BY <2>2, <2>3 DEF ListTaken, ListShared, Taken, Shared
<1>6. \A i \in 1..n : ~Holds(stack[i]) /\ stack[i].kind \notin Leaves
  <2>1. \A i \in 1..n : ~Holds(stack[i])
    BY <1>1, <1>2 DEF SafePoint, Core, FrameOf, World
  <2>2. \A i \in 1..n : stack[i].kind \notin Leaves
    <3> SUFFICES ASSUME NEW i \in 1..n, stack[i].kind \in Leaves PROVE FALSE
      OBVIOUS
    <3>1. i > 1 /\ stack[i - 1].kind \in Taken
      BY <1>2, LastHooks
    <3> QED BY <1>2, <1>5, <3>1
  <2> QED BY <2>1, <2>2
<1>7. \A i \in 1..n : IsCode(stack[i]) => World.build[stack[i].mod].resident
  <2> SUFFICES ASSUME NEW i \in 1..n, IsCode(stack[i]) PROVE World.build[stack[i].mod].resident
    OBVIOUS
  <2>1. CodeOK(stack[i], World)
    BY <1>2 DEF StackOf, Stands
  <2>2. In(stack[i].mod, World)
    BY <1>6, <2>1 DEF CodeOK
  <2>3. World.running[stack[i].mod]
    BY <1>2, <2>2, ModsAre DEF RunOf
  <2> QED BY <1>1, <2>2, <2>3 DEF SafePoint, In, World
<1>8. /\ t \in Seq(Entries) /\ Len(t) = n + 1 /\ t[n + 1] = e /\ \A i \in 1..n : t[i] = stack[i]
  BY <1>2, <1>4, Pushed
<1> HIDE DEF e, t, n
<1>9. n + 1 # 1 /\ n + 1 - 1 = n /\ n \in 1..n
  BY <1>2
<1>10. Follows(stack[n], e)
  BY <1>1, <1>2, <1>4, <1>6, <1>9 DEF Follows
<1>11. Clear(t, n + 1)
  <2>1. \A j \in 1..n : t[j].kind \notin Taken /\ t[j].kind \notin Shared /\ ~Holds(t[j])
    BY <1>5, <1>6, <1>8
  <2>2. \E j \in 1..n : /\ Own(t[j]) /\ t[j].mod = e.mod
                        /\ \A k \in j + 1..n : Pumping(t[k]) /\ t[k].mod = e.mod
    <3>1. CASE Own(Top)
      <4>1. Own(t[n]) /\ t[n].mod = e.mod
        BY <1>2, <1>4, <1>8, <1>9, <3>1
      <4>2. n + 1..n = {}
        BY <1>2
      <4> QED BY <1>9, <4>1, <4>2
    <3>2. CASE ~Own(Top)
      <4>1. Pumping(Top)
        BY <1>1, <1>3, <3>2 DEF Own, Pumping
      <4>2. PICK j \in 1..n - 1 : /\ Own(stack[j]) /\ stack[j].mod = Top.mod
                                  /\ \A k \in j + 1..n - 1 : Pumping(stack[k]) /\ stack[k].mod = Top.mod
        BY <1>2, <4>1 DEF Sits, Clear
      <4>3. j \in 1..n /\ t[j] = stack[j]
        BY <1>2, <1>8
      <4>4. ASSUME NEW k \in j + 1..n PROVE Pumping(t[k]) /\ t[k].mod = e.mod
        <5>1. k \in 1..n /\ t[k] = stack[k] /\ (k = n \/ k \in j + 1..n - 1)
          BY <1>2, <1>8
        <5> QED BY <1>2, <1>4, <4>1, <4>2, <5>1
      <4> QED BY <1>4, <4>2, <4>3, <4>4
    <3> QED BY <3>1, <3>2
  <2> QED BY <1>4, <1>8, <1>9, <2>1, <2>2 DEF Clear, Own, IsCode, CodeKinds, Leaves
<1>12. Sits(t, n + 1)
  BY <1>8, <1>9, <1>10, <1>11 DEF Sits
<1>13. Stands(t, n + 1, World)
  BY <1>4, <1>7, <1>8, <1>9 DEF Stands, IsCode, CodeKinds
<1>14. ~IsCode(e) /\ ~Holds(e) /\ e.kind # "closing"
  BY <1>4 DEF IsCode, CodeKinds, Holds
<1>15. Core(t, World)
  BY <1>1, <1>2, <1>4, <1>12, <1>13, <1>14, PushPlain DEF t, n
<1> QED BY <1>1, <1>15
(* With a pump on top, requests are served.                                *)
LEMMA OnAPump ==
  ASSUME IInv, OnTop("pump")
  PROVE  /\ Core(stack, World) /\ stack # <<>> /\ stack \in Seq(Entries) /\ Len(stack) \in Nat \ {0}
         /\ Top = stack[Len(stack)] /\ Top = Last(stack) /\ Top.kind = "pump" /\ Top \in Entries
         /\ Sits(stack, Len(stack)) /\ ModsOK(World) /\ RunOf(stack, World)
         /\ World.session = "running" /\ ~World.frame.open /\ Calm(stack, World, Len(stack))
         /\ \A i \in 1..Len(stack) : stack[i].kind # "retiring"
         /\ \A m : In(m, World) => state[m] = build[m].schema
<1>1. /\ Core(stack, World) /\ stack # <<>> /\ stack \in Seq(Entries) /\ Len(stack) \in Nat \ {0}
      /\ Top = stack[Len(stack)] /\ Top = Last(stack) /\ Top.kind = "pump" /\ Top \in Entries
      /\ Sits(stack, Len(stack)) /\ ModsOK(World) /\ RunOf(stack, World)
  BY AtTop DEF IInv, OnTop, Top, Core
<1>2. World.session = "running" /\ ~World.frame.open
  BY <1>1, InSession
<1>3. Calm(stack, World, Len(stack))
  <2>1. Len(stack) \in 1..Len(stack)
    BY <1>1
  <2> QED BY <1>1, <2>1, UnderPump DEF Core
<1>4. \A i \in 1..Len(stack) : stack[i].kind # "retiring"
  BY <1>3 DEF Calm, Taken
<1>5. ASSUME NEW m, In(m, World) PROVE state[m] = build[m].schema
  <2>1. World.state[m] = World.build[m].schema
    BY <1>1, <1>4, <1>5, StatesFit
  <2> QED BY <2>1 DEF World
<1> QED BY <1>1, <1>2, <1>3, <1>4, <1>5

(* The first of the requests that wait is one.                             *)
LEMMA FirstAsked ==
  ASSUME IInv, inbox # <<>>
  PROVE  Head(inbox) \in Requests /\ Tail(inbox) \in Seq(Requests)
BY DEF IInv

(* A batch is started, or refused.                                         *)
LEMMA ServeBatchKeeps ==
  ASSUME IInv, ServeBatch
  PROVE  Core(stack', World')
<1>1. /\ OnTop("pump") /\ inbox # <<>> /\ Head(inbox).what \in {"batch", "load"}
      /\ UNCHANGED <<loaded, build, failed, running, state, transient, frame, session>>
  BY DEF ServeBatch, Serving, perMod
<1>2. Head(inbox).batch \in Seq(Builds)
  BY <1>1, FirstAsked, GamesAssumption
<1>3. CASE stack' = stack /\ plan' = plan
  BY <1>1, <1>3 DEF IInv, World
<1>4. CASE /\ Accepted(Head(inbox).batch)
           /\ stack' = Append(stack, Retiring(Head(inbox).batch)) /\ plan' = NoPlan
  <2> DEFINE r == Retiring(Head(inbox).batch)
             n == Len(stack)
             t == Append(stack, r)
  <2>1. /\ World'.loaded = World.loaded /\ World'.build = World.build /\ World'.failed = World.failed
        /\ World'.running = World.running /\ World'.state = World.state /\ World'.transient = World.transient
        /\ World'.frame = World.frame /\ World'.session = World.session /\ World'.plan = NoPlan
        /\ World'.loaded = loaded /\ World'.build = build /\ World'.state = state
    BY <1>1, <1>4 DEF World
  <2>2. Core(stack, World')
    BY <1>1, <2>1, OnAPump, NewPlan
  <2>3. r \in RetiringEntry /\ r.kind = "retiring" /\ BatchOK(r, World')
    BY <1>1, <1>2, <1>4, <2>1, OnAPump, AcceptedBatch
  <2>4. r \in Entries
    BY <2>3, EntryTypes
  <2> HIDE DEF r
  <2>5. /\ stack # <<>> /\ stack \in Seq(Entries) /\ n \in Nat \ {0} /\ stack[n].kind = "pump"
        /\ Calm(stack, World, n) /\ World.session = "running"
    BY <1>1, OnAPump
  <2>6. /\ t \in Seq(Entries) /\ Len(t) = n + 1 /\ t[n + 1] = r /\ \A i \in 1..n : t[i] = stack[i]
    BY <2>4, <2>5, Pushed
  <2> HIDE DEF t, n
  <2>7. n + 1 # 1 /\ n + 1 - 1 = n /\ n \in 1..n
    BY <2>5
  <2>8. Follows(stack[n], r)
    BY <2>3, <2>5 DEF Follows
  <2>9. Clear(t, n + 1)
    <3>1. \A j \in 1..n : t[j].kind \notin Taken
      BY <2>5, <2>6 DEF Calm
    <3> QED BY <2>3, <2>6, <2>7, <3>1 DEF Clear, Leaves, Own, IsCode, CodeKinds, Pumping
  <2>10. Sits(t, n + 1)
    BY <2>6, <2>7, <2>8, <2>9 DEF Sits
  <2>11. Stands(t, n + 1, World')
    BY <2>3, <2>6 DEF Stands, IsCode, CodeKinds
  <2>12. ~IsCode(r) /\ ~Holds(r) /\ r.kind # "closing"
    BY <2>3 DEF IsCode, CodeKinds, Holds
  <2>13. Core(t, World')
    BY <2>2, <2>4, <2>5, <2>10, <2>11, <2>12, PushPlain DEF t, n
  <2> QED BY <1>4, <2>13 DEF t, r
<1> QED BY <1>3, <1>4 DEF ServeBatch

(* The pumping code's own handler runs as it, and another mod is entered.  *)
LEMMA ServeSendKeeps ==
  ASSUME IInv, ServeSend
  PROVE  Core(stack', World')
<1> DEFINE m == Head(inbox).mod
           n == Len(stack)
<1>1. /\ OnTop("pump") /\ inbox # <<>> /\ Head(inbox).what = "send"
      /\ UNCHANGED <<loaded, build, failed, state, plan, frame, session>>
  BY DEF ServeSend, Serving
<1>2. m \in Names
  BY <1>1, FirstAsked, GamesAssumption
<1>3. /\ Core(stack, World) /\ stack # <<>> /\ stack \in Seq(Entries) /\ n \in Nat \ {0}
      /\ Top = stack[n] /\ Top = Last(stack) /\ Top.kind = "pump" /\ Top \in Entries
      /\ Sits(stack, n) /\ ModsOK(World) /\ RunOf(stack, World)
      /\ World.session = "running" /\ ~World.frame.open /\ Calm(stack, World, n)
      /\ \A l : In(l, World) => state[l] = build[l].schema
  BY <1>1, OnAPump
<1>4. CASE UNCHANGED <<stack, running, transient>>
  BY <1>1, <1>4 DEF IInv, World
<1>5. CASE /\ IsLoaded(m) /\ ~failed[m] /\ ~running[m]
           /\ Enter("message", m) /\ stack' = Append(stack, Code("message", m, 0))
  <2> DEFINE c == Code("message", m, 0)
  <2>1. In(m, World) /\ ~World.failed[m] /\ ~World.running[m]
    BY <1>5 DEF IsLoaded, In, World
  <2>2. "message" \in CodeKinds \ {"handler"} /\ 0 \in Nat
    BY DEF CodeKinds
  <2>3. Enter("message", m)
    BY <1>5
  <2>4. Fresh(c, World, World') /\ c.kind = "message" /\ c.mod = m
    <3> HIDE DEF m
    <3> QED BY <1>1, <1>3, <2>1, <2>2, <2>3, EntersCode
  <2> HIDE DEF c, n
  <2>5. Follows(Last(stack), c)
    BY <1>3, <2>4 DEF Follows
  <2>6. \A j \in 1..Len(stack) : stack[j].kind \notin Taken
    BY <1>3 DEF Calm, n
  <2>7. \A j \in 1..Len(stack) : IsCode(stack[j]) => stack[j].mod # c.mod
    BY <1>2, <1>3, <2>1, <2>4, NotRunning
  <2>8. Core(Append(stack, c), World')
    BY <1>3, <2>4, <2>5, <2>6, <2>7, CodeOnTop DEF Fresh
  <2> QED BY <1>5, <2>8 DEF c
<1>6. CASE m = Top.mod /\ stack' = Append(stack, Code("handler", m, 0)) /\ UNCHANGED <<running, transient>>
  <2> DEFINE c == Code("handler", m, 0)
             t == Append(stack, c)
  <2>0. World' = World
    BY <1>1, <1>6 DEF World
  <2>1. Pumping(Top) /\ None \notin Names /\ m # None
    BY <1>2, <1>3, <1>6, GamesAssumption DEF Pumping, None
  <2>2. PICK j \in 1..n - 1 : /\ Own(stack[j]) /\ stack[j].mod = m
                              /\ \A k \in j + 1..n - 1 : Pumping(stack[k]) /\ stack[k].mod = m
    BY <1>3, <1>6, <2>1 DEF Sits, Clear
  <2>3. j \in 1..n
    BY <1>3
  <2>4. /\ CodeOK(stack[j], World) /\ IsCode(stack[j])
        /\ stack[j].kind \notin Leaves \union {"load"}
    BY <1>3, <2>2, <2>3 DEF Core, StackOf, Stands, Own, Calm
  <2>5. In(m, World) /\ ~World.failed[m] /\ World.running[m]
    <3>1. In(m, World) /\ ~World.failed[m]
      BY <2>2, <2>4 DEF CodeOK
    <3>2. World.running[m]
      BY <1>2, <1>3, <2>2, <2>3, <2>4 DEF RunOf
    <3> QED BY <3>1, <3>2
  <2>6. build[m] \in Builds /\ running \in [Names -> BOOLEAN] /\ World.build = build /\ World.state = state
    <3>1. World.build[m] \in Builds /\ World.running \in [Names -> BOOLEAN]
      BY <1>3, <2>5, ModsAre DEF ModsOK
    <3> QED BY <3>1 DEF World
  <2>7. /\ c \in Entries /\ c.kind = "handler" /\ c.mod = m /\ c.build = build[m] /\ ~c.holds
    BY <1>2, <2>6 DEF Code, Entries, CodeKinds
  <2>8. IsCode(c) /\ Pumping(c) /\ ~Own(c) /\ CodeOK(c, World)
    BY <1>3, <2>1, <2>5, <2>6, <2>7 DEF IsCode, CodeKinds, Pumping, Own, CodeOK
  <2> HIDE DEF c
  <2>9. t \in Seq(Entries) /\ Len(t) = n + 1 /\ t[n + 1] = c /\ \A i \in 1..n : t[i] = stack[i]
    BY <1>3, <2>7, Pushed
  <2> HIDE DEF t, n, m
  <2>10. n + 1 # 1 /\ n + 1 - 1 = n /\ n \in 1..n
    BY <1>3
  <2>11. Follows(stack[n], c)
    BY <1>3, <1>6, <2>7 DEF Follows
  <2>12. Clear(t, n + 1)
    <3>1. \A k \in 1..n : t[k].kind \notin Taken
      BY <1>3, <2>9 DEF Calm
    <3>2. Own(t[j]) /\ t[j].mod = m
      BY <2>2, <2>3, <2>9
    <3>3. ASSUME NEW k \in j + 1..n PROVE Pumping(t[k]) /\ t[k].mod = m
      <4>1. k \in 1..n /\ t[k] = stack[k] /\ (k = n \/ k \in j + 1..n - 1)
        BY <1>3, <2>3, <2>9
      <4> QED BY <1>3, <1>6, <2>1, <2>2, <4>1
    <3>4. \E i \in 1..n : /\ Own(t[i]) /\ t[i].mod = m
                          /\ \A k \in i + 1..n : Pumping(t[k]) /\ t[k].mod = m
      BY <2>3, <3>2, <3>3
    <3>5. PICK l \in Nat : l = n + 1 /\ l - 1 = n
      BY <1>3 DEF n
    <3>6. t[l].kind = "handler" /\ ~Own(t[l]) /\ t[l].mod = m
      BY <2>7, <2>8, <2>9, <3>5
    <3>7. \E i \in 1..l - 1 : /\ Own(t[i]) /\ t[i].mod = t[l].mod
                              /\ \A k \in i + 1..l - 1 : Pumping(t[k]) /\ t[k].mod = t[l].mod
      BY <3>4, <3>5, <3>6
    <3>8. Clear(t, l)
      BY <3>1, <3>5, <3>6, <3>7 DEF Clear, Leaves
    <3> QED BY <3>5, <3>8
  <2>13. Sits(t, n + 1)
    BY <2>9, <2>10, <2>11, <2>12 DEF Sits
  <2>14. Stands(t, n + 1, World)
    BY <2>7, <2>8, <2>9 DEF Stands
  <2>15. \A l \in Names : World.running[l] <=> (l = c.mod \/ World.running[l])
    BY <2>5, <2>7
  <2>16. SessionOf(t, World)
    <3>1. \A i \in 1..n + 1 : t[i].kind # "closing"
      <4> SUFFICES ASSUME NEW i \in 1..n + 1 PROVE t[i].kind # "closing"
        OBVIOUS
      <4>1. CASE i = n + 1
        BY <2>7, <2>9, <4>1
      <4>2. CASE i # n + 1
        <5>1. i \in 1..n
          BY <2>10, <4>2
        <5> QED BY <1>3, <2>9, <5>1 DEF Calm, Taken
      <4> QED BY <4>1, <4>2
    <3> QED BY <1>3, <2>9, <3>1 DEF Core, SessionOf
  <2>17. Core(t, World)
    BY <1>2, <1>3, <2>7, <2>8, <2>13, <2>14, <2>15, <2>16, PushCode DEF Core, t, n, m
  <2> QED BY <1>6, <2>0, <2>17 DEF t, c
<1> QED BY <1>4, <1>5, <1>6 DEF ServeSend

(* The plan is told.                                                       *)
LEMMA ServeScheduleKeeps ==
  ASSUME IInv, ServeSchedule
  PROVE  Core(stack', World')
<1>1. OnTop("pump") /\ plan' = Plan /\ UNCHANGED <<loaded, build, failed, running, state, transient, frame, stack, session>>
  BY DEF ServeSchedule, Serving, perMod
<1>2. CASE plan' = plan
  BY <1>1, <1>2 DEF IInv, World
<1>3. CASE plan' = PlanOf(loaded)
  <2>1. /\ World'.loaded = World.loaded /\ World'.build = World.build /\ World'.failed = World.failed
        /\ World'.running = World.running /\ World'.state = World.state /\ World'.transient = World.transient
        /\ World'.frame = World.frame /\ World'.session = World.session
    BY <1>1 DEF World
  <2>2. World'.plan = PlanIn(World)
    BY <1>1, <1>3 DEF World, PlanIn, PlanOf
  <2> QED BY <1>1, <2>1, <2>2, OnAPump, NewPlan
<1> QED BY <1>1, <1>2, <1>3 DEF Plan

(* Steps that leave all of this as it is.                                  *)
LEMMA QuietKeeps ==
  ASSUME IInv, ServeQuit \/ \E r \in Requests : Ask(r)
  PROVE  Core(stack', World')
BY DEF IInv, ServeQuit, Ask, World, perMod
-----------------------------------------------------------------------------
(* A mod leaves the list, and is forgotten once it is closed.              *)
LEMMA Removed ==
  ASSUME NEW s, NEW w, NEW v, Core(s, w), NEW m \in Names, w.transient[m] = NoBuild,
         v.loaded \in Seq(Names), \A i, j \in DOMAIN v.loaded : v.loaded[i] = v.loaded[j] => i = j,
         ToSet(v.loaded) = ToSet(w.loaded) \ {m},
         v.build = w.build, v.failed = w.failed, v.running = w.running, v.state = w.state,
         v.transient = w.transient, v.frame = w.frame, v.session = w.session,
         \A i \in 1..Len(s) : IsCode(s[i]) => s[i].mod # m,
         \A i \in 1..Len(s) : s[i].kind \notin {"retiring", "loading"},
         \/ w.session = "ending" /\ v.plan = w.plan
         \/ /\ w.session = "running" /\ v.plan = NoPlan /\ ~w.frame.open
            /\ Linked(RunIn(v)) /\ Plannable(RunIn(v))
  PROVE  Core(s, v)
<1>1. \A l : In(l, v) <=> In(l, w) /\ l # m
  BY DEF In
<1>2. StackOf(s, v)
  <2> SUFFICES ASSUME NEW i \in 1..Len(s) PROVE Stands(s, i, v)
    BY DEF Core, StackOf
  <2>1. Stands(s, i, w)
    BY DEF Core, StackOf
  <2>2. IsCode(s[i]) => CodeOK(s[i], v)
    BY <1>1, <2>1 DEF Stands, CodeOK
  <2> QED BY <1>1, <2>1, <2>2 DEF Stands
<1>3. RunOf(s, v) /\ FrameOf(s, v)
  BY DEF Core, RunOf, FrameOf
<1>4. StatesOf(s, v)
  BY <1>1 DEF Core, StatesOf, In
<1>5. ModsOK(v)
  <2>1. \A l \in ToSet(v.loaded) : v.build[l] \in Builds /\ v.build[l].mod = l
    BY <1>1 DEF Core, ModsOK, In
  <2>2. \A l \in Names \ ToSet(v.loaded) : v.transient[l] = NoBuild
    BY <1>1 DEF Core, ModsOK, In
  <2>3. v.plan \in Seq(Builds) \union {NoPlan}
    BY DEF Core, ModsOK
  <2> QED BY <2>1, <2>2, <2>3 DEF Core, ModsOK
<1>6. SessionOf(s, v)
  BY DEF Core, SessionOf
<1> QED BY <1>2, <1>3, <1>4, <1>5, <1>6 DEF Core

(* A mod that is not loaded is forgotten.                                  *)
LEMMA Forgotten ==
  ASSUME NEW s, NEW w, NEW v, Core(s, w), NEW m \in Names, ~In(m, w),
         v.loaded = w.loaded, v.running = w.running, v.transient = w.transient, v.plan = w.plan,
         v.frame = w.frame, v.session = w.session,
         v.build = [w.build EXCEPT ![m] = NoBuild], v.failed = [w.failed EXCEPT ![m] = FALSE],
         v.state = [w.state EXCEPT ![m] = NoState], \A i \in 1..Len(s) : Stands(s, i, v)
  PROVE  Core(s, v)
<1>1. /\ w.build \in [Names -> Builds \union {NoBuild}] /\ w.failed \in [Names -> BOOLEAN]
      /\ w.state \in [Names -> {b.schema : b \in Builds} \union {NoState, Dropped}]
      /\ w.transient[m] = NoBuild /\ m \notin ToSet(w.loaded) /\ ToSet(w.loaded) \subseteq Names
      /\ w.loaded \in Seq(Names)
  BY OfSequences DEF Core, ModsOK, In
<1>2. /\ v.build \in [Names -> Builds \union {NoBuild}] /\ v.failed \in [Names -> BOOLEAN]
      /\ v.state \in [Names -> {b.schema : b \in Builds} \union {NoState, Dropped}]
      /\ \A n \in Names : n # m => v.build[n] = w.build[n] /\ v.failed[n] = w.failed[n] /\ v.state[n] = w.state[n]
      /\ v.build[m] = NoBuild
  BY <1>1
<1>3. RunIn(v) = RunIn(w)
  BY <1>1, <1>2 DEF RunIn
<1>4. PlanIn(v) = PlanIn(w)
  <2>1. \A i \in DOMAIN w.loaded : w.loaded[i] \in Names /\ w.loaded[i] # m
    <3>1. ToSet(w.loaded) = {w.loaded[i] : i \in 1..Len(w.loaded)} /\ DOMAIN w.loaded = 1..Len(w.loaded)
      BY <1>1, OfSequences
    <3> QED BY <1>1, <3>1
  <2>2. \A i \in DOMAIN w.loaded : v.build[w.loaded[i]] = w.build[w.loaded[i]]
    BY <1>2, <2>1
  <2>3. [i \in DOMAIN v.loaded |-> v.build[v.loaded[i]]] = [i \in DOMAIN w.loaded |-> w.build[w.loaded[i]]]
    BY <2>2
  <2> QED BY <2>3 DEF PlanIn
<1>5. StackOf(s, v) /\ RunOf(s, v) /\ FrameOf(s, v)
  BY DEF Core, StackOf, RunOf, FrameOf
<1>6. StatesOf(s, v)
  <2> SUFFICES ASSUME NEW n \in ToSet(w.loaded), v.state[n] # v.build[n].schema
               PROVE  \E i \in 1..Len(s) : s[i].kind = "retiring" /\ \E o \in ToSet(s[i].batch) : o.mod = n
    BY DEF StatesOf
  <2>1. w.state[n] # w.build[n].schema
    BY <1>1, <1>2
  <2> QED BY <2>1 DEF Core, StatesOf
<1>7. ModsOK(v)
  <2>1. \A n \in ToSet(v.loaded) : v.build[n] \in Builds /\ v.build[n].mod = n
    BY <1>1, <1>2 DEF Core, ModsOK
  <2>2. \A n \in Names : v.transient[n] \in {NoBuild, v.build[n]}
    BY <1>1, <1>2 DEF Core, ModsOK
  <2> QED BY <1>2, <2>1, <2>2 DEF Core, ModsOK
<1>8. SessionOf(s, v)
  BY <1>3, <1>4 DEF Core, SessionOf
<1> QED BY <1>5, <1>6, <1>7, <1>8 DEF Core

(* Its last hook, on the entry that took it off the list.                  *)
LEMMA Closes ==
  ASSUME NEW s, NEW w, NEW v, Core(s, w), NEW m \in Names, ~In(m, w),
         NEW e \in Entries, e.kind = IF s = <<>> THEN "closing" ELSE "unloading", e.mod = m,
         IF s = <<>> THEN w.session = "ending"
         ELSE w.session = "running" /\ Last(s).kind = "pump" /\ Calm(s, w, Len(s)),
         NEW c \in Entries, Own(c), ~c.holds, ~c.was, c.kind = "close", c.mod = m,
         Entered(w, v, c), CodeOK(c, v), \A i \in 1..Len(s) : IsCode(s[i]) => s[i].mod # m
  PROVE  Core(Append(Append(s, e), c), v)
<1> DEFINE n == Len(s)
           t == Append(s, e)
<1>1. /\ s \in Seq(Entries) /\ n \in Nat /\ t \in Seq(Entries) /\ Len(t) = n + 1 /\ t[n + 1] = e
      /\ \A i \in 1..n : t[i] = s[i]
  BY Pushed DEF Core, StackOf
<1>2. s = <<>> => n + 1 = 1 /\ 1..n = {}
  OBVIOUS
<1>3. ASSUME s # <<>> PROVE n + 1 # 1 /\ n + 1 - 1 = n /\ n \in 1..n /\ Last(s) = s[n] /\ t[n] = s[n]
  <2>1. n \in Nat \ {0} /\ Last(s) = s[n]
    BY <1>1, <1>3, TopOf
  <2> QED BY <1>1, <2>1
<1> HIDE DEF n, t
<1>4. \A j \in 1..n : t[j].kind \notin Taken
  BY <1>1, <1>2 DEF Calm, n
<1>5. PICK l \in Nat : l = n + 1 /\ l - 1 = n
  BY <1>1
<1>6. Sits(t, l)
  <2>1. Clear(t, l)
    BY <1>1, <1>4, <1>5 DEF Clear, Leaves, Own, IsCode, CodeKinds, Pumping
  <2>2. IF l = 1 THEN Starts(t[l]) ELSE Follows(t[l - 1], t[l])
    BY <1>1, <1>2, <1>3, <1>5 DEF Starts, Follows
  <2> QED BY <2>1, <2>2 DEF Sits
<1>7. Stands(t, l, w)
  BY <1>1, <1>5 DEF Stands, IsCode, CodeKinds
<1>8. ~IsCode(e) /\ ~Holds(e)
  BY DEF IsCode, CodeKinds, Holds
<1>9. Core(t, w)
  BY <1>5, <1>6, <1>7, <1>8, PushPlain DEF t, n
<1>10. t # <<>> /\ Last(t) = e
  <2>1. t # <<>>
    BY <1>1
  <2>2. Last(t) = t[Len(t)]
    BY <1>1, <2>1, TopOf
  <2> QED BY <1>1, <2>1, <2>2
<1>11. Follows(Last(t), c)
  BY <1>10 DEF Follows
<1>12. \A j \in 1..Len(t) : IsCode(t[j]) => t[j].mod # c.mod
  <2> SUFFICES ASSUME NEW j \in 1..Len(t), IsCode(t[j]) PROVE t[j].mod # c.mod
    OBVIOUS
  <2>1. j # n + 1
    BY <1>1, <1>8
  <2>2. j \in 1..n
    BY <1>1, <2>1
  <2> QED BY <1>1, <2>2 DEF n
<1>13. c.kind \in Leaves
  BY DEF Leaves
<1> QED BY <1>9, <1>10, <1>11, <1>12, <1>13, CodeOnTop DEF t

(* A closed mod is gone with its state.                                    *)
LEMMA GoneKeeps ==
  ASSUME IInv, Gone
  PROVE  Core(stack', World')
<1> DEFINE n == Len(stack)
           m == Top.mod
<1>1. /\ stack # <<>> /\ Top.kind \in {"closing", "unloading"} /\ Forget(m) /\ stack' = Front(stack)
      /\ UNCHANGED <<loaded, running, transient, plan, frame, session>>
  BY DEF Gone, OnTop
<1>2. /\ Core(stack, World) /\ stack \in Seq(Entries) /\ n \in Nat \ {0} /\ Top = stack[n] /\ Top \in Entries
      /\ Sits(stack, n) /\ Stands(stack, n, World) /\ Top = Last(stack)
  BY <1>1, AtTop DEF IInv, Top, Core
<1>3. m \in Names /\ ~In(m, World)
  BY <1>1, <1>2, EntryTypes DEF Stands
<1>4. Front(stack) = SubSeq(stack, 1, n - 1) /\ n - 1 \in 0..n
  BY <1>1, <1>2, TopOf
<1>5. \A i \in n - 1 + 1..n : ~IsCode(stack[i]) /\ ~Holds(stack[i]) /\ stack[i].kind # "retiring"
  <2>1. ~IsCode(Top) /\ ~Holds(Top) /\ Top.kind # "retiring"
    BY <1>1 DEF IsCode, Holds, CodeKinds
  <2>2. \A i \in n - 1 + 1..n : i = n
    BY <1>2
  <2> QED BY <1>2, <2>1, <2>2
<1>6. Core(Front(stack), World)
  BY <1>2, <1>4, <1>5, CutPlain
<1>7. Len(Front(stack)) = n - 1 /\ \A i \in 1..n - 1 : Front(stack)[i] = stack[i]
  BY <1>1, <1>2, TopOf
<1> HIDE DEF m, n
<1>8. Calm(stack, World, n - 1)
  <2>1. CASE Top.kind = "closing"
    <3>1. n \in 1..Len(stack) /\ stack[n].kind = "closing" /\ StackOf(stack, World)
      BY <1>2, <2>1 DEF Core, n
    <3>2. n = 1
      BY <3>1, UnderClosing
    <3> QED BY <3>2 DEF Calm
  <2>2. CASE Top.kind = "unloading"
    <3>1. n \in 1..n
      BY <1>2
    <3> QED BY <1>2, <2>2, <3>1, UnderBatch DEF Core, n
  <2> QED BY <1>1, <2>1, <2>2
<1>9. /\ World'.loaded = World.loaded /\ World'.running = World.running /\ World'.transient = World.transient
      /\ World'.plan = World.plan /\ World'.frame = World.frame /\ World'.session = World.session
      /\ World'.build = [World.build EXCEPT ![m] = NoBuild]
      /\ World'.failed = [World.failed EXCEPT ![m] = FALSE]
      /\ World'.state = [World.state EXCEPT ![m] = NoState]
  BY <1>1 DEF World, Forget
<1>10. ASSUME NEW l \in Names, In(l, World), World.build[l].resident
       PROVE  /\ In(l, World') /\ World'.build[l] = World.build[l]
              /\ World'.state[l] = World.state[l] /\ World'.failed[l] = World.failed[l]
  <2>1. l # m /\ In(l, World')
    BY <1>3, <1>9, <1>10 DEF In
  <2>2. /\ World.build \in [Names -> Builds \union {NoBuild}] /\ World.failed \in [Names -> BOOLEAN]
        /\ World.state \in [Names -> {b.schema : b \in Builds} \union {NoState, Dropped}]
    BY <1>2 DEF Core, ModsOK
  <2> QED BY <1>9, <2>1, <2>2
<1>11. \A i \in 1..n - 1 : Stands(stack, i, World')
  BY <1>2, <1>4, <1>8, <1>10, CalmStands DEF n
<1>12. \A i \in 1..Len(Front(stack)) : Stands(Front(stack), i, World')
  <2> SUFFICES ASSUME NEW i \in 1..Len(Front(stack)) PROVE Stands(Front(stack), i, World')
    OBVIOUS
  <2>1. /\ i \in 1..n - 1 /\ i \in Nat \ {0} /\ \A j \in 1..i : stack[j] = Front(stack)[j] /\ i \in 1..n
    BY <1>2, <1>7
  <2>2. Stands(stack, i, World') /\ Sits(stack, i)
    BY <1>2, <1>11, <2>1 DEF Core, StackOf, n
  <2> QED BY <2>1, <2>2, StandsSame
<1>13. Core(Front(stack), World')
  BY <1>3, <1>6, <1>9, <1>12, Forgotten
<1> QED BY <1>1, <1>13
-----------------------------------------------------------------------------
(* A mod that is loaded is taken off the list, and closed.                 *)
LEMMA TellsTheGone ==
  ASSUME IInv, NEW m, In(m, World), Enter("close", m),
         loaded' \in Seq(Names), \A i, j \in DOMAIN loaded' : loaded'[i] = loaded'[j] => i = j,
         ToSet(loaded') = ToSet(loaded) \ {m},
         NEW e \in Entries, e.kind = IF stack = <<>> THEN "closing" ELSE "unloading", e.mod = m,
         stack' = stack \o <<e, Code("close", m, 0)>>,
         UNCHANGED <<build, failed, state, frame, session>>,
         IF stack = <<>> THEN session = "ending" /\ plan' = plan
         ELSE /\ OnTop("pump") /\ ~build[m].resident /\ plan' = NoPlan
              /\ Linked(Running \ {build[m]}) /\ Plannable(Running \ {build[m]})
  PROVE  Core(stack', World')
<1> DEFINE n == Len(stack)
           c == Code("close", m, 0)
<1>1. /\ Core(stack, World) /\ ModsOK(World) /\ RunOf(stack, World) /\ stack \in Seq(Entries) /\ n \in Nat
      /\ m \in Names /\ build[m] \in Builds /\ build[m].mod = m
  <2>1. Core(stack, World) /\ ModsOK(World) /\ RunOf(stack, World) /\ stack \in Seq(Entries)
    BY DEF IInv, Core, StackOf
  <2>2. m \in Names /\ World.build[m] \in Builds /\ World.build[m].mod = m
    BY <2>1, ModsAre
  <2> QED BY <2>1, <2>2 DEF World
<1>2. ASSUME stack # <<>>
      PROVE  /\ OnTop("pump") /\ Last(stack).kind = "pump" /\ World.session = "running" /\ ~World.frame.open
             /\ Calm(stack, World, n)
  BY <1>2, OnAPump DEF Top
<1>3. stack = <<>> => 1..n = {}
  OBVIOUS
<1> HIDE DEF n, c
<1>4. \A i \in 1..n : IsCode(stack[i]) => stack[i].mod # m
  <2>1. CASE stack = <<>>
    BY <1>3, <2>1
  <2>2. CASE stack # <<>>
    <3>1. ~World.build[m].resident
      BY <2>2 DEF World
    <3> QED BY <1>2, <2>2, <3>1 DEF Calm
  <2> QED BY <2>1, <2>2
<1>5. \A i \in 1..n : stack[i].kind \notin {"retiring", "loading"}
  <2>1. CASE stack # <<>>
    BY <1>2, <2>1 DEF Calm, Taken, Shared
  <2> QED BY <1>3, <2>1
<1>6. state[m] = build[m].schema /\ running[m] = FALSE
  <2>1. World.state[m] = World.build[m].schema
    BY <1>1, <1>5, StatesFit DEF n
  <2>2. ~World.running[m]
    BY <1>1, <1>4, NotRunning DEF n
  <2>3. running \in [Names -> BOOLEAN]
    BY <1>1 DEF ModsOK, World
  <2> QED BY <1>1, <2>1, <2>2, <2>3 DEF World
<1>7. PICK u : Core(stack, u) /\ LetsGo(World, u, m)
  BY <1>1, LetGo
<1>8. PICK v : v = [loaded |-> loaded', build |-> build, failed |-> failed, running |-> running, state |-> state,
                    transient |-> u.transient, plan |-> plan', frame |-> frame, session |-> session]
  OBVIOUS
<1>9. /\ v.loaded = loaded' /\ v.build = build /\ v.failed = failed /\ v.running = running /\ v.state = state
      /\ v.transient = u.transient /\ v.plan = plan' /\ v.frame = frame /\ v.session = session
  BY <1>8
<1>10. /\ u.transient \in [Names -> Builds \union {NoBuild}]
       /\ \A l \in Names : u.transient[l] = IF l = m THEN NoBuild ELSE transient[l]
       /\ u.loaded = loaded /\ u.build = build /\ u.failed = failed /\ u.state = state
       /\ u.running = running /\ u.plan = plan /\ u.frame = frame /\ u.session = session
  BY <1>7 DEF LetsGo, World
<1>11. \A l : In(l, v) <=> In(l, World) /\ l # m
  BY <1>9 DEF In, World
<1>12. RunIn(v) = Running \ {build[m]}
  <2>1. \A l \in ToSet(loaded) : build[l].mod = l
    BY <1>1 DEF ModsOK, World
  <2> QED BY <1>1, <1>9, <2>1 DEF RunIn, Running
<1>13. Core(stack, v)
  <2>1. \/ u.session = "ending" /\ v.plan = u.plan
        \/ /\ u.session = "running" /\ v.plan = NoPlan /\ ~u.frame.open
           /\ Linked(RunIn(v)) /\ Plannable(RunIn(v))
    BY <1>2, <1>9, <1>10, <1>12 DEF World
  <2>2. u.transient[m] = NoBuild /\ ToSet(v.loaded) = ToSet(u.loaded) \ {m}
    BY <1>1, <1>9, <1>10
  <2>3. v.loaded \in Seq(Names) /\ \A i, j \in DOMAIN v.loaded : v.loaded[i] = v.loaded[j] => i = j
    BY <1>9
  <2>4. /\ v.build = u.build /\ v.failed = u.failed /\ v.running = u.running /\ v.state = u.state
        /\ v.transient = u.transient /\ v.frame = u.frame /\ v.session = u.session
    BY <1>9, <1>10
  <2> QED BY <1>1, <1>4, <1>5, <1>7, <2>1, <2>2, <2>3, <2>4, Removed DEF n
<1>14. /\ c \in Entries /\ IsCode(c) /\ c.kind = "close" /\ c.mod = m /\ c.build = build[m]
       /\ c.was = FALSE /\ c.holds = FALSE
  <2>1. "close" \in CodeKinds /\ running[m] \in BOOLEAN /\ 0 \in Nat
    BY <1>6 DEF CodeKinds
  <2> QED BY <1>1, <1>6, <2>1 DEF c, Code, Entries, IsCode
<1>16. stack' = Append(Append(stack, e), c)
  <2>1. stack' = stack \o <<e, c>>
    BY DEF c
  <2> QED BY <1>1, <1>14, <2>1, PushedTwo
<1>17. Entered(v, World', c)
  <2>1. /\ running' \in [Names -> BOOLEAN] /\ transient' \in [Names -> Builds \union {NoBuild}]
        /\ \A l \in Names : running'[l] <=> (l = m \/ running[l])
        /\ \A l \in Names : transient'[l] = IF l # m THEN transient[l] ELSE NoBuild
    BY <1>1, EnterDoes DEF Leaves
  <2>2. /\ World'.loaded = loaded' /\ World'.build = build /\ World'.failed = failed /\ World'.running = running'
        /\ World'.state = state /\ World'.transient = transient' /\ World'.plan = plan'
        /\ World'.frame = frame /\ World'.session = session
    BY DEF World
  <2>3. \A l \in Names : transient'[l] = IF l # c.mod THEN u.transient[l] ELSE NoBuild
    BY <1>10, <1>14, <2>1
  <2>4. c.kind \in Leaves
    BY <1>14 DEF Leaves
  <2> QED BY <1>9, <1>14, <2>1, <2>2, <2>3, <2>4 DEF Entered
<1>18. CodeOK(c, World')
  <2>1. World'.build = build /\ World'.state = state
    BY DEF World
  <2> QED BY <1>6, <1>14, <2>1 DEF CodeOK, Leaves
<1>19. IF stack = <<>> THEN v.session = "ending"
       ELSE v.session = "running" /\ Last(stack).kind = "pump" /\ Calm(stack, v, Len(stack))
  <2>1. CASE stack = <<>>
    BY <1>9, <2>1
  <2>2. CASE stack # <<>>
    <3>1. v.build = World.build /\ v.session = World.session
      BY <1>9 DEF World
    <3>2. Calm(stack, v, n)
      BY <1>2, <1>4, <1>11, <2>2, <3>1 DEF Calm
    <3> QED BY <1>2, <2>2, <3>1, <3>2 DEF n
  <2> QED BY <2>1, <2>2
<1>20. Own(c) /\ ~c.holds /\ ~c.was /\ ~In(m, v)
  BY <1>11, <1>14 DEF Own
<1>21. Core(Append(Append(stack, e), c), World')
  <2>1. \A i \in 1..Len(stack) : IsCode(stack[i]) => stack[i].mod # m
    BY <1>4 DEF n
  <2> QED BY <1>1, <1>13, <1>14, <1>17, <1>18, <1>19, <1>20, <2>1, Closes
<1> QED BY <1>16, <1>21

(* The mod loaded last is closed, or the session is over.                  *)
LEMMA ShutDownKeeps ==
  ASSUME IInv, ShutDown
  PROVE  Core(stack', World')
<1>1. stack = <<>> /\ session = "ending" /\ Core(stack, World) /\ loaded \in Seq(Names)
      /\ UNCHANGED <<build, failed, state, plan, frame>>
  BY DEF ShutDown, IInv, Core, ModsOK, World
<1>2. CASE loaded = <<>>
  <2>1. session' = "over" /\ UNCHANGED <<loaded, running, transient, stack>>
    BY <1>2 DEF ShutDown
  <2>2. /\ World'.loaded = World.loaded /\ World'.build = World.build /\ World'.failed = World.failed
        /\ World'.running = World.running /\ World'.state = World.state /\ World'.transient = World.transient
        /\ World'.frame = World.frame /\ World'.plan = World.plan /\ World'.session = "over"
    BY <1>1, <2>1 DEF World
  <2> QED BY <1>1, <2>1, <2>2, AtRest
<1>3. CASE loaded # <<>>
  <2> DEFINE m == Last(loaded)
             e == [kind |-> "closing", mod |-> m]
  <2>1. /\ loaded' = Front(loaded) /\ Enter("close", m) /\ session' = session
        /\ stack' = <<e, Code("close", m, 0)>>
    BY <1>3 DEF ShutDown
  <2>2. /\ Len(loaded) \in Nat \ {0} /\ m = loaded[Len(loaded)] /\ Front(loaded) \in Seq(Names)
        /\ Len(Front(loaded)) = Len(loaded) - 1 /\ \A i \in 1..Len(loaded) - 1 : Front(loaded)[i] = loaded[i]
    BY <1>1, <1>3, TopOf
  <2>3. \A i, j \in 1..Len(loaded) : loaded[i] = loaded[j] => i = j
    <3>1. DOMAIN loaded = 1..Len(loaded)
      BY <1>1
    <3> QED BY <1>1, <3>1 DEF Core, ModsOK, World
  <2>4. /\ ToSet(loaded) = {loaded[i] : i \in 1..Len(loaded)}
        /\ ToSet(Front(loaded)) = {Front(loaded)[i] : i \in 1..Len(loaded) - 1}
        /\ DOMAIN Front(loaded) = 1..Len(loaded) - 1
    BY <1>1, <2>2, OfSequences
  <2> HIDE DEF m
  <2>5. ToSet(Front(loaded)) = ToSet(loaded) \ {m} /\ m \in ToSet(loaded)
    <3>1. \A i \in 1..Len(loaded) - 1 : i \in 1..Len(loaded) /\ i # Len(loaded) /\ loaded[i] # m
      BY <2>2, <2>3
    <3>2. \A i \in 1..Len(loaded) : i \in 1..Len(loaded) - 1 \/ loaded[i] = m
      BY <2>2
    <3>3. m \in ToSet(loaded)
      BY <2>2, <2>4
    <3> QED BY <2>2, <2>4, <3>1, <3>2, <3>3
  <2>6. \A i, j \in DOMAIN Front(loaded) : Front(loaded)[i] = Front(loaded)[j] => i = j
    BY <2>2, <2>3, <2>4
  <2>7. stack' = stack \o <<e, Code("close", m, 0)>>
    BY <1>1, <2>1
  <2>8. In(m, World)
    BY <2>5 DEF In, World
  <2>9. e \in Entries /\ e.kind = (IF stack = <<>> THEN "closing" ELSE "unloading") /\ e.mod = m
    <3>1. m \in Names
      BY <1>1, <2>5, OfSequences
    <3> QED BY <1>1, <3>1 DEF Entries
  <2> HIDE DEF e
  <2> QED BY <1>1, <2>1, <2>2, <2>5, <2>6, <2>7, <2>8, <2>9, TellsTheGone
<1> QED BY <1>2, <1>3

(* A mod no other depends on is unloaded, or the request refused.          *)
LEMMA ServeUnloadKeeps ==
  ASSUME IInv, ServeUnload
  PROVE  Core(stack', World')
<1> DEFINE m == Head(inbox).mod
           e == [kind |-> "unloading", mod |-> m]
<1>1. OnTop("pump") /\ UNCHANGED <<build, failed, state, frame, session>>
  BY DEF ServeUnload, Serving
<1>2. CASE UNCHANGED <<loaded, running, transient, stack, plan>>
  BY <1>1, <1>2 DEF IInv, World
<1>3. CASE /\ IsLoaded(m) /\ ~build[m].resident
           /\ \A n \in ToSet(loaded) : m \notin Deps(build[n])
           /\ Plannable(Running \ {build[m]})
           /\ loaded' = Keep(loaded, Names \ {m}) /\ Enter("close", m)
           /\ stack' = stack \o <<e, Code("close", m, 0)>> /\ plan' = NoPlan
  <2> HIDE DEF m
  <2>1. /\ stack # <<>> /\ World.session = "running" /\ Core(stack, World) /\ In(m, World)
        /\ loaded \in Seq(Names) /\ \A i, j \in DOMAIN loaded : loaded[i] = loaded[j] => i = j
    <3>1. stack # <<>> /\ World.session = "running" /\ Core(stack, World)
      BY <1>1, OnAPump
    <3> QED BY <1>3, <3>1 DEF Core, ModsOK, World, In, IsLoaded
  <2>2. /\ loaded' \in Seq(Names) /\ ToSet(loaded') = ToSet(loaded) \ {m}
        /\ \A i, j \in DOMAIN loaded' : loaded'[i] = loaded'[j] => i = j
    <3>1. ToSet(loaded) \subseteq Names
      BY <2>1, OfSequences
    <3>2. ToSet(Keep(loaded, Names \ {m})) = ToSet(loaded) \intersect (Names \ {m})
      BY <2>1, KeepProperties
    <3>3. PICK k : k = Keep(loaded, Names \ {m})
      OBVIOUS
    <3>4. k \in Seq(Names) /\ \A i, j \in DOMAIN k : k[i] = k[j] => i = j
      <4>1. loaded \in Seq(Names)
        BY <2>1
      <4>2. /\ Keep(loaded, Names \ {m}) \in Seq(Names)
            /\ (\A i, j \in DOMAIN loaded : loaded[i] = loaded[j] => i = j) =>
                 \A i, j \in DOMAIN Keep(loaded, Names \ {m}) :
                   Keep(loaded, Names \ {m})[i] = Keep(loaded, Names \ {m})[j] => i = j
        BY <4>1, KeepProperties, Zenon
      <4> QED BY <2>1, <3>3, <4>2
    <3>5. loaded' = k
      BY <1>3, <3>3
    <3>6. ToSet(k) = ToSet(loaded) \ {m}
      BY <3>1, <3>2, <3>3
    <3> QED BY <3>4, <3>5, <3>6
  <2>3. Linked(Running)
    <3>1. RunIn(World) = Running
      BY DEF RunIn, Running, World
    <3> QED BY <2>1, <3>1 DEF Core, SessionOf
  <2>4. Linked(Running \ {build[m]})
    <3>1. \A b \in Running : \A d \in b.deps : d[1] # m
      <4> SUFFICES ASSUME NEW b \in Running, NEW d \in b.deps, d[1] = m PROVE FALSE
        OBVIOUS
      <4>1. PICK n \in ToSet(loaded) : b = build[n]
        BY DEF Running
      <4>2. m \in Deps(build[n])
        BY <4>1 DEF Deps
      <4> QED BY <1>3, <4>2
    <3>2. build[m].mod = m
      BY <2>1 DEF Core, ModsOK, World, In
    <3> QED BY <2>3, <3>1, <3>2 DEF Linked
  <2>5. e \in Entries /\ e.kind = (IF stack = <<>> THEN "closing" ELSE "unloading") /\ e.mod = m
    <3>1. m \in Names
      BY <2>1, OfSequences DEF In, World
    <3>2. e \in [kind : {"closing", "unloading"}, mod : Names]
      BY <3>1
    <3>3. e \in Entries
      BY <3>2 DEF Entries
    <3>4. e.kind = "unloading" /\ e.mod = m /\ stack # <<>>
      BY <2>1
    <3> QED BY <3>3, <3>4
  <2> HIDE DEF e
  <2>6. IF stack = <<>> THEN session = "ending" /\ plan' = plan
        ELSE /\ OnTop("pump") /\ ~build[m].resident /\ plan' = NoPlan
             /\ Linked(Running \ {build[m]}) /\ Plannable(Running \ {build[m]})
    BY <1>1, <1>3, <2>1, <2>4
  <2>7. Enter("close", m) /\ stack' = stack \o <<e, Code("close", m, 0)>>
    BY <1>3
  <2>8. In(m, World)
    BY <2>1
  <2> QED BY <1>1, <2>2, <2>5, <2>6, <2>7, <2>8, TellsTheGone
<1>4. \/ /\ IsLoaded(m) /\ ~build[m].resident
         /\ \A n \in ToSet(loaded) : m \notin Deps(build[n])
         /\ Plannable(Running \ {build[m]})
         /\ loaded' = Keep(loaded, Names \ {m}) /\ Enter("close", m)
         /\ stack' = stack \o <<e, Code("close", m, 0)>> /\ plan' = NoPlan
      \/ UNCHANGED <<loaded, running, transient, stack, plan>>
  BY Zenon DEF ServeUnload
<1> QED BY <1>2, <1>3, <1>4
-----------------------------------------------------------------------------
(* Code calls a service of a mod that isn't running, or opens a frame.     *)
LEMMA NothingTaken ==
  ASSUME IInv, stack # <<>>, \A i \in 1..Len(stack) : stack[i].kind \notin Taken
  PROVE  /\ \A i \in 1..Len(stack) : stack[i].kind \notin Taken \union Leaves \union {"retiring"}
         /\ World.session = "running" /\ \A m : In(m, World) => state[m] = build[m].schema
<1>1. /\ Core(stack, World) /\ StackOf(stack, World) /\ stack \in Seq(Entries) /\ Len(stack) \in Nat \ {0}
  BY AtTop DEF IInv, Core
<1>2. \A i \in 1..Len(stack) : stack[i].kind \notin Taken \union Leaves \union {"retiring"}
  <2> SUFFICES ASSUME NEW i \in 1..Len(stack), stack[i].kind \in Leaves PROVE FALSE
    BY DEF Taken
  <2>1. i > 1 /\ stack[i - 1].kind \in Taken
    BY <1>1, LastHooks
  <2> QED BY <1>1, <2>1
<1>3. World.session = "running"
  <2>1. 1 \in 1..Len(stack)
    BY <1>1
  <2>2. stack[1].kind # "closing"
    BY <2>1 DEF Taken
  <2> QED BY <1>1, <2>2 DEF Core, SessionOf
<1>4. ASSUME NEW m, In(m, World) PROVE state[m] = build[m].schema
  <2>1. World.state[m] = World.build[m].schema
    BY <1>1, <1>2, <1>4, StatesFit
  <2> QED BY <2>1 DEF World
<1> QED BY <1>2, <1>3, <1>4

(* The code on top of the stack.                                           *)
LEMMA OnCode ==
  ASSUME IInv, InCode
  PROVE  /\ Core(stack, World) /\ stack # <<>> /\ stack \in Seq(Entries) /\ Len(stack) \in Nat \ {0}
         /\ Top = stack[Len(stack)] /\ Top = Last(stack) /\ IsCode(Top) /\ Top \in CodeEntry
         /\ Sits(stack, Len(stack)) /\ Stands(stack, Len(stack), World) /\ StackOf(stack, World)
         /\ ModsOK(World) /\ RunOf(stack, World) /\ FrameOf(stack, World) /\ Top.mod \in Names
         /\ Len(stack) \in 1..Len(stack) /\ (Holds(Top) <=> Top.holds)
<1>1. stack # <<>> /\ IsCode(Top)
  BY DEF InCode, IsCode
<1>2. /\ Core(stack, World) /\ stack \in Seq(Entries) /\ Len(stack) \in Nat \ {0} /\ Top = Last(stack)
      /\ Top = stack[Len(stack)] /\ Sits(stack, Len(stack)) /\ Stands(stack, Len(stack), World)
      /\ StackOf(stack, World) /\ ModsOK(World) /\ RunOf(stack, World) /\ FrameOf(stack, World) /\ Top \in Entries
  BY <1>1, AtTop DEF IInv, Top, Core
<1>3. Top \in CodeEntry
  BY <1>1, <1>2, EntryTypes
<1>4. Top.mod \in Names /\ Len(stack) \in 1..Len(stack)
  BY <1>2, <1>3 DEF CodeEntry
<1>5. Holds(Top) <=> Top.holds
  BY <1>1 DEF Holds, IsCode, CodeKinds
<1> QED BY <1>1, <1>2, <1>3, <1>4, <1>5

(* While the list of mods is not taken, no entry takes it.                 *)
LEMMA ListIsThere ==
  ASSUME stack \in Seq(Entries), ~ListTaken
  PROVE  \A i \in 1..Len(stack) : stack[i].kind \notin Taken
<1>1. \A i \in 1..Len(stack) : stack[i].kind \in Kinds
  BY DEF Kinds
<1> QED BY <1>1 DEF ListTaken, Taken

(* A service is called.                                                    *)
LEMMA CallKeeps ==
  ASSUME IInv, \E s \in Services : Call(s)
  PROVE  Core(stack', World')
<1>1. PICK s \in Services : Call(s)
  OBVIOUS
<1>2. /\ InCode /\ ~Top.holds /\ ~ListTaken
      /\ UNCHANGED <<loaded, build, failed, state, plan, frame, session>>
  BY <1>1 DEF Call
<1>3. PICK p \in ToSet(loaded) : /\ ~failed[p] /\ ~running[p] /\ Enter("serve", p)
                                 /\ stack' = Append(stack, Code("serve", p, 0))
  BY <1>1 DEF Call
<1>4. /\ Core(stack, World) /\ stack # <<>> /\ stack \in Seq(Entries) /\ Top = Last(stack) /\ IsCode(Top)
      /\ Top = stack[Len(stack)] /\ Len(stack) \in 1..Len(stack) /\ ~Holds(Top) /\ ModsOK(World) /\ RunOf(stack, World)
  BY <1>2, OnCode
<1>5. /\ \A i \in 1..Len(stack) : stack[i].kind \notin Taken \union Leaves
      /\ \A m : In(m, World) => state[m] = build[m].schema
  BY <1>2, <1>4, ListIsThere, NothingTaken
<1> DEFINE c == Code("serve", p, 0)
<1>6. In(p, World) /\ ~World.failed[p] /\ ~World.running[p]
  BY <1>3 DEF In, World
<1>7. "serve" \in CodeKinds \ {"handler"} /\ 0 \in Nat
  BY DEF CodeKinds
<1>8. Fresh(c, World, World') /\ c.kind = "serve" /\ c.mod = p
  BY <1>2, <1>3, <1>4, <1>5, <1>6, <1>7, EntersCode
<1> HIDE DEF c
<1>9. Follows(Last(stack), c)
  BY <1>4, <1>5, <1>8 DEF Follows
<1>10. \A j \in 1..Len(stack) : IsCode(stack[j]) => stack[j].mod # c.mod
  BY <1>4, <1>6, <1>8, NotRunning, ModsAre
<1>11. Core(Append(stack, c), World')
  BY <1>4, <1>5, <1>8, <1>9, <1>10, CodeOnTop DEF Fresh
<1> QED BY <1>3, <1>11 DEF c

(* The nodes of a frame: a system's, and the one that lands its log.       *)
LEMMA NodesAre ==
  ASSUME NEW p \in Seq(Builds)
  PROVE  FrameOK([nodes |-> Nodes(p), logs |-> {}, open |-> TRUE])
<1>1. /\ Len(p) \in Nat /\ Nodes(p) \in Seq(NodeRecord) /\ DOMAIN Nodes(p) = 1..2 * Len(p)
  <2>1. Len(p) \in Nat /\ 2 * Len(p) \in Nat /\ \A i \in 1..Len(p) : p[i] \in Builds
    OBVIOUS
  <2>2. ASSUME NEW i \in 1..2 * Len(p) PROVE (i + 1) \div 2 \in 1..Len(p)
    BY <2>1
  <2>3. \A i \in 1..2 * Len(p) :
          [what |-> IF i % 2 = 1 THEN "system" ELSE "apply", build |-> p[(i + 1) \div 2]] \in NodeRecord
    BY <2>1, <2>2 DEF NodeRecord
  <2>4. Nodes(p) \in [1..2 * Len(p) -> NodeRecord]
    BY <2>3 DEF Nodes
  <2> QED BY <2>1, <2>4
<1>2. ASSUME NEW n \in 1..2 * Len(p), Nodes(p)[n].what = "apply"
      PROVE  n - 1 \in 1..2 * Len(p) /\ Nodes(p)[n - 1].build = Nodes(p)[n].build
  <2>1. n % 2 # 1
    BY <1>2 DEF Nodes
  <2>2. n - 1 \in 1..2 * Len(p) /\ (n - 1 + 1) \div 2 = (n + 1) \div 2
    BY <1>1, <2>1
  <2> QED BY <2>2 DEF Nodes
<1> QED BY <1>1, <1>2 DEF FrameOK

(* Without a frame nothing is open.                                        *)
LEMMA NoFrameIs == FrameOK(NoFrame) /\ NoFrame.open = FALSE /\ NoFrame.logs = {}
BY DEF FrameOK, NoFrame
-----------------------------------------------------------------------------
(* A frame is opened by the loader or by code on top, and ends with it.    *)
Reframed(w, v) ==
  /\ v.loaded = w.loaded /\ v.build = w.build /\ v.failed = w.failed /\ v.running = w.running
  /\ v.state = w.state /\ v.transient = w.transient /\ v.plan = w.plan /\ v.session = w.session

(* An entry stands while what it looks at stays.                           *)
LEMMA StandsOf ==
  ASSUME NEW s, NEW w, NEW v, NEW i, Stands(s, i, w), v.loaded = w.loaded, v.build = w.build,
         IsCode(s[i]) => v.failed[s[i].mod] = w.failed[s[i].mod],
         v.state = w.state, v.transient = w.transient, v.plan = w.plan
  PROVE  Stands(s, i, v)
<1>1. \A m : In(m, v) <=> In(m, w)
  BY DEF In
<1>2. RunIn(v) = RunIn(w)
  BY DEF RunIn
<1>3. IsCode(s[i]) => CodeOK(s[i], v)
  BY <1>1 DEF Stands, CodeOK
<1>4. s[i].kind = "retiring" => BatchOK(s[i], v)
  <2>1. \A o : Handed(s[i], o, w) => Handed(s[i], o, v)
    BY DEF Handed
  <2> QED BY <1>1, <1>2, <2>1 DEF Stands, BatchOK
<1>5. s[i].kind = "loading" => LoadingOK(s[i], v)
  BY <1>1 DEF Stands, LoadingOK
<1> QED BY <1>1, <1>3, <1>4, <1>5 DEF Stands

(* Systems run on top of what holds a frame.                               *)
LEMMA NoSystems ==
  ASSUME NEW s, NEW w, StackOf(s, w), \A i \in 1..Len(s) - 1 : ~Holds(s[i])
  PROVE  \A i \in 1..Len(s) : s[i].kind # "system"
<1> SUFFICES ASSUME NEW i \in 1..Len(s), s[i].kind = "system" PROVE FALSE
  OBVIOUS
<1>1. s \in Seq(Entries) /\ Len(s) \in Nat /\ Sits(s, i)
  BY DEF StackOf
<1>2. i # 1 /\ Holds(s[i - 1])
  BY <1>1 DEF Sits, Starts, Follows, Leaves
<1>3. i - 1 \in 1..Len(s) - 1
  BY <1>1, <1>2
<1> QED BY <1>2, <1>3

(* The code on top takes the frame, or lets it go.                         *)
LEMMA Rehold ==
  ASSUME NEW s, NEW w, NEW v, Core(s, w), s # <<>>, NEW x, x = Last(s), IsCode(x), x.kind \notin Leaves,
         NEW y \in Entries, y.kind = x.kind, y.mod = x.mod, y.build = x.build, y.was = x.was,
         \A i \in 1..Len(s) - 1 : ~Holds(s[i]), FrameOK(v.frame), v.frame.open <=> y.holds, v.frame.logs = {},
         v.frame.open /\ w.session = "running" => v.frame.nodes = Nodes(PlanIn(w)), Reframed(w, v)
  PROVE  Core(Append(Front(s), y), v)
<1> DEFINE n == Len(s)
           t == Append(Front(s), y)
<1>1. /\ s \in Seq(Entries) /\ n \in Nat \ {0} /\ x = s[n] /\ Sits(s, n) /\ Stands(s, n, w) /\ n - 1 \in 0..n
      /\ Front(s) \in Seq(Entries) /\ Len(Front(s)) = n - 1 /\ Front(s) = SubSeq(s, 1, n - 1)
      /\ \A i \in 1..n - 1 : Front(s)[i] = s[i]
  BY AtTop, TopOf
<1>2. t \in Seq(Entries) /\ Len(t) = n /\ t[n] = y /\ \A i \in 1..n - 1 : t[i] = s[i]
  BY <1>1, Pushed
<1>3. StackOf(Front(s), v)
  <2>1. StackOf(Front(s), w)
    BY <1>1, CutStack DEF Core
  <2>2. \A i \in 1..n - 1 : Stands(Front(s), i, v)
    BY <1>1, <2>1, StandsOf DEF StackOf, Reframed
  <2> QED BY <1>1, <2>1, <2>2 DEF StackOf
<1> HIDE DEF n, t
<1>4. \A i \in 1..n : (i \in 1..n - 1 /\ t[i] = s[i]) \/ (i = n /\ t[i] = y /\ s[i] = x)
  BY <1>1, <1>2
<1>5. IsCode(y) /\ (Holds(y) <=> y.holds) /\ (Own(y) <=> Own(x)) /\ (Pumping(y) <=> Pumping(x))
  BY DEF IsCode, Holds, Own, Pumping, CodeKinds
<1>6. Sits(t, n)
  <2>1. Clear(s, n)
    BY <1>1 DEF Sits
  <2>2. \A j \in 1..n - 1 : t[j] = s[j]
    BY <1>2
  <2>3. /\ \A j \in 1..n - 1 : t[j].kind \in Taken => t[n].kind \in Leaves
        /\ t[n].kind \notin Leaves /\ t[n].kind \notin {"pump", "loading"}
    BY <1>1, <1>2, <2>1, <2>2 DEF Clear, IsCode, CodeKinds
  <2>4. Own(t[n]) => ~t[n].was /\ \A j \in 1..n - 1 : IsCode(t[j]) => t[j].mod # t[n].mod
    BY <1>1, <1>2, <1>5, <2>1, <2>2 DEF Clear
  <2>5. ASSUME Pumping(t[n])
        PROVE  \E j \in 1..n - 1 : /\ Own(t[j]) /\ t[j].mod = t[n].mod
                                   /\ \A k \in j + 1..n - 1 : Pumping(t[k]) /\ t[k].mod = t[n].mod
    <3>1. PICK j \in 1..n - 1 : /\ Own(s[j]) /\ s[j].mod = x.mod
                                /\ \A k \in j + 1..n - 1 : Pumping(s[k]) /\ s[k].mod = x.mod
      BY <1>1, <1>2, <1>5, <2>1, <2>5 DEF Clear
    <3>2. \A k \in j + 1..n - 1 : k \in 1..n - 1
      BY <1>1
    <3> QED BY <1>2, <2>2, <3>1, <3>2
  <2>6. Clear(t, n)
    BY <2>3, <2>4, <2>5 DEF Clear
  <2>7. IF n = 1 THEN Starts(t[n]) ELSE Follows(t[n - 1], t[n])
    <3>1. CASE n = 1
      BY <1>1, <1>2, <3>1 DEF Sits, Starts, IsCode, CodeKinds
    <3>2. CASE n # 1
      <4>1. n - 1 \in 1..n - 1
        BY <1>1, <3>2
      <4>2. Follows(s[n - 1], x)
        BY <1>1, <3>2 DEF Sits
      <4>3. Follows(s[n - 1], y)
        BY <4>2 DEF Follows, IsCode, CodeKinds
      <4> QED BY <1>2, <3>2, <4>1, <4>3
    <3> QED BY <3>1, <3>2
  <2> QED BY <2>6, <2>7 DEF Sits
<1>7. Stands(t, n, v)
  <2>1. Stands(s, n, v)
    BY <1>1, StandsOf DEF Reframed
  <2>2. CodeOK(y, v)
    BY <1>1, <2>1 DEF Stands, CodeOK
  <2>3. y.kind = "load" => Deps(y.build) \intersect ToSet(t[n - 1].todo) = {}
    <3> SUFFICES ASSUME y.kind = "load" PROVE Deps(y.build) \intersect ToSet(t[n - 1].todo) = {}
      OBVIOUS
    <3>1. n # 1
      BY <1>1 DEF Sits, Starts
    <3>2. n - 1 \in 1..n - 1
      BY <1>1, <3>1
    <3>3. Deps(s[n].build) \intersect ToSet(s[n - 1].todo) = {}
      BY <1>1, <2>1 DEF Stands
    <3> QED BY <1>1, <1>2, <3>2, <3>3
  <2> QED BY <1>2, <1>5, <2>2, <2>3 DEF Stands, IsCode, CodeKinds
<1>8. StackOf(t, v)
  <2>1. PICK l \in Nat : l = n /\ l = Len(Front(s)) + 1
    BY <1>1
  <2> QED BY <1>3, <1>6, <1>7, <2>1, PushStack DEF t
<1>9. RunOf(t, v)
  <2> SUFFICES ASSUME NEW m \in Names
               PROVE  v.running[m] <=> \E i \in 1..n : IsCode(t[i]) /\ t[i].mod = m
    BY <1>2 DEF RunOf
  <2>1. v.running[m] <=> \E i \in 1..n : IsCode(s[i]) /\ s[i].mod = m
    BY DEF Core, RunOf, Reframed, n
  <2>2. \A i \in 1..n : (IsCode(t[i]) <=> IsCode(s[i])) /\ (IsCode(s[i]) => t[i].mod = s[i].mod)
    BY <1>4, <1>5
  <2> QED BY <2>1, <2>2
<1>10. FrameOf(t, v)
  <2>1. \A i \in 1..n : s[i].kind # "system"
    BY NoSystems DEF Core, n
  <2>2. \A i \in 1..n : Holds(t[i]) => i = n
    BY <1>4 DEF n
  <2>3. v.frame.open <=> \E i \in 1..n : Holds(t[i])
    <3>1. n \in 1..n
      BY <1>1
    <3> QED BY <1>2, <1>5, <2>2, <3>1
  <2>4. \A i \in 1..n : t[i].kind # "system"
    BY <1>4, <2>1
  <2> QED BY <1>2, <2>2, <2>3, <2>4 DEF FrameOf
<1>11. StatesOf(t, v)
  <2> SUFFICES ASSUME NEW m \in ToSet(w.loaded), w.state[m] # w.build[m].schema
               PROVE  \E i \in 1..Len(t) : t[i].kind = "retiring" /\ \E o \in ToSet(t[i].batch) : o.mod = m
    BY DEF StatesOf, Reframed
  <2>1. PICK i \in 1..n : s[i].kind = "retiring" /\ \E o \in ToSet(s[i].batch) : o.mod = m
    BY DEF Core, StatesOf, n
  <2>2. t[i] = s[i]
    BY <1>4, <2>1 DEF IsCode, CodeKinds
  <2> QED BY <1>2, <2>1, <2>2
<1>12. ModsOK(v)
  BY DEF Core, ModsOK, Reframed
<1>13. SessionOf(t, v)
  <2>1. 1 \in 1..n /\ t[1].kind = s[1].kind /\ \A i \in 1..n : t[i].kind = s[i].kind
    BY <1>1, <1>4
  <2>2. RunIn(v) = RunIn(w) /\ PlanIn(v) = PlanIn(w)
    BY DEF RunIn, PlanIn, Reframed
  <2> QED BY <1>2, <2>1, <2>2 DEF Core, SessionOf, Reframed, n
<1> QED BY <1>8, <1>9, <1>10, <1>11, <1>12, <1>13 DEF Core, t
-----------------------------------------------------------------------------
(* A frame is opened on the running builds' plan.                          *)
LEMMA MayOpens ==
  ASSUME IInv, MayOpen, OpenFrame, UNCHANGED <<perMod, session>>
  PROVE  \E w : /\ Core(stack, w) /\ Reframed(w, World') /\ FrameOK(World'.frame) /\ World'.frame.open
                /\ World'.frame.logs = {} /\ World'.frame.nodes = Nodes(PlanIn(w))
                /\ \A i \in 1..Len(stack) : ~Holds(stack[i]) /\ stack[i].kind \notin Taken \union Leaves
<1>1. /\ InCode /\ ~Top.holds /\ ~frame.open /\ ~ListTaken
      /\ plan' = Plan /\ frame' = [nodes |-> Nodes(Plan), logs |-> {}, open |-> TRUE]
  BY DEF MayOpen, OpenFrame
<1>2. Core(stack, World) /\ stack # <<>> /\ stack \in Seq(Entries) /\ ModsOK(World) /\ FrameOf(stack, World)
  BY <1>1, OnCode
<1>3. /\ \A i \in 1..Len(stack) : stack[i].kind \notin Taken \union Leaves \union {"retiring"}
      /\ World.session = "running"
  BY <1>1, <1>2, ListIsThere, NothingTaken
<1>4. Plan = PlanIn(World)
  <2>1. PlanOf(loaded) = PlanIn(World)
    BY DEF PlanOf, PlanIn, World
  <2>2. plan # NoPlan => plan = PlanIn(World)
    <3>1. World.plan = plan
      BY DEF World
    <3> QED BY <1>2, <1>3, <3>1 DEF Core, SessionOf
  <2> QED BY <2>1, <2>2 DEF Plan
<1>5. PICK w : w = [loaded |-> loaded, build |-> build, failed |-> failed, running |-> running, state |-> state,
                    transient |-> transient, plan |-> PlanIn(World), frame |-> frame, session |-> session]
  OBVIOUS
<1>6. /\ w.loaded = World.loaded /\ w.build = World.build /\ w.failed = World.failed
      /\ w.running = World.running /\ w.state = World.state /\ w.transient = World.transient
      /\ w.frame = World.frame /\ w.session = World.session /\ w.plan = PlanIn(World)
  BY <1>5 DEF World
<1>7. Core(stack, w)
  BY <1>2, <1>3, <1>6, NewPlan
<1>8. PlanIn(w) = PlanIn(World)
  BY <1>6 DEF PlanIn
<1>9. Reframed(w, World') /\ World'.frame = [nodes |-> Nodes(PlanIn(w)), logs |-> {}, open |-> TRUE]
  BY <1>1, <1>4, <1>5, <1>8 DEF Reframed, World, perMod
<1>10. FrameOK(World'.frame)
  BY <1>2, <1>8, <1>9, PlanTyped, NodesAre
<1>11. \A i \in 1..Len(stack) : ~Holds(stack[i])
  BY <1>1, <1>2 DEF FrameOf, World
<1>12. World'.frame.open /\ World'.frame.logs = {} /\ World'.frame.nodes = Nodes(PlanIn(w))
  BY <1>9
<1> QED BY <1>3, <1>7, <1>9, <1>10, <1>11, <1>12

(* A scheduler begins a frame.                                             *)
LEMMA BeginKeeps ==
  ASSUME IInv, Begin
  PROVE  Core(stack', World')
<1> DEFINE x == Top
           y == [x EXCEPT !.holds = TRUE]
<1>1. /\ MayOpen /\ OpenFrame /\ UNCHANGED <<perMod, session>> /\ InCode /\ stack' = Append(Front(stack), y)
  BY DEF Begin, MayOpen
<1>2. PICK w : /\ Core(stack, w) /\ Reframed(w, World') /\ FrameOK(World'.frame) /\ World'.frame.open
               /\ World'.frame.logs = {} /\ World'.frame.nodes = Nodes(PlanIn(w))
               /\ \A i \in 1..Len(stack) : ~Holds(stack[i]) /\ stack[i].kind \notin Taken \union Leaves
  BY <1>1, MayOpens
<1>3. /\ stack # <<>> /\ x = Last(stack) /\ IsCode(x) /\ x \in CodeEntry /\ x = stack[Len(stack)]
      /\ Len(stack) \in 1..Len(stack)
  BY <1>1, OnCode
<1>4. y \in CodeEntry /\ y.kind = x.kind /\ y.mod = x.mod /\ y.build = x.build /\ y.was = x.was /\ y.holds = TRUE
  BY <1>3 DEF CodeEntry
<1>5. y \in Entries
  BY <1>4 DEF Entries, CodeEntry
<1> HIDE DEF x, y
<1>6. \A i \in 1..Len(stack) - 1 : ~Holds(stack[i])
  BY <1>2, <1>3
<1>7. x.kind \notin Leaves
  <2>1. stack[Len(stack)].kind \notin Taken \union Leaves
    BY <1>2, <1>3
  <2> QED BY <1>3, <2>1
<1> QED BY <1>1, <1>2, <1>3, <1>4, <1>5, <1>6, <1>7, Rehold

(* A frame ends: nothing that is left holds one, or is of one.             *)
LEMMA FrameEnds ==
  ASSUME NEW s, NEW w, NEW v, NEW k \in Nat, NEW t, Len(t) = k, \A i \in 1..k : t[i] = s[i],
         \A i \in 1..k : ~Holds(s[i]) /\ s[i].kind # "system", v.frame = NoFrame
  PROVE  FrameOf(t, v)
<1>1. FrameOK(v.frame) /\ ~v.frame.open /\ v.frame.logs = {}
  BY NoFrameIs
<1> QED BY <1>1 DEF FrameOf

(* When what is on top holds the frame, nothing else does, and no system   *)
(* is under way.                                                           *)
LEMMA HeldByTop ==
  ASSUME NEW s, NEW w, Core(s, w), s # <<>>, Holds(Last(s))
  PROVE  /\ \A i \in 1..Len(s) - 1 : ~Holds(s[i])
         /\ \A i \in 1..Len(s) : s[i].kind # "system" /\ w.frame.open
<1>1. s \in Seq(Entries) /\ Len(s) \in Nat \ {0} /\ Last(s) = s[Len(s)] /\ StackOf(s, w) /\ Len(s) \in 1..Len(s)
  BY AtTop DEF Core
<1>2. \A i \in 1..Len(s) - 1 : ~Holds(s[i])
  <2> SUFFICES ASSUME NEW i \in 1..Len(s) - 1, Holds(s[i]) PROVE FALSE
    OBVIOUS
  <2>1. i \in 1..Len(s) /\ i # Len(s)
    BY <1>1
  <2> QED BY <1>1, <2>1 DEF Core, FrameOf
<1>3. w.frame.open
  BY <1>1 DEF Core, FrameOf
<1> QED BY <1>1, <1>2, <1>3, NoSystems

(* A scheduler ends its frame.                                             *)
LEMMA EndFrameKeeps ==
  ASSUME IInv, EndFrame
  PROVE  Core(stack', World')
<1> DEFINE x == Top
           y == [x EXCEPT !.holds = FALSE]
<1>1. /\ InCode /\ x.holds /\ frame' = NoFrame /\ stack' = Append(Front(stack), y)
      /\ UNCHANGED <<loaded, build, failed, running, state, transient, plan, session>>
  BY DEF EndFrame, perMod
<1>2. /\ Core(stack, World) /\ stack # <<>> /\ x = Last(stack) /\ IsCode(x) /\ x \in CodeEntry /\ x = stack[Len(stack)]
      /\ Holds(x) /\ Sits(stack, Len(stack))
  BY <1>1, OnCode
<1>3. y \in CodeEntry /\ y.kind = x.kind /\ y.mod = x.mod /\ y.build = x.build /\ y.was = x.was /\ y.holds = FALSE
  BY <1>2 DEF CodeEntry
<1>4. y \in Entries
  BY <1>3 DEF Entries, CodeEntry
<1>5. x.kind \notin Leaves
  BY <1>1, <1>2 DEF Sits, Clear
<1>6. Reframed(World, World') /\ World'.frame = NoFrame
  BY <1>1 DEF Reframed, World
<1> HIDE DEF x, y
<1>7. \A i \in 1..Len(stack) - 1 : ~Holds(stack[i])
  BY <1>2, HeldByTop
<1>8. FrameOK(World'.frame) /\ World'.frame.open = FALSE /\ World'.frame.logs = {}
  BY <1>6, NoFrameIs
<1> QED BY <1>1, <1>2, <1>3, <1>4, <1>5, <1>6, <1>7, <1>8, Rehold
-----------------------------------------------------------------------------
(* The loader steps a frame of its own.                                    *)
LEMMA StepsFrame ==
  ASSUME NEW s, NEW w, NEW v, Core(s, w), s # <<>>, IsCode(Last(s)), NEW e \in Entries, e.kind = "stepping",
         \A i \in 1..Len(s) : ~Holds(s[i]) /\ s[i].kind \notin Taken \union Leaves,
         FrameOK(v.frame), v.frame.open, v.frame.logs = {}, v.frame.nodes = Nodes(PlanIn(w)), Reframed(w, v)
  PROVE  Core(Append(s, e), v)
<1> DEFINE n == Len(s)
           t == Append(s, e)
<1>1. /\ s \in Seq(Entries) /\ n \in Nat \ {0} /\ Last(s) = s[n] /\ n \in 1..n /\ StackOf(s, w)
      /\ t \in Seq(Entries) /\ Len(t) = n + 1 /\ t[n + 1] = e /\ \A i \in 1..n : t[i] = s[i]
  BY AtTop, Pushed DEF Core
<1>2. n + 1 # 1 /\ n + 1 - 1 = n
  BY <1>1
<1>3. StackOf(s, v)
  BY <1>1, StandsOf DEF StackOf, Reframed
<1> HIDE DEF n, t
<1>4. \A i \in 1..n + 1 : (i \in 1..n /\ t[i] = s[i]) \/ (i = n + 1 /\ t[i] = e)
  BY <1>1
<1>5. ~IsCode(e) /\ Holds(e)
  BY DEF IsCode, CodeKinds, Holds
<1>6. Sits(t, n + 1)
  <2>1. Follows(t[n], e)
    <3>1. ~Holds(s[n]) /\ s[n].kind \notin Leaves
      BY <1>1 DEF n
    <3> QED BY <1>1, <3>1 DEF Follows
  <2>2. \A j \in 1..n : t[j].kind \notin Taken
    BY <1>1 DEF n
  <2>3. Clear(t, n + 1)
    BY <1>1, <1>2, <1>5, <2>2 DEF Clear, Leaves, Own, Pumping
  <2> QED BY <1>1, <1>2, <2>1, <2>3 DEF Sits
<1>7. Stands(t, n + 1, v)
  BY <1>1, <1>5 DEF Stands
<1>8. StackOf(t, v)
  BY <1>3, <1>6, <1>7, PushStack DEF t, n
<1>9. RunOf(t, v)
  <2> SUFFICES ASSUME NEW m \in Names
               PROVE  v.running[m] <=> \E i \in 1..n + 1 : IsCode(t[i]) /\ t[i].mod = m
    BY <1>1 DEF RunOf
  <2>1. v.running[m] <=> \E i \in 1..n : IsCode(s[i]) /\ s[i].mod = m
    BY DEF Core, RunOf, Reframed, n
  <2>2. \A i \in 1..n : i \in 1..n + 1 /\ t[i] = s[i]
    BY <1>1
  <2> QED BY <1>4, <1>5, <2>1, <2>2
<1>10. FrameOf(t, v)
  <2>1. \A i \in 1..n : s[i].kind # "system"
    BY <1>1, NoSystems DEF n
  <2>2. \A i \in 1..n + 1 : Holds(t[i]) <=> i = n + 1
    BY <1>4, <1>5, <1>1 DEF n
  <2>3. v.frame.open <=> \E i \in 1..n + 1 : Holds(t[i])
    <3>1. n + 1 \in 1..n + 1
      BY <1>1
    <3> QED BY <2>2, <3>1
  <2>4. \A i \in 1..n + 1 : t[i].kind # "system"
    BY <1>4, <2>1
  <2> QED BY <1>1, <2>2, <2>3, <2>4 DEF FrameOf
<1>11. StatesOf(t, v)
  <2> SUFFICES ASSUME NEW m \in ToSet(w.loaded), w.state[m] # w.build[m].schema PROVE FALSE
    BY DEF StatesOf, Reframed
  <2>1. PICK i \in 1..n : s[i].kind = "retiring"
    BY DEF Core, StatesOf, n
  <2> QED BY <2>1 DEF n, Taken
<1>12. ModsOK(v)
  BY DEF Core, ModsOK, Reframed
<1>13. SessionOf(t, v)
  <2>1. 1 \in 1..n /\ t[1] = s[1]
    BY <1>1
  <2>2. RunIn(v) = RunIn(w) /\ PlanIn(v) = PlanIn(w)
    BY DEF RunIn, PlanIn, Reframed
  <2>3. \A i \in 1..n + 1 : t[i].kind # "closing"
    BY <1>4 DEF n, Taken
  <2>4. s # <<>> /\ s[1].kind # "closing"
    BY <1>1, <2>1, <2>3 DEF n, Taken
  <2> QED BY <1>1, <2>1, <2>2, <2>3, <2>4 DEF Core, SessionOf, Reframed, n
<1> QED BY <1>8, <1>9, <1>10, <1>11, <1>12, <1>13 DEF Core, t

(* The loader steps a frame.                                               *)
LEMMA StepModsKeeps ==
  ASSUME IInv, StepMods
  PROVE  Core(stack', World')
<1> DEFINE e == [kind |-> "stepping", next |-> 1]
<1>1. /\ MayOpen /\ OpenFrame /\ UNCHANGED <<perMod, session>> /\ InCode /\ stack' = Append(stack, e)
  BY DEF StepMods, MayOpen
<1>2. PICK w : /\ Core(stack, w) /\ Reframed(w, World') /\ FrameOK(World'.frame) /\ World'.frame.open
               /\ World'.frame.logs = {} /\ World'.frame.nodes = Nodes(PlanIn(w))
               /\ \A i \in 1..Len(stack) : ~Holds(stack[i]) /\ stack[i].kind \notin Taken \union Leaves
  BY <1>1, MayOpens
<1>3. stack # <<>> /\ IsCode(Last(stack))
  BY <1>1, OnCode
<1>4. e \in Entries /\ e.kind = "stepping"
  <2>1. e \in [kind : {"stepping"}, next : Nat]
    OBVIOUS
  <2> QED BY <2>1, EntryTypes
<1> HIDE DEF e
<1> QED BY <1>1, <1>2, <1>3, <1>4, StepsFrame

(* The frame is of those that are left, if none that held it is gone.      *)
LEMMA FrameCut ==
  ASSUME NEW s, NEW w, FrameOf(s, w), NEW k \in Nat, NEW t, Len(t) = k, k <= Len(s), Len(s) \in Nat,
         \A i \in 1..k : t[i] = s[i], \A i \in k + 1..Len(s) : ~Holds(s[i])
  PROVE  FrameOf(t, w)
<1>1. \A i \in 1..k : i \in 1..Len(s) /\ t[i] = s[i]
  OBVIOUS
<1>2. \A i \in 1..Len(s) : (i \in 1..k /\ t[i] = s[i]) \/ i \in k + 1..Len(s)
  OBVIOUS
<1>3. w.frame.open <=> \E i \in 1..k : Holds(t[i])
  BY <1>1, <1>2 DEF FrameOf
<1>4. \A i, j \in 1..k : Holds(t[i]) /\ Holds(t[j]) => i = j
  BY <1>1 DEF FrameOf
<1>5. \A i \in 1..k : t[i].kind = "system" =>
        t[i].node \in DOMAIN w.frame.nodes /\ w.frame.nodes[t[i].node].build.mod = t[i].mod
  BY <1>1 DEF FrameOf
<1>6. ASSUME NEW h \in 1..k, Holds(t[h]), NEW l \in 1..h, IsCode(t[l]), NEW n \in w.frame.logs
      PROVE  t[l].mod # w.frame.nodes[n].build.mod
  <2>1. h \in 1..Len(s) /\ t[h] = s[h] /\ l \in 1..k
    BY <1>1
  <2>2. t[l] = s[l]
    BY <1>1, <2>1
  <2> QED BY <1>6, <2>1, <2>2 DEF FrameOf
<1> QED BY <1>3, <1>4, <1>5, <1>6 DEF FrameOf

(* Entries of a mod's code, and of its pumps, are gone from the top.       *)
Pops(s, w, v, k, t, m) ==
  /\ k \in Nat /\ k < Len(s) /\ t = SubSeq(s, 1, k) /\ m \in Names
  /\ \A i \in k + 1..Len(s) : (IsCode(s[i]) /\ s[i].mod = m) \/ s[i].kind \in {"pump", "stepping"}
  /\ v.loaded = w.loaded /\ v.build = w.build /\ v.state = w.state /\ v.transient = w.transient /\ v.plan = w.plan
  /\ v.failed \in [Names -> BOOLEAN] /\ v.running \in [Names -> BOOLEAN]
  /\ \A l \in Names : l # m => v.failed[l] = w.failed[l] /\ v.running[l] = w.running[l]
  /\ \/ ~v.running[m] /\ \A i \in 1..k : IsCode(s[i]) => s[i].mod # m
     \/ v.running[m] /\ (\E i \in 1..k : IsCode(s[i]) /\ s[i].mod = m) /\ v.failed = w.failed
  /\ FrameOf(t, v) /\ (v.frame.open => w.frame.open /\ v.frame.nodes = w.frame.nodes)
  /\ v.session = w.session \/ (v.session = "ending" /\ k = 0)

(* What is left when a mod's code, and its pumps, are gone from the top.   *)
LEMMA PopCode ==
  ASSUME NEW s, NEW w, NEW v, Core(s, w), NEW k, NEW t, NEW m, Pops(s, w, v, k, t, m)
  PROVE  Core(t, v)
<1> USE DEF Pops
<1>1. /\ s \in Seq(Entries) /\ t \in Seq(Entries) /\ Len(s) \in Nat /\ k \in 0..Len(s) /\ Len(t) = k
      /\ \A i \in 1..k : t[i] = s[i] /\ i \in 1..Len(s)
  BY CutOff DEF Core, StackOf
<1>2. \A i \in 1..Len(s) : (i \in 1..k /\ t[i] = s[i]) \/ i \in k + 1..Len(s)
  BY <1>1
<1>3. StackOf(t, v)
  <2>1. StackOf(t, w)
    BY <1>1, CutStack DEF Core
  <2> SUFFICES ASSUME NEW i \in 1..k PROVE Stands(t, i, v)
    BY <1>1, <2>1 DEF StackOf
  <2>2. Stands(t, i, w) /\ t[i] \in Entries /\ t[i] = s[i]
    BY <1>1, <2>1 DEF StackOf
  <2>3. ASSUME IsCode(t[i]) PROVE v.failed[t[i].mod] = w.failed[t[i].mod]
    <3>1. t[i].mod \in Names
      BY <2>2, <2>3, EntryTypes DEF CodeEntry
    <3> QED BY <2>2, <2>3, <3>1
  <2> QED BY <2>2, <2>3, StandsOf
<1>4. RunOf(t, v)
  <2> SUFFICES ASSUME NEW l \in Names
               PROVE  v.running[l] <=> \E i \in 1..k : IsCode(t[i]) /\ t[i].mod = l
    BY <1>1 DEF RunOf
  <2>1. CASE l = m
    BY <1>1, <2>1
  <2>2. CASE l # m
    <3>1. v.running[l] <=> \E i \in 1..Len(s) : IsCode(s[i]) /\ s[i].mod = l
      BY <2>2 DEF Core, RunOf
    <3>2. \A i \in k + 1..Len(s) : ~(IsCode(s[i]) /\ s[i].mod = l)
      BY <2>2 DEF IsCode, CodeKinds
    <3> QED BY <1>1, <1>2, <3>1, <3>2
  <2> QED BY <2>1, <2>2
<1>5. StatesOf(t, v)
  <2> SUFFICES ASSUME NEW l \in ToSet(w.loaded), w.state[l] # w.build[l].schema
               PROVE  \E i \in 1..Len(t) : t[i].kind = "retiring" /\ \E o \in ToSet(t[i].batch) : o.mod = l
    BY DEF StatesOf
  <2>1. PICK i \in 1..Len(s) : s[i].kind = "retiring" /\ \E o \in ToSet(s[i].batch) : o.mod = l
    BY DEF Core, StatesOf
  <2>2. i \notin k + 1..Len(s)
    BY <2>1 DEF IsCode, CodeKinds
  <2> QED BY <1>1, <1>2, <2>1, <2>2
<1>6. ModsOK(v)
  BY DEF Core, ModsOK
<1>7. SessionOf(t, v)
  <2>1. RunIn(v) = RunIn(w) /\ PlanIn(v) = PlanIn(w)
    BY DEF RunIn, PlanIn
  <2>2. s # <<>> /\ (t # <<>> => t[1] = s[1])
    BY <1>1
  <2>3. \A i \in 1..k : t[i] = s[i] /\ i \in 1..Len(s)
    BY <1>1
  <2>4. k = 0 => t = <<>>
    BY <1>1
  <2>5. CASE v.session = w.session
    BY <1>1, <2>1, <2>2, <2>3, <2>5 DEF Core, SessionOf
  <2>6. CASE v.session = "ending" /\ k = 0
    BY <1>1, <2>4, <2>6 DEF SessionOf
  <2> QED BY <2>5, <2>6
<1> QED BY <1>3, <1>4, <1>5, <1>6, <1>7 DEF Core
-----------------------------------------------------------------------------
(* The loader's frame is stepped.                                          *)
LEMMA SteppedKeeps ==
  ASSUME IInv, Stepped
  PROVE  Core(stack', World')
<1> DEFINE n == Len(stack)
           t == Front(stack)
           m == stack[n - 1].mod
<1>1. /\ stack # <<>> /\ Top.kind = "stepping" /\ frame' = NoFrame /\ stack' = t
      /\ UNCHANGED <<loaded, build, failed, running, state, transient, plan, session>>
  BY DEF Stepped, OnTop, perMod
<1>2. /\ Core(stack, World) /\ stack \in Seq(Entries) /\ n \in Nat \ {0} /\ Top = stack[n] /\ Top = Last(stack)
      /\ Sits(stack, n) /\ ModsOK(World) /\ RunOf(stack, World) /\ StackOf(stack, World)
  BY <1>1, AtTop DEF IInv, Top, Core
<1>3. t = SubSeq(stack, 1, n - 1) /\ Len(t) = n - 1 /\ \A i \in 1..n - 1 : t[i] = stack[i]
  BY <1>1, <1>2, TopOf
<1>4. n # 1 /\ IsCode(stack[n - 1])
  BY <1>1, <1>2 DEF Sits, Starts, Follows, Leaves
<1> HIDE DEF n, t
<1>5. n - 1 \in Nat /\ n - 1 < n /\ n - 1 \in 1..n - 1 /\ n - 1 \in 1..n
  BY <1>2, <1>4
<1>6. m \in Names /\ World.running[m]
  <2>1. stack[n - 1] \in Entries
    BY <1>2, <1>5 DEF n
  <2>2. m \in Names
    BY <1>4, <2>1, EntryTypes DEF CodeEntry
  <2> QED BY <1>2, <1>4, <1>5, <2>2 DEF RunOf, n
<1>7. Holds(Last(stack))
  BY <1>1, <1>2 DEF Holds
<1>8. \A i \in 1..n - 1 : ~Holds(stack[i]) /\ stack[i].kind # "system"
  <2>1. \A i \in 1..n - 1 : i \in 1..n
    BY <1>2
  <2> QED BY <1>1, <1>2, <1>7, <2>1, HeldByTop DEF n
<1>9. /\ World'.loaded = World.loaded /\ World'.build = World.build /\ World'.failed = World.failed
      /\ World'.running = World.running /\ World'.state = World.state /\ World'.transient = World.transient
      /\ World'.plan = World.plan /\ World'.session = World.session /\ World'.frame = NoFrame
  BY <1>1 DEF World
<1>10. FrameOf(t, World')
  BY <1>3, <1>5, <1>8, <1>9, FrameEnds
<1>11. \A i \in n - 1 + 1..n : stack[i].kind \in {"pump", "stepping"}
  <2>1. \A i \in n - 1 + 1..n : i = n
    BY <1>2
  <2> QED BY <1>1, <1>2, <2>1
<1>12. World'.failed \in [Names -> BOOLEAN] /\ World'.running \in [Names -> BOOLEAN]
  BY <1>2, <1>9 DEF ModsOK
<1>13. World'.running[m] /\ \E i \in 1..n - 1 : IsCode(stack[i]) /\ stack[i].mod = m
  BY <1>4, <1>5, <1>6, <1>9
<1> HIDE DEF m
<1>14. ~World'.frame.open
  BY <1>9, NoFrameIs
<1>15. Core(t, World')
  <2>1. n - 1 < Len(stack) /\ \A i \in n - 1 + 1..Len(stack) : stack[i].kind \in {"pump", "stepping"}
    BY <1>5, <1>11 DEF n
  <2> QED BY <1>2, <1>3, <1>5, <1>6, <1>9, <1>10, <1>12, <1>13, <1>14, <2>1, PopCode DEF Pops
<1> QED BY <1>1, <1>15

(* A mod's last hook has dropped its state.                                *)
LEMMA Drops ==
  ASSUME NEW t, NEW w, NEW v, Core(t, w), t # <<>>, NEW e, e = Last(t), NEW m \in Names, ~w.running[m],
         \/ e.kind \in {"unloading", "closing"} /\ e.mod = m
         \/ e.kind = "retiring" /\ e.todo # <<>> /\ e.told = "close" /\ Head(e.todo).mod = m,
         v.loaded = w.loaded, v.build = w.build, v.failed = w.failed, v.running = w.running,
         v.transient = w.transient, v.plan = w.plan, v.frame = w.frame, v.session = w.session,
         v.state = [w.state EXCEPT ![m] = Dropped]
  PROVE  Core(t, v)
<1> DEFINE n == Len(t)
<1>1. /\ t \in Seq(Entries) /\ n \in Nat \ {0} /\ e = t[n] /\ e \in Entries /\ Stands(t, n, w) /\ n \in 1..n
      /\ StackOf(t, w) /\ RunOf(t, w) /\ ModsOK(w)
  BY AtTop DEF Core
<1>2. /\ v.state \in [Names -> {b.schema : b \in Builds} \union {NoState, Dropped}]
      /\ \A l \in Names : l # m => v.state[l] = w.state[l]
  <2>1. w.state \in [Names -> {b.schema : b \in Builds} \union {NoState, Dropped}]
    BY <1>1 DEF ModsOK
  <2> QED BY <2>1
<1>3. \A i \in 1..n : IsCode(t[i]) => t[i].mod # m
  BY <1>1, NotRunning
<1> HIDE DEF n
<1>4. \A i \in 1..n : t[i].kind = "retiring" => i = n
  <2> SUFFICES ASSUME NEW i \in 1..n, t[i].kind = "retiring", i # n PROVE FALSE
    OBVIOUS
  <2>1. i < Len(t) /\ t[i].kind \in Taken
    BY <1>1 DEF n, Taken
  <2>2. t[Len(t)].kind \in Leaves
    BY <1>1, <2>1, LastHooks DEF n
  <2> QED BY <1>1, <2>2 DEF Leaves, n
<1>5. RunIn(v) = RunIn(w) /\ PlanIn(v) = PlanIn(w) /\ \A l : In(l, v) <=> In(l, w)
  BY DEF RunIn, PlanIn, In
<1>6. ASSUME e.kind = "retiring"
      PROVE  BatchOK(e, v) /\ \E o \in ToSet(e.batch) : o.mod = m
  <2>1. BatchOK(e, w) /\ e \in RetiringEntry /\ e.told = "close"
    BY <1>1, <1>6, EntryTypes DEF Stands
  <2> DEFINE h == Head(e.todo)
  <2>2. h \in ToSet(e.todo) /\ h \in ToSet(e.batch) /\ h.mod = m /\ e.batch \in Seq(Builds) /\ Distinct(e.batch)
    <3>1. h \in ToSet(e.todo)
      BY <1>6, <2>1, FirstOfTail DEF BatchOK, RetiringEntry
    <3> QED BY <1>6, <2>1, <3>1 DEF BatchOK, RetiringEntry
  <2> HIDE DEF h
  <2>3. ASSUME NEW o \in ToSet(e.batch), In(o.mod, w) PROVE ~v.build[o.mod].resident /\ Handed(e, o, v)
    <3>1. ~w.build[o.mod].resident /\ Handed(e, o, w) /\ o.mod \in Names
      BY <1>1, <2>1, <2>3, ModsAre DEF BatchOK
    <3>2. CASE o = h
      BY <2>1, <2>2, <3>1, <3>2 DEF Handed, h, None
    <3>3. CASE o # h
      <4>1. o.mod # m
        BY <2>2, <3>3, OneOfAName
      <4>2. v.state[o.mod] = w.state[o.mod]
        BY <1>2, <3>1, <4>1
      <4> QED BY <3>1, <4>2 DEF Handed
    <3> QED BY <3>2, <3>3
  <2>4. BatchOK(e, v)
    BY <1>5, <2>1, <2>3 DEF BatchOK
  <2> QED BY <2>2, <2>4
<1>7. StackOf(t, v)
  <2> SUFFICES ASSUME NEW i \in 1..n PROVE Stands(t, i, v)
    BY <1>1 DEF StackOf, n
  <2>1. Stands(t, i, w) /\ t[i] \in Entries
    BY <1>1 DEF StackOf, n
  <2>2. ASSUME IsCode(t[i]) PROVE CodeOK(t[i], v)
    <3>1. t[i].mod \in Names /\ t[i].mod # m
      BY <1>3, <2>1, <2>2, EntryTypes DEF CodeEntry
    <3>2. v.state[t[i].mod] = w.state[t[i].mod]
      BY <1>2, <3>1
    <3> QED BY <1>5, <2>1, <2>2, <3>2 DEF Stands, CodeOK
  <2>3. t[i].kind = "retiring" => BatchOK(t[i], v)
    BY <1>1, <1>4, <1>6
  <2>4. t[i].kind = "loading" => LoadingOK(t[i], v)
    BY <1>5, <2>1 DEF Stands, LoadingOK
  <2> QED BY <1>5, <2>1, <2>2, <2>3, <2>4 DEF Stands
<1>8. StatesOf(t, v)
  <2> SUFFICES ASSUME NEW l \in ToSet(w.loaded), v.state[l] # w.build[l].schema
               PROVE  \E i \in 1..n : t[i].kind = "retiring" /\ \E o \in ToSet(t[i].batch) : o.mod = l
    BY DEF StatesOf, n
  <2>1. l \in Names /\ In(l, w)
    BY <1>1, ModsAre DEF In
  <2>2. CASE l = m
    <3>1. e.kind = "retiring"
      BY <1>1, <2>1, <2>2 DEF Stands
    <3> QED BY <1>1, <1>6, <2>2, <3>1
  <2>3. CASE l # m
    BY <1>2, <2>1, <2>3 DEF Core, StatesOf, n
  <2> QED BY <2>2, <2>3
<1>9. ModsOK(v)
  BY <1>2 DEF Core, ModsOK
<1>10. SessionOf(t, v)
  BY <1>5 DEF Core, SessionOf
<1>11. RunOf(t, v) /\ FrameOf(t, v)
  BY DEF Core, RunOf, FrameOf
<1> QED BY <1>7, <1>8, <1>9, <1>10, <1>11 DEF Core
-----------------------------------------------------------------------------
(* A system's log waits in the frame for its apply node.                   *)
LEMMA AddsLog ==
  ASSUME NEW t, NEW w, NEW v, FrameOf(t, w), NEW j \in DOMAIN w.frame.nodes,
         \A i \in 1..Len(t) : IsCode(t[i]) => t[i].mod # w.frame.nodes[j].build.mod,
         v.frame = [w.frame EXCEPT !.logs = @ \union {j}], Len(t) \in Nat
  PROVE  FrameOf(t, v) /\ v.frame.open = w.frame.open /\ v.frame.nodes = w.frame.nodes
<1>1. w.frame \in [nodes : Seq(NodeRecord), logs : SUBSET Nat, open : BOOLEAN] /\ FrameOK(w.frame)
  BY DEF FrameOf, FrameOK
<1>2. /\ v.frame.nodes = w.frame.nodes /\ v.frame.open = w.frame.open /\ v.frame.logs = w.frame.logs \union {j}
      /\ j \in Nat /\ v.frame \in [nodes : Seq(NodeRecord), logs : SUBSET Nat, open : BOOLEAN]
  BY <1>1
<1>3. FrameOK(v.frame)
  BY <1>1, <1>2 DEF FrameOK
<1>4. ASSUME NEW h \in 1..Len(t), Holds(t[h]), NEW l \in 1..h, IsCode(t[l]), NEW n \in v.frame.logs
      PROVE  t[l].mod # v.frame.nodes[n].build.mod
  <2>1. CASE n \in w.frame.logs
    BY <1>2, <1>4, <2>1 DEF FrameOf
  <2>2. CASE n = j
    <3>1. l \in 1..Len(t)
      OBVIOUS
    <3> QED BY <1>2, <1>4, <2>2, <3>1
  <2> QED BY <1>2, <2>1, <2>2
<1> QED BY <1>2, <1>3, <1>4 DEF FrameOf

(* A mod's code comes back.                                                *)
LEMMA ReturnKeeps ==
  ASSUME IInv, Return
  PROVE  Core(stack', World')
<1> DEFINE n == Len(stack)
           x == Top
           m == Top.mod
           t == Front(stack)
<1>1. /\ InCode /\ ~x.holds /\ stack' = t /\ UNCHANGED <<loaded, build, failed, transient, plan>>
      /\ IF x.kind = "handler" THEN running' = running ELSE Leave(x)
      /\ state' = IF x.kind = "close" THEN [state EXCEPT ![m] = Dropped] ELSE state
      /\ frame' = IF x.kind = "system" THEN [frame EXCEPT !.logs = @ \union {x.node}] ELSE frame
      /\ session' = IF x.kind = "run" THEN "ending" ELSE session
  BY DEF Return, Ends
<1>2. /\ Core(stack, World) /\ stack # <<>> /\ stack \in Seq(Entries) /\ n \in Nat \ {0}
      /\ x = stack[n] /\ x = Last(stack) /\ IsCode(x) /\ x \in CodeEntry /\ Sits(stack, n)
      /\ StackOf(stack, World) /\ ModsOK(World) /\ RunOf(stack, World) /\ FrameOf(stack, World)
      /\ m \in Names /\ n \in 1..n /\ ~Holds(x)
  BY <1>1, OnCode
<1>3. /\ t = SubSeq(stack, 1, n - 1) /\ Len(t) = n - 1 /\ n - 1 \in Nat /\ n - 1 < n /\ n - 1 <= n
      /\ \A i \in 1..n - 1 : t[i] = stack[i] /\ i \in 1..n
  BY <1>2, TopOf
<1>4. \A i \in n - 1 + 1..n : i = n
  BY <1>2
<1>5. /\ running' \in [Names -> BOOLEAN]
      /\ \A l \in Names : l # m => running'[l] = running[l]
      /\ (x.kind = "handler" => running' = running) /\ (x.kind # "handler" => running'[m] = FALSE)
  <2>1. running \in [Names -> BOOLEAN]
    BY <1>2 DEF ModsOK, World
  <2>2. CASE x.kind = "handler"
    BY <1>1, <2>1, <2>2
  <2>3. CASE x.kind # "handler"
    <3>1. Own(x) /\ x.was = FALSE
      <4>1. Own(x)
        BY <1>2, <2>3 DEF Own
      <4> QED BY <1>2, <4>1 DEF Sits, Clear, CodeEntry
    <3>2. running' = [running EXCEPT ![m] = x.kind \notin {"serve", "run"} /\ x.was]
      BY <1>1, <2>3 DEF Leave
    <3>3. running' = [running EXCEPT ![m] = FALSE]
      BY <3>1, <3>2
    <3> QED BY <1>2, <2>1, <2>3, <3>3
  <2> QED BY <2>2, <2>3
<1>6. PICK w : w = [loaded |-> loaded, build |-> build, failed |-> failed, running |-> running', state |-> state,
                    transient |-> transient, plan |-> plan, frame |-> frame', session |-> session']
  OBVIOUS
<1>7. /\ w.loaded = World.loaded /\ w.build = World.build /\ w.failed = World.failed /\ w.state = World.state
      /\ w.transient = World.transient /\ w.plan = World.plan
      /\ w.running = running' /\ w.frame = frame' /\ w.session = session'
      /\ World.running = running /\ World.frame = frame /\ World.session = session
  BY <1>6 DEF World
<1> HIDE DEF n, t, x, m
<1>7a. (x.kind # "handler" => w.running[m] = FALSE) /\ (x.kind = "handler" => w.running = World.running)
  <2>1. w.running = running' /\ World.running = running
    BY <1>7
  <2>2. x.kind # "handler" => w.running[m] = FALSE
    BY <1>5, <2>1, Zenon
  <2>3. x.kind = "handler" => w.running = World.running
    BY <1>5, <2>1, Zenon
  <2> QED BY <2>2, <2>3
<1>8. \/ ~w.running[m] /\ \A i \in 1..n - 1 : IsCode(stack[i]) => stack[i].mod # m
      \/ w.running[m] /\ (\E i \in 1..n - 1 : IsCode(stack[i]) /\ stack[i].mod = m) /\ w.failed = World.failed
  <2>1. CASE x.kind = "handler"
    <3>1. Pumping(x)
      <4>1. m # None
        BY <1>2, GamesAssumption DEF None
      <4> QED BY <2>1, <4>1 DEF Pumping, m, x
    <3>2. PICK j \in 1..n - 1 : Own(stack[j]) /\ stack[j].mod = m
      BY <1>2, <3>1 DEF Sits, Clear, m, x
    <3>3. World.running[m]
      BY <1>2, <1>3, <3>2 DEF RunOf, Own, n
    <3>4. w.running[m] /\ w.failed = World.failed
      BY <1>7, <1>7a, <2>1, <3>3
    <3> QED BY <3>2, <3>4 DEF Own
  <2>2. CASE x.kind # "handler"
    <3>1. \A i \in 1..n - 1 : IsCode(stack[i]) => stack[i].mod # m
      BY <1>2, <2>2 DEF Sits, Clear, Own, m, x
    <3> QED BY <1>7a, <2>2, <3>1
  <2> QED BY <2>1, <2>2
<1>9. FrameOf(t, w) /\ (w.frame.open => World.frame.open /\ w.frame.nodes = World.frame.nodes)
  <2>1. FrameOf(t, World)
    <3>1. \A i \in n - 1 + 1..n : ~Holds(stack[i])
      BY <1>2, <1>4
    <3> QED BY <1>2, <1>3, <3>1, FrameCut DEF n
  <2>2. CASE x.kind # "system"
    <3>1. w.frame = World.frame
      BY <1>1, <1>7, <2>2
    <3> QED BY <2>1, <3>1 DEF FrameOf
  <2>3. CASE x.kind = "system"
    <3>1. x.node \in DOMAIN World.frame.nodes /\ World.frame.nodes[x.node].build.mod = m
      BY <1>2, <2>3 DEF FrameOf, m, x, n
    <3>2. \A i \in 1..Len(t) : IsCode(t[i]) => t[i].mod # m
      BY <1>2, <1>3, <2>3 DEF Sits, Clear, Own, m, x
    <3>3. w.frame = [World.frame EXCEPT !.logs = @ \union {x.node}]
      BY <1>1, <1>7, <2>3
    <3>4. Len(t) \in Nat
      BY <1>3
    <3> QED BY <2>1, <3>1, <3>2, <3>3, <3>4, AddsLog
  <2> QED BY <2>2, <2>3
<1>10. w.session = World.session \/ (w.session = "ending" /\ n - 1 = 0)
  <2>1. ASSUME x.kind = "run" PROVE n = 1
    BY <1>2, <2>1 DEF Sits, Follows, Leaves, CodeKinds
  <2> QED BY <1>1, <1>2, <1>7, <2>1
<1>11. Core(t, w)
  <2>1. \A i \in n - 1 + 1..n : (IsCode(stack[i]) /\ stack[i].mod = m) \/ stack[i].kind \in {"pump", "stepping"}
    BY <1>2, <1>4 DEF m, x
  <2>2. w.failed \in [Names -> BOOLEAN] /\ w.running \in [Names -> BOOLEAN]
    BY <1>2, <1>5, <1>7 DEF ModsOK
  <2>3. \A l \in Names : l # m => w.failed[l] = World.failed[l] /\ w.running[l] = World.running[l]
    BY <1>5, <1>7
  <2>4. /\ w.loaded = World.loaded /\ w.build = World.build /\ w.state = World.state
        /\ w.transient = World.transient /\ w.plan = World.plan
    BY <1>7
  <2>5. /\ n - 1 \in Nat /\ n - 1 < Len(stack) /\ t = SubSeq(stack, 1, n - 1) /\ m \in Names
        /\ \A i \in n - 1 + 1..Len(stack) : (IsCode(stack[i]) /\ stack[i].mod = m) \/ stack[i].kind \in {"pump", "stepping"}
    BY <1>2, <1>3, <2>1 DEF n
  <2>6. Core(stack, World)
    BY <1>2
  <2>7. PICK k \in Nat : k = n - 1
    BY <1>3
  <2>8. /\ k < Len(stack) /\ t = SubSeq(stack, 1, k)
        /\ \A i \in k + 1..Len(stack) : (IsCode(stack[i]) /\ stack[i].mod = m) \/ stack[i].kind \in {"pump", "stepping"}
    BY <2>5, <2>7
  <2>9. \/ ~w.running[m] /\ \A i \in 1..k : IsCode(stack[i]) => stack[i].mod # m
        \/ w.running[m] /\ (\E i \in 1..k : IsCode(stack[i]) /\ stack[i].mod = m) /\ w.failed = World.failed
    BY <1>8, <2>7
  <2>10. w.session = World.session \/ (w.session = "ending" /\ k = 0)
    BY <1>10, <2>7
  <2>11. m \in Names
    BY <1>2
  <2>12. Pops(stack, World, w, k, t, m)
    BY <1>9, <2>2, <2>3, <2>4, <2>8, <2>9, <2>10, <2>11 DEF Pops
  <2> QED BY <2>6, <2>12, PopCode
<1>12. /\ World'.loaded = w.loaded /\ World'.build = w.build /\ World'.failed = w.failed
       /\ World'.transient = w.transient /\ World'.plan = w.plan
       /\ World'.running = w.running /\ World'.frame = w.frame /\ World'.session = w.session
       /\ World'.state = state' /\ w.state = state
  BY <1>1, <1>6 DEF World
<1>13. CASE x.kind # "close"
  <2>1. World' = w
    BY <1>1, <1>6, <1>13 DEF World
  <2> QED BY <1>1, <1>11, <2>1
<1>14. CASE x.kind = "close"
  <2>1. n # 1
    BY <1>2, <1>14 DEF Sits, Starts
  <2>2. Follows(stack[n - 1], x) /\ n - 1 \in 1..n - 1
    BY <1>2, <2>1 DEF Sits
  <2>3. \/ stack[n - 1].kind \in {"unloading", "closing"} /\ stack[n - 1].mod = m
        \/ /\ stack[n - 1].kind = "retiring" /\ stack[n - 1].todo # <<>> /\ stack[n - 1].told = "close"
           /\ Head(stack[n - 1].todo).mod = m
    BY <1>14, <2>2 DEF Follows, m, x
  <2>4. t # <<>> /\ Last(t) = stack[n - 1]
    <3>1. t \in Seq(Entries) /\ t # <<>>
      <4>1. t \in Seq(Entries)
        BY <1>2, TopOf DEF t
      <4> QED BY <1>2, <1>3, <2>2, <4>1
    <3>2. Last(t) = t[n - 1]
      BY <1>3, <3>1, TopOf
    <3> QED BY <1>3, <2>2, <3>1, <3>2
  <2>5. ~w.running[m]
    BY <1>7a, <1>14
  <2>6. World'.state = [w.state EXCEPT ![m] = Dropped]
    BY <1>1, <1>12, <1>14
  <2>7. Core(t, World')
    BY <1>2, <1>11, <1>12, <2>3, <2>4, <2>5, <2>6, Drops
  <2> QED BY <1>1, <2>7
<1> QED BY <1>13, <1>14
-----------------------------------------------------------------------------
(* A panic is caught by the code that is a mod's own, past its pumps.      *)
LEMMA CaughtIs ==
  ASSUME IInv, InCode
  PROVE  /\ Caught \in 1..Len(stack) /\ Own(stack[Caught])
         /\ \A i \in Caught + 1..Len(stack) : Pumping(stack[i]) /\ stack[i].mod = stack[Caught].mod
<1> DEFINE n == Len(stack)
<1>1. /\ stack \in Seq(Entries) /\ n \in Nat \ {0} /\ Top = stack[n] /\ IsCode(Top) /\ Sits(stack, n)
      /\ Top.mod \in Names /\ n \in 1..n /\ DOMAIN stack = 1..n
  BY OnCode
<1> HIDE DEF n
<1>2. PICK c \in 1..n : /\ Own(stack[c])
                        /\ \A i \in c + 1..n : Pumping(stack[i]) /\ stack[i].mod = stack[c].mod
  <2>1. CASE Own(Top)
    <3>1. \A i \in n + 1..n : FALSE
      BY <1>1
    <3> QED BY <1>1, <2>1, <3>1
  <2>2. CASE ~Own(Top)
    <3>1. Pumping(Top)
      <4>1. Top.kind = "handler" /\ Top.mod # None
        BY <1>1, <2>2, GamesAssumption DEF Own, None
      <4> QED BY <4>1 DEF Pumping
    <3>2. PICK j \in 1..n - 1 :
             /\ Own(stack[j]) /\ stack[j].mod = Top.mod
             /\ \A i \in j + 1..n - 1 : Pumping(stack[i]) /\ stack[i].mod = Top.mod
      BY <1>1, <3>1 DEF Sits, Clear
    <3>3. \A i \in j + 1..n : i \in j + 1..n - 1 \/ i = n
      BY <1>1
    <3>4. j \in 1..n
      BY <1>1
    <3> QED BY <1>1, <3>1, <3>2, <3>3, <3>4
  <2> QED BY <2>1, <2>2
<1> DEFINE P(i) == /\ stack[i].kind \in CodeKinds \ {"handler"}
                   /\ \A j \in i + 1..n : stack[j].kind \in {"handler", "pump"}
<1>3. P(c)
  BY <1>2 DEF Own, IsCode, Pumping
<1>4. \A i \in 1..n : P(i) => i = c
  <2> SUFFICES ASSUME NEW i \in 1..n, P(i), i # c PROVE FALSE
    OBVIOUS
  <2>1. CASE i < c
    <3>1. c \in i + 1..n
      BY <1>1, <2>1
    <3> QED BY <1>2, <3>1 DEF Own, IsCode, CodeKinds
  <2>2. CASE c < i
    <3>1. i \in c + 1..n
      BY <1>1, <2>2
    <3> QED BY <1>2, <3>1 DEF Pumping, CodeKinds
  <2> QED BY <1>1, <2>1, <2>2
<1>5. Caught = CHOOSE i \in 1..n : P(i)
  BY <1>1 DEF Caught, n
<1> HIDE DEF P
<1>6. Caught = c
  BY <1>3, <1>4, <1>5
<1> QED BY <1>2, <1>6 DEF n

(* A mod's code panics: all down to where its build was entered is gone,   *)
(* and a frame that was held.                                              *)
LEMMA PanicKeeps ==
  ASSUME IInv, Panic
  PROVE  Core(stack', World')
<1> DEFINE n == Len(stack)
           x == stack[Caught]
           m == x.mod
<1>1. /\ InCode /\ running' = [running EXCEPT ![m] = x.kind \notin {"serve", "run"} /\ x.was]
      /\ failed' = [failed EXCEPT ![m] = TRUE]
      /\ session' = IF x.kind = "run" THEN "ending" ELSE session
      /\ frame' = IF Top.holds THEN NoFrame ELSE frame
      /\ stack' = SubSeq(stack, 1, Caught - 1)
      /\ UNCHANGED <<loaded, build, state, transient, plan>>
  BY DEF Panic, Leave, Ends
<1>2. /\ Core(stack, World) /\ stack # <<>> /\ stack \in Seq(Entries) /\ n \in Nat \ {0}
      /\ Top = stack[n] /\ Top = Last(stack) /\ IsCode(Top)
      /\ StackOf(stack, World) /\ ModsOK(World) /\ FrameOf(stack, World)
      /\ n \in 1..n /\ (Holds(Top) <=> Top.holds)
  BY <1>1, OnCode
<1>3. PICK c \in 1..n : /\ c = Caught /\ Own(stack[c])
                        /\ \A i \in c + 1..n : Pumping(stack[i]) /\ stack[i].mod = stack[c].mod
  BY <1>1, CaughtIs
<1>4. PICK k \in Nat : k = c - 1 /\ k + 1 = c /\ k < n /\ k <= n
  BY <1>2
<1>5. x = stack[c] /\ m \in Names /\ Own(x) /\ x.was = FALSE /\ IsCode(x)
  <2>1. stack[c] \in Entries /\ Sits(stack, c)
    BY <1>2 DEF StackOf
  <2>2. stack[c] \in CodeEntry
    BY <1>3, <2>1, EntryTypes DEF Own
  <2> QED BY <1>3, <2>1, <2>2 DEF Own, CodeEntry, Sits, Clear
<1>6. \A i \in 1..k : IsCode(stack[i]) => stack[i].mod # m
  BY <1>2, <1>3, <1>4, <1>5 DEF StackOf, Sits, Clear
<1> DEFINE t == SubSeq(stack, 1, k)
<1>7. stack' = t
  BY <1>1, <1>3, <1>4
<1>8. Len(t) = k /\ \A i \in 1..k : t[i] = stack[i] /\ i \in 1..n
  BY <1>2, <1>4, CutOff
<1>9. /\ running' \in [Names -> BOOLEAN] /\ failed' \in [Names -> BOOLEAN]
      /\ running'[m] = FALSE
      /\ \A l \in Names : l # m => running'[l] = running[l] /\ failed'[l] = failed[l]
  <2>1. running \in [Names -> BOOLEAN] /\ failed \in [Names -> BOOLEAN]
    BY <1>2 DEF ModsOK, World
  <2>2. running' = [running EXCEPT ![m] = FALSE]
    BY <1>1, <1>5
  <2> QED BY <1>1, <1>5, <2>1, <2>2
<1>10. \A i \in k + 1..n : (IsCode(stack[i]) /\ stack[i].mod = m) \/ stack[i].kind \in {"pump", "stepping"}
  <2> SUFFICES ASSUME NEW i \in k + 1..n
               PROVE  (IsCode(stack[i]) /\ stack[i].mod = m) \/ stack[i].kind \in {"pump", "stepping"}
    OBVIOUS
  <2>1. CASE i = c
    BY <1>5, <2>1
  <2>2. CASE i # c
    <3>1. i \in c + 1..n
      BY <1>4, <2>2
    <3> QED BY <1>3, <1>5, <3>1 DEF Pumping, IsCode, CodeKinds
  <2> QED BY <2>1, <2>2
<1> HIDE DEF n, x, m, t
<1>11. FrameOf(t, World') /\ (World'.frame.open => World.frame.open /\ World'.frame.nodes = World.frame.nodes)
  <2>1. World'.frame = frame' /\ World.frame = frame
    BY DEF World
  <2>2. CASE Top.holds
    <3>1. \A i \in 1..k : ~Holds(stack[i]) /\ stack[i].kind # "system"
      <4>1. \A i \in 1..k : i \in 1..n - 1 /\ i \in 1..n
        BY <1>2, <1>4
      <4> QED BY <1>2, <2>2, <4>1, HeldByTop DEF n
    <3>2. World'.frame = NoFrame
      BY <1>1, <2>1, <2>2
    <3>3. FrameOf(t, World')
      BY <1>8, <3>1, <3>2, FrameEnds
    <3> QED BY <3>2, <3>3, NoFrameIs
  <2>3. CASE ~Top.holds
    <3>1. \A i \in k + 1..n : ~Holds(stack[i])
      <4> SUFFICES ASSUME NEW i \in k + 1..n PROVE ~Holds(stack[i])
        OBVIOUS
      <4>1. CASE i = n
        BY <1>2, <2>3, <4>1
      <4>2. CASE i # n
        <5>1. PICK j \in c + 1..n : j - 1 = i /\ j # 1
          BY <1>2, <1>4, <4>2
        <5>2. j \in 1..n
          BY <5>1
        <5>3. Follows(stack[i], stack[j]) /\ Pumping(stack[j])
          BY <1>2, <1>3, <5>1, <5>2 DEF StackOf, Sits, n
        <5> QED BY <5>3 DEF Follows, Pumping, Holds, IsCode, CodeKinds, Leaves
      <4> QED BY <4>1, <4>2
    <3>2. FrameOf(t, World)
      BY <1>2, <1>4, <1>8, <3>1, FrameCut DEF n
    <3>3. World'.frame = World.frame
      BY <1>1, <2>1, <2>3
    <3> QED BY <3>2, <3>3 DEF FrameOf
  <2> QED BY <2>2, <2>3
<1>12. World'.session = World.session \/ (World'.session = "ending" /\ k = 0)
  <2>1. ASSUME x.kind = "run" PROVE k = 0
    <3>1. Sits(stack, c)
      BY <1>2 DEF StackOf, n
    <3>2. c = 1
      BY <1>5, <2>1, <3>1 DEF Sits, Follows, Leaves, CodeKinds
    <3> QED BY <1>4, <3>2
  <2>2. World'.session = session' /\ World.session = session
    BY DEF World
  <2> QED BY <1>1, <2>1, <2>2
<1>13. /\ World'.loaded = World.loaded /\ World'.build = World.build /\ World'.state = World.state
       /\ World'.transient = World.transient /\ World'.plan = World.plan
       /\ World'.failed = failed' /\ World'.running = running' /\ World.failed = failed /\ World.running = running
  BY <1>1 DEF World
<1>14. ~World'.running[m]
  BY <1>9, <1>13
<1>15. /\ World'.failed \in [Names -> BOOLEAN] /\ World'.running \in [Names -> BOOLEAN]
       /\ \A l \in Names : l # m => World'.failed[l] = World.failed[l] /\ World'.running[l] = World.running[l]
  BY <1>9, <1>13
<1>16. Pops(stack, World, World', k, t, m)
  BY <1>4, <1>5, <1>6, <1>10, <1>11, <1>12, <1>13, <1>14, <1>15 DEF Pops, t, n
<1> QED BY <1>2, <1>7, <1>16, PopCode
-----------------------------------------------------------------------------
(* An apply node lands a log, which may panic: no code of that mod is on   *)
(* the stack under the one that runs the frame.                            *)
Lands(w, v, i, m) ==
  /\ i \in DOMAIN w.frame.nodes /\ w.frame.nodes[i].what = "apply" /\ m = w.frame.nodes[i].build.mod
  /\ v.loaded = w.loaded /\ v.build = w.build /\ v.running = w.running /\ v.state = w.state
  /\ v.transient = w.transient /\ v.plan = w.plan /\ v.session = w.session
  /\ v.frame = [w.frame EXCEPT !.logs = @ \ {i - 1}]
  /\ \/ v.failed = w.failed
     \/ i - 1 \in w.frame.logs /\ v.failed = [w.failed EXCEPT ![m] = TRUE]

(* So a log lands.                                                         *)
LEMMA LandsLog ==
  ASSUME NEW t, NEW w, NEW v, Core(t, w), t # <<>>, Holds(Last(t)), NEW i, NEW m, Lands(w, v, i, m)
  PROVE  Core(t, v)
<1> USE DEF Lands
<1> DEFINE n == Len(t)
<1>1. /\ t \in Seq(Entries) /\ n \in Nat \ {0} /\ Last(t) = t[n] /\ n \in 1..n /\ StackOf(t, w) /\ FrameOf(t, w)
      /\ ModsOK(w) /\ FrameOK(w.frame)
  BY AtTop DEF Core, FrameOf
<1> HIDE DEF n
<1>2. /\ v.frame.nodes = w.frame.nodes /\ v.frame.open = w.frame.open /\ v.frame.logs = w.frame.logs \ {i - 1}
      /\ v.frame \in [nodes : Seq(NodeRecord), logs : SUBSET Nat, open : BOOLEAN]
  BY <1>1 DEF FrameOK
<1>3. ASSUME NEW j \in 1..n, IsCode(t[j])
      PROVE  t[j].mod \in Names /\ v.failed[t[j].mod] = w.failed[t[j].mod]
  <2>1. t[j].mod \in Names
    <3>1. t[j] \in CodeEntry
      BY <1>1, <1>3, EntryTypes DEF n
    <3> QED BY <3>1 DEF CodeEntry
  <2>2. CASE v.failed = w.failed
    BY <2>1, <2>2
  <2>3. CASE i - 1 \in w.frame.logs /\ v.failed = [w.failed EXCEPT ![m] = TRUE]
    <3>1. w.frame.nodes[i - 1].build = w.frame.nodes[i].build
      BY <1>1 DEF FrameOK
    <3>2. t[j].mod # w.frame.nodes[i - 1].build.mod
      BY <1>1, <1>3, <2>3 DEF FrameOf, n
    <3>3. t[j].mod # m
      BY <3>1, <3>2
    <3>4. w.failed \in [Names -> BOOLEAN]
      BY <1>1 DEF ModsOK
    <3> QED BY <2>1, <2>3, <3>3, <3>4
  <2> QED BY <2>1, <2>2, <2>3
<1>4. StackOf(t, v)
  <2> SUFFICES ASSUME NEW j \in 1..n PROVE Stands(t, j, v)
    BY <1>1 DEF StackOf, n
  <2>1. Stands(t, j, w)
    BY <1>1 DEF StackOf, n
  <2> QED BY <1>3, <2>1, StandsOf
<1>5. FrameOf(t, v)
  <2>1. FrameOK(v.frame)
    BY <1>1, <1>2 DEF FrameOK
  <2>2. ASSUME NEW h \in 1..n, Holds(t[h]), NEW k \in 1..h, IsCode(t[k]), NEW l \in v.frame.logs
        PROVE  t[k].mod # v.frame.nodes[l].build.mod
    BY <1>1, <1>2, <2>2 DEF FrameOf, n
  <2> QED BY <1>1, <1>2, <2>1, <2>2 DEF FrameOf, n
<1>6. ModsOK(v)
  <2>1. w.failed \in [Names -> BOOLEAN]
    BY <1>1 DEF ModsOK
  <2>2. v.failed \in [Names -> BOOLEAN]
    <3>1. CASE v.failed = w.failed
      BY <2>1, <3>1
    <3>2. CASE v.failed = [w.failed EXCEPT ![m] = TRUE]
      BY <2>1, <3>2
    <3> QED BY <3>1, <3>2
  <2> QED BY <1>1, <2>2 DEF ModsOK
<1>7. SessionOf(t, v)
  <2>1. RunIn(v) = RunIn(w) /\ PlanIn(v) = PlanIn(w)
    BY DEF RunIn, PlanIn
  <2> QED BY <1>2, <2>1 DEF Core, SessionOf
<1>8. RunOf(t, v) /\ StatesOf(t, v)
  BY DEF Core, RunOf, StatesOf
<1> QED BY <1>4, <1>5, <1>6, <1>7, <1>8 DEF Core

(* A node is run, with entry y on top from then on.                        *)
Topped(t, y) == t = Append(Front(stack), y)

(* A node is run: a system is entered, or passed over, or a log lands.     *)
LEMMA RunsNode ==
  ASSUME IInv, NEW y \in Entries, NEW t, Topped(t, y), Front(stack) \in Seq(Entries),
         Core(t, World), Holds(y), NEW i \in DOMAIN frame.nodes, RunNode(i, y),
         UNCHANGED <<loaded, build, state, plan, session>>, NEW m, m = frame.nodes[i].build.mod
  PROVE  Core(stack', World')
<1> DEFINE c == Code("system", m, i)
           n == Len(t)
<1>1. /\ t \in Seq(Entries) /\ t # <<>> /\ Last(t) = y /\ n \in Nat \ {0} /\ t[n] = y /\ n \in 1..n
      /\ StackOf(t, World) /\ RunOf(t, World) /\ ModsOK(World) /\ FrameOK(World.frame) /\ Sits(t, n)
  <2>1. t \in Seq(Entries) /\ t # <<>>
    <3>1. t \in Seq(Entries) /\ Len(Front(stack)) \in Nat /\ Len(t) = Len(Front(stack)) + 1
      BY Pushed DEF Topped
    <3> QED BY <3>1
  <2>2. Last(t) = y
    <3>1. Len(t) = Len(Front(stack)) + 1 /\ t[Len(Front(stack)) + 1] = y
      BY Pushed DEF Topped
    <3> QED BY <2>1, <3>1, TopOf
  <2>3. /\ n \in Nat \ {0} /\ t[n] = y /\ Sits(t, n)
    BY <2>1, <2>2, AtTop
  <2>4. StackOf(t, World) /\ RunOf(t, World) /\ ModsOK(World) /\ FrameOK(World.frame)
    BY DEF Core, FrameOf
  <2>5. n \in 1..n
    BY <2>3
  <2> QED BY <2>1, <2>2, <2>3, <2>4, <2>5
<1>2. World.frame = frame /\ World.failed = failed /\ World.running = running
  BY DEF World
<1> HIDE DEF c, n
<1>3. \A j \in 1..n : t[j].kind \notin Taken
  <2> SUFFICES ASSUME NEW j \in 1..n, t[j].kind \in Taken PROVE FALSE
    OBVIOUS
  <2>1. j # n
    BY <1>1 DEF Holds, Taken, IsCode, CodeKinds
  <2>2. j \in 1..n - 1
    BY <1>1, <2>1
  <2>3. y.kind \in Leaves /\ ~y.holds
    BY <1>1, <2>2 DEF Sits, Clear
  <2> QED BY <2>3 DEF Holds, Leaves
<1>4. CASE /\ frame.nodes[i].what = "system" /\ IsLoaded(m) /\ ~failed[m] /\ ~running[m]
           /\ Enter("system", m) /\ stack' = Front(stack) \o <<y, c>> /\ UNCHANGED <<failed, frame>>
  <2>1. In(m, World) /\ m \in Names
    BY <1>1, <1>4, ModsAre DEF IsLoaded, In, World
  <2>2. state[m] = build[m].schema
    <3>1. \A j \in 1..Len(t) : t[j].kind # "retiring"
      BY <1>3 DEF Taken, n
    <3>2. World.state[m] = World.build[m].schema
      BY <2>1, <3>1, StatesFit
    <3> QED BY <3>2 DEF World
  <2>3. i \in Nat
    BY <1>1, <1>2 DEF FrameOK
  <2>4. Fresh(c, World, World') /\ c.kind = "system" /\ c.mod = m /\ c.node = i
    <3>1. "system" \in CodeKinds \ {"handler"} /\ ~World.running[m] /\ ~World.failed[m]
      BY <1>2, <1>4 DEF CodeKinds
    <3>2. UNCHANGED <<loaded, build, failed, state, plan, frame, session>>
      BY <1>4
    <3>4. ModsOK(World) /\ Enter("system", m)
      BY <1>1, <1>4
    <3>5. In(m, World)
      BY <2>1
    <3>3. /\ Fresh(Code("system", m, i), World, World')
          /\ Code("system", m, i).kind = "system" /\ Code("system", m, i).mod = m
          /\ Code("system", m, i).node = i
      BY <2>2, <2>3, <3>1, <3>2, <3>4, <3>5, EntersCode
    <3> QED BY <3>3 DEF c
  <2>5. Follows(Last(t), c)
    BY <1>1, <2>4 DEF Follows
  <2>6. \A j \in 1..Len(t) : IsCode(t[j]) => t[j].mod # c.mod
    <3>1. RunOf(t, World) /\ ~World.running[m] /\ m \in Names
      BY <1>1, <1>2, <1>4, <2>1
    <3>2. \A j \in 1..Len(t) : IsCode(t[j]) => t[j].mod # m
      BY <3>1, NotRunning
    <3> QED BY <2>4, <3>2
  <2>7. c.node \in DOMAIN World.frame.nodes /\ World.frame.nodes[c.node].build.mod = c.mod
    BY <1>2, <2>4
  <2>8. Core(Append(t, c), World')
    BY <1>1, <1>3, <2>4, <2>5, <2>6, <2>7, CodeOnTop DEF Fresh, n
  <2>9. stack' = Append(t, c)
    BY <1>4, <2>4, PushedTwo DEF Fresh, Topped
  <2> QED BY <2>8, <2>9
<1>5. CASE stack' = t /\ UNCHANGED <<running, transient, failed, frame>>
  <2>1. World' = World
    BY <1>5 DEF World
  <2> QED BY <1>5, <2>1
<1>6. CASE /\ frame.nodes[i].what = "apply" /\ frame' = [frame EXCEPT !.logs = @ \ {i - 1}]
           /\ \/ UNCHANGED failed
              \/ i - 1 \in frame.logs /\ failed' = [failed EXCEPT ![m] = TRUE]
           /\ stack' = t /\ UNCHANGED <<running, transient>>
  <2>1. /\ World'.loaded = World.loaded /\ World'.build = World.build /\ World'.running = World.running
        /\ World'.state = World.state /\ World'.transient = World.transient /\ World'.plan = World.plan
        /\ World'.session = World.session /\ World'.frame = frame' /\ World'.failed = failed'
    BY <1>6 DEF World
  <2>2. /\ i \in DOMAIN World.frame.nodes /\ World.frame.nodes[i].what = "apply"
        /\ m = World.frame.nodes[i].build.mod
        /\ World'.frame = [World.frame EXCEPT !.logs = @ \ {i - 1}]
        /\ \/ World'.failed = World.failed
           \/ i - 1 \in World.frame.logs /\ World'.failed = [World.failed EXCEPT ![m] = TRUE]
    BY <1>2, <1>6, <2>1
  <2>3. Holds(Last(t)) /\ t # <<>> /\ Core(t, World)
    BY <1>1
  <2> DEFINE w == World
  <2>5. PICK v : v = World'
    OBVIOUS
  <2> HIDE DEF w
  <2>4. Core(t, v)
    <3>1. /\ v.loaded = w.loaded /\ v.build = w.build /\ v.running = w.running
          /\ v.state = w.state /\ v.transient = w.transient /\ v.plan = w.plan /\ v.session = w.session
      BY <2>1, <2>5 DEF w
    <3>2. /\ i \in DOMAIN w.frame.nodes /\ w.frame.nodes[i].what = "apply" /\ m = w.frame.nodes[i].build.mod
          /\ v.frame = [w.frame EXCEPT !.logs = @ \ {i - 1}]
      BY <2>2, <2>5 DEF w
    <3>3. \/ v.failed = w.failed
          \/ i - 1 \in w.frame.logs /\ v.failed = [w.failed EXCEPT ![m] = TRUE]
      BY <2>2, <2>5 DEF w
    <3>4. Holds(Last(t)) /\ t # <<>> /\ Core(t, w)
      BY <2>3 DEF w
    <3>5. Lands(w, v, i, m)
      BY <3>1, <3>2, <3>3 DEF Lands
    <3> QED BY <3>4, <3>5, LandsLog
  <2> QED BY <1>6, <2>4, <2>5
<1>7. CASE /\ frame.nodes[i].what = "system"
           /\ IF IsLoaded(m) /\ ~failed[m] /\ ~running[m]
              THEN Enter("system", m) /\ stack' = Front(stack) \o <<y, c>>
              ELSE stack' = t /\ UNCHANGED <<running, transient>>
           /\ UNCHANGED <<failed, frame>>
  <2>1. CASE IsLoaded(m) /\ ~failed[m] /\ ~running[m]
    BY <1>4, <1>7, <2>1
  <2>2. CASE ~(IsLoaded(m) /\ ~failed[m] /\ ~running[m])
    BY <1>5, <1>7, <2>2
  <2> QED BY <2>1, <2>2
<1> QED BY <1>6, <1>7 DEF RunNode, c, Topped

(* The loader runs the next node of its frame.                             *)
LEMMA RunNextKeeps ==
  ASSUME IInv, RunNext
  PROVE  Core(stack', World')
<1> DEFINE x == Top
           y == [x EXCEPT !.next = @ + 1]
           i == x.next
<1>1. /\ stack # <<>> /\ x.kind = "stepping" /\ i \in DOMAIN frame.nodes /\ RunNode(i, y)
      /\ UNCHANGED <<loaded, build, state, plan, session>>
  BY DEF RunNext, OnTop
<1>2. /\ Core(stack, World) /\ x \in Entries /\ x = Last(stack) /\ stack \in Seq(Entries) /\ ModsOK(World)
  BY <1>1, AtTop DEF IInv, Top, Core
<1>3. Front(stack) \in Seq(Entries)
  BY <1>1, <1>2, TopOf
<1>4. y \in [kind : {"stepping"}, next : Nat]
  <2>1. x \in [kind : {"stepping"}, next : Nat]
    BY <1>1, <1>2, EntryTypes
  <2> QED BY <2>1
<1>5. y \in Entries /\ y.kind = "stepping" /\ Holds(y)
  BY <1>4, EntryTypes DEF Holds
<1> HIDE DEF x, y, i
<1>6. Core(Append(Front(stack), y), World)
  BY <1>1, <1>2, <1>5, SameStands, SwapTop
<1> QED BY <1>1, <1>3, <1>5, <1>6, RunsNode DEF Topped

(* A scheduler runs a node of its frame.                                   *)
LEMMA RunAnyKeeps ==
  ASSUME IInv, RunAny
  PROVE  Core(stack', World')
<1>1. /\ InCode /\ Top.holds /\ UNCHANGED <<loaded, build, state, plan, session>>
  BY DEF RunAny
<1>2. PICK i \in DOMAIN frame.nodes : RunNode(i, Top)
  BY DEF RunAny
<1>3. /\ Core(stack, World) /\ stack # <<>> /\ stack \in Seq(Entries) /\ Top = Last(stack) /\ Holds(Top)
  BY <1>1, OnCode
<1>4. Front(stack) \in Seq(Entries) /\ Top \in Entries /\ Append(Front(stack), Top) = stack
  BY <1>3, TopOf, TopAgain
<1> QED BY <1>1, <1>2, <1>3, <1>4, RunsNode DEF Topped
-----------------------------------------------------------------------------
(* Before anything is loaded.                                              *)
LEMMA AtFirst == Init => IInv
<1> SUFFICES ASSUME Init PROVE IInv
  OBVIOUS
<1>1. /\ stack = <<>> /\ Len(stack) = 0 /\ loaded = <<>> /\ ToSet(loaded) = {} /\ DOMAIN loaded = {}
      /\ session = "starting" /\ \A i \in 1..Len(stack) : FALSE
  BY OfSequences DEF Init
<1>2. StackOf(stack, World)
  BY <1>1 DEF StackOf
<1>3. RunOf(stack, World)
  BY <1>1 DEF RunOf, World, Init
<1>4. FrameOf(stack, World)
  BY <1>1, NoFrameIs DEF FrameOf, World, Init
<1>5. StatesOf(stack, World)
  BY <1>1 DEF StatesOf, World
<1>6. ModsOK(World)
  BY <1>1 DEF ModsOK, World, Init
<1>7. SessionOf(stack, World)
  BY <1>1 DEF SessionOf, World
<1>8. inbox \in Seq(Requests) /\ quitting \in BOOLEAN /\ game \in Games
  <2>1. inbox = <<>> /\ quitting = FALSE /\ game \in Games
    BY DEF Init
  <2>2. <<>> \in Seq(Requests)
    OBVIOUS
  <2> QED BY <2>1, <2>2
<1> QED BY <1>2, <1>3, <1>4, <1>5, <1>6, <1>7, <1>8 DEF IInv, Core

(* Each step of the loader's own keeps the stack's invariant.              *)
LEMMA EngineKeeps ==
  ASSUME IInv, Engine
  PROVE  Core(stack', World')
<1>1. CASE Start \/ RunBootstrap \/ PumpAlone \/ ShutDown \/ Gone
  BY <1>1, StartKeeps, RunBootstrapKeeps, PumpAloneKeeps, ShutDownKeeps, GoneKeeps
<1>2. CASE RetireNone \/ Retire \/ PointsIntoItsBuild \/ HandOver \/ Swap \/ Load \/ Loaded
  BY <1>2, RetireNoneKeeps, RetireKeeps, PointsIntoItsBuildKeeps, HandOverKeeps, SwapKeeps, LoadKeeps, LoadedKeeps
<1>3. CASE Pumped \/ ServeBatch \/ ServeUnload \/ ServeSend \/ ServeSchedule \/ ServeQuit
  BY <1>3, PumpedKeeps, ServeBatchKeeps, ServeUnloadKeeps, ServeSendKeeps, ServeScheduleKeeps, QuietKeeps
<1>4. CASE RunNext \/ Stepped
  BY <1>4, RunNextKeeps, SteppedKeeps
<1> QED BY <1>1, <1>2, <1>3, <1>4 DEF Engine

(* So does each step of a mod's code.                                      *)
LEMMA NextKeeps ==
  ASSUME IInv, Next
  PROVE  Core(stack', World')
<1>1. CASE Engine
  BY <1>1, EngineKeeps
<1>2. CASE (\E r \in Requests : Ask(r)) \/ (\E s \in Services : Call(s))
  BY <1>2, QuietKeeps, CallKeeps
<1>3. CASE Pump \/ StepMods \/ Begin \/ RunAny \/ EndFrame \/ Return \/ Panic
  BY <1>3, PumpKeeps, StepModsKeeps, BeginKeeps, RunAnyKeeps, EndFrameKeeps, ReturnKeeps, PanicKeeps
<1> QED BY <1>1, <1>2, <1>3 DEF Next

(* What no code on the stack depends on.                                   *)
Mailbox == inbox \in Seq(Requests) /\ quitting \in BOOLEAN /\ game \in Games

(* Requests come and go.                                                   *)
LEMMA MailboxKept ==
  ASSUME Mailbox, Next
  PROVE  Mailbox'
<1>1. ASSUME UNCHANGED <<inbox, quitting, game>> PROVE Mailbox'
  BY <1>1 DEF Mailbox
<1>2. ASSUME inbox # <<>>, inbox' = Tail(inbox), quitting' \in {quitting, TRUE}, game' = game PROVE Mailbox'
  <2>1. Tail(inbox) \in Seq(Requests)
    BY <1>2 DEF Mailbox
  <2> QED BY <1>2, <2>1 DEF Mailbox
<1>3. ASSUME NEW r \in Requests, Ask(r) PROVE Mailbox'
  <2>1. Append(inbox, r) \in Seq(Requests)
    BY DEF Mailbox
  <2> QED BY <1>3, <2>1 DEF Mailbox, Ask
<1>4. CASE Start \/ RunBootstrap \/ PumpAlone \/ ShutDown \/ Gone
  BY <1>1, <1>4 DEF Start, RunBootstrap, PumpAlone, ShutDown, Gone
<1>5. CASE RetireNone \/ Retire \/ PointsIntoItsBuild \/ HandOver \/ Swap \/ Load \/ Loaded \/ Pumped
  BY <1>1, <1>5 DEF RetireNone, Retire, PointsIntoItsBuild, HandOver, Swap, Load, Loaded, Pumped
<1>6. CASE ServeBatch \/ ServeUnload \/ ServeSend \/ ServeSchedule \/ ServeQuit
  <2>1. inbox # <<>> /\ inbox' = Tail(inbox) /\ game' = game
    BY <1>6 DEF ServeBatch, ServeUnload, ServeSend, ServeSchedule, ServeQuit, Serving
  <2>2. quitting' \in {quitting, TRUE}
    BY <1>6 DEF ServeBatch, ServeUnload, ServeSend, ServeSchedule, ServeQuit
  <2> QED BY <1>2, <2>1, <2>2
<1>7. CASE RunNext \/ Stepped \/ Pump \/ StepMods \/ Begin \/ RunAny \/ EndFrame \/ Return \/ Panic
  BY <1>1, <1>7 DEF RunNext, Stepped, Pump, StepMods, Begin, RunAny, EndFrame, Return, Panic
<1>8. CASE \E s \in Services : Call(s)
  BY <1>1, <1>8 DEF Call
<1>9. CASE \E r \in Requests : Ask(r)
  BY <1>3, <1>9
<1> QED BY <1>4, <1>5, <1>6, <1>7, <1>8, <1>9 DEF Next, Engine

(* The invariant is inductive.                                             *)
LEMMA IsKept == IInv /\ [Next]_vars => IInv'
<1>1. ASSUME IInv, Next PROVE IInv'
  <2>1. Mailbox'
    BY <1>1, MailboxKept DEF IInv, Mailbox
  <2> QED BY <1>1, <2>1, NextKeeps DEF IInv, Mailbox
<1>2. ASSUME IInv, UNCHANGED vars PROVE IInv'
  <2>1. stack' = stack /\ World' = World /\ UNCHANGED <<inbox, quitting, game>>
    BY <1>2 DEF vars, perMod, World
  <2> QED BY <1>2, <2>1 DEF IInv
<1> QED BY <1>1, <1>2

(* The stack's invariant always holds: of every entry what it lies on, of  *)
(* every mod whose code is on it, of the frame who holds it, and of the    *)
(* states whose they are.                                                  *)
THEOREM ModsIsKept == Spec => []IInv
BY AtFirst, IsKept, PTL DEF Spec
-----------------------------------------------------------------------------
(* What TypeOK says of it.                                                 *)
LEMMA TypeOKHolds == IInv => TypeOK
<1> SUFFICES ASSUME IInv PROVE TypeOK
  OBVIOUS
<1>1. ModsOK(World) /\ stack \in Seq(Entries) /\ SessionOf(stack, World)
  BY DEF IInv, Core, StackOf
<1>2. session \in {"starting", "running", "ending", "over"}
  BY <1>1 DEF SessionOf, World
<1> QED BY <1>1, <1>2 DEF TypeOK, IInv, ModsOK, World

(* Code on the stack sits and stands as the invariant says.                *)
LEMMA OfCode ==
  ASSUME IInv
  PROVE  /\ stack \in Seq(Entries) /\ Len(stack) \in Nat /\ DOMAIN stack = 1..Len(stack)
         /\ CodeAt = {i \in 1..Len(stack) : IsCode(stack[i])}
         /\ \A i \in CodeAt : /\ i \in 1..Len(stack) /\ IsCode(stack[i]) /\ stack[i].mod \in Names
                              /\ Sits(stack, i) /\ Stands(stack, i, World) /\ CodeOK(stack[i], World)
<1>1. /\ stack \in Seq(Entries) /\ Len(stack) \in Nat /\ DOMAIN stack = 1..Len(stack) /\ StackOf(stack, World)
  BY DEF IInv, Core, StackOf
<1>2. CodeAt = {i \in 1..Len(stack) : IsCode(stack[i])}
  BY <1>1 DEF CodeAt, IsCode
<1>3. ASSUME NEW i \in CodeAt
      PROVE  /\ i \in 1..Len(stack) /\ IsCode(stack[i]) /\ stack[i].mod \in Names
             /\ Sits(stack, i) /\ Stands(stack, i, World) /\ CodeOK(stack[i], World)
  <2>1. i \in 1..Len(stack) /\ IsCode(stack[i])
    BY <1>2
  <2>2. stack[i] \in CodeEntry
    BY <1>1, <2>1, EntryTypes
  <2> QED BY <1>1, <2>1, <2>2 DEF CodeEntry, StackOf, Stands
<1> QED BY <1>1, <1>2, <1>3

(* What CodeHasItsOwn says of it.                                          *)
LEMMA CodeHasItsOwnHolds == IInv => CodeHasItsOwn
<1> SUFFICES ASSUME IInv PROVE CodeHasItsOwn
  OBVIOUS
<1>1. \A i \in CodeAt : CodeOK(stack[i], World)
  BY OfCode
<1>2. ModsOK(World)
  BY DEF IInv, Core
<1> QED BY <1>1, <1>2 DEF CodeHasItsOwn, CodeOK, ModsOK, World

(* Code of a mod that is running is entered once, and its pumps' handlers. *)
LEMMA StateOnceHolds == IInv => StateOnce
<1> SUFFICES ASSUME IInv PROVE StateOnce
  OBVIOUS
<1>1. ASSUME NEW i \in CodeAt, NEW j \in CodeAt, stack[i].mod = stack[j].mod, i < j, stack[j].kind # "handler"
      PROVE  FALSE
  <2>1. Own(stack[j]) /\ IsCode(stack[i]) /\ Clear(stack, j) /\ i \in 1..j - 1
    BY <1>1, OfCode DEF Own, Sits
  <2> QED BY <1>1, <2>1 DEF Clear
<1>2. ASSUME NEW m \in Names PROVE running[m] <=> \E i \in CodeAt : stack[i].mod = m
  <2>1. RunOf(stack, World) /\ World.running = running
    BY DEF IInv, Core, World
  <2> QED BY <2>1, OfCode DEF RunOf
<1> QED BY <1>1, <1>2 DEF StateOnce

(* Where a pump serves, and a call ends, the list of mods is there; one    *)
(* entry at most holds the frame.                                          *)
LEMMA FrameAndListHolds == IInv => FrameAndList
<1> SUFFICES ASSUME IInv PROVE FrameAndList
  OBVIOUS
<1>1. /\ stack \in Seq(Entries) /\ Len(stack) \in Nat /\ DOMAIN stack = 1..Len(stack) /\ StackOf(stack, World)
      /\ FrameOf(stack, World) /\ World.frame = frame
  BY OfCode DEF IInv, Core, World
<1>2. ASSUME stack # <<>>, Top.kind \in {"pump", "serve"}
      PROVE  ~ListTaken /\ (Top.kind = "pump" => ~ListShared)
  <2>1. Top = stack[Len(stack)] /\ Len(stack) \in Nat \ {0} /\ Clear(stack, Len(stack))
    BY <1>2, AtTop DEF IInv, Top, Sits
  <2>2. \A i \in 1..Len(stack) : i = Len(stack) \/ i \in 1..Len(stack) - 1
    BY <2>1
  <2>3. \A i \in 1..Len(stack) : stack[i].kind \notin Taken
    BY <1>2, <2>1, <2>2 DEF Clear, Taken, Leaves
  <2>4. Top.kind = "pump" => \A i \in 1..Len(stack) : stack[i].kind \notin Shared
    BY <1>2, <2>1, <2>2 DEF Clear, Shared
  <2> QED BY <1>1, <2>3, <2>4 DEF ListTaken, ListShared, Kinds, Taken, Shared
<1>3. Holders = {i \in 1..Len(stack) : Holds(stack[i])}
  BY <1>1, OfCode DEF Holders, Holds
<1>4. Cardinality(Holders) = IF frame.open THEN 1 ELSE 0
  <2>1. CASE frame.open
    <3>1. PICK h \in 1..Len(stack) : Holds(stack[h])
      BY <1>1, <2>1 DEF FrameOf
    <3>2. \A i \in 1..Len(stack) : Holds(stack[i]) => i = h
      BY <1>1, <3>1 DEF FrameOf
    <3>3. Holders = {h}
      BY <1>3, <3>1, <3>2
    <3> QED BY <2>1, <3>3, FS_Singleton
  <2>2. CASE ~frame.open
    <3>1. Holders = {}
      BY <1>1, <1>3, <2>2 DEF FrameOf
    <3> QED BY <2>2, <3>1, FS_EmptySet
  <2> QED BY <2>1, <2>2
<1> QED BY <1>2, <1>4 DEF FrameAndList, OnTop

(* What RunningFits says of it.                                            *)
LEMMA RunningFitsHolds == IInv => RunningFits
<1> SUFFICES ASSUME IInv PROVE RunningFits
  OBVIOUS
<1>1. SessionOf(stack, World)
  BY DEF IInv, Core
<1>2. RunIn(World) = Running /\ PlanIn(World) = PlanOf(loaded)
  BY DEF RunIn, PlanIn, Running, PlanOf, World
<1>3. World.session = session /\ World.plan = plan /\ World.frame = frame
  BY DEF World
<1> QED BY <1>1, <1>2, <1>3 DEF SessionOf, RunningFits

(* What EnteredWhenFit says of it.                                         *)
LEMMA EnteredWhenFitHolds == IInv => EnteredWhenFit
<1> SUFFICES ASSUME IInv PROVE EnteredWhenFit
  OBVIOUS
<1>1. \A i \in CodeAt : CodeOK(stack[i], World) /\ Stands(stack, i, World)
  BY OfCode
<1>2. FailedOut
  BY <1>1 DEF FailedOut, CodeOK, World, Leaves
<1>3. LoadsFollow
  BY <1>1 DEF LoadsFollow, Stands
<1> QED BY <1>2, <1>3 DEF EnteredWhenFit

(* Every variable is of its type.                                          *)
THEOREM ModsTypeOK == Spec => []TypeOK
BY ModsIsKept, TypeOKHolds, PTL

(* No code on the stack is of a build that was swapped out, and what it    *)
(* has of state is its own build's: whoever of the stack pumps, loads and  *)
(* retires (safe_point, load_batch).                                       *)
THEOREM ModsCodeHasItsOwn == Spec => []CodeHasItsOwn
BY ModsIsKept, CodeHasItsOwnHolds, PTL

(* A mod's state, the list of mods and the frame are borrowed once, however *)
(* calls, hooks, pumps and frames nest, and panic (Loaded::call, begin_call, *)
(* end_call, scheduler::Frame).                                            *)
THEOREM ModsBorrowedOnce == Spec => []BorrowedOnce
<1>1. IInv => BorrowedOnce
  BY StateOnceHolds, FrameAndListHolds DEF BorrowedOnce
<1> QED BY <1>1, ModsIsKept, PTL

(* In a session the running builds' interfaces, systems, plan and frame    *)
(* fit (check_links, check_plan, the plan's cache).                        *)
THEOREM ModsRunningFits == Spec => []RunningFits
BY ModsIsKept, RunningFitsHolds, PTL

(* Failed mods' code isn't run, and loads follow those they depend on      *)
(* (begin_call, run_system, in_dependency_order).                          *)
THEOREM ModsEnteredWhenFit == Spec => []EnteredWhenFit
BY ModsIsKept, EnteredWhenFitHolds, PTL
-----------------------------------------------------------------------------
(* The loader implements the game.                                         *)
Closing == session \in {"ending", "over"}

ShownRuns == UnderWay \subseteq Running

(* Code that is under way, but for last hooks, is of a running build.      *)
LEMMA UnderWayRuns == IInv => ShownRuns
<1> SUFFICES ASSUME IInv, NEW i \in CodeAt, stack[i].kind \notin Leaves PROVE stack[i].build \in Running
  BY DEF ShownRuns, UnderWay, Leaves
<1>1. CodeOK(stack[i], World)
  BY OfCode
<1> QED BY <1>1 DEF CodeOK, In, World, Running

(* A step that leaves the builds is the game's work, or its end.           *)
LEMMA WorksOrEnds ==
  ASSUME UnderWay' \subseteq Running', Running' = Running, Closing => Closing'
  PROVE  G!GameNext
<1>1. CASE Closing <=> Closing'
  <2>1. (session' \in {"ending", "over"}) = (session \in {"ending", "over"})
    BY <1>1 DEF Closing
  <2>2. G!Work
    BY <2>1 DEF G!Work
  <2> QED BY <2>2 DEF G!GameNext
<1>2. CASE ~Closing /\ Closing'
  <2>1. G!End
    <3>1. (session' \in {"ending", "over"}) = TRUE
      BY <1>2 DEF Closing
    <3> QED BY <1>2, <3>1 DEF G!End, Closing
  <2> QED BY <2>1 DEF G!GameNext
<1> QED BY <1>1, <1>2

(* The running builds are those of the loaded mods.                        *)
LEMMA SameBuilds ==
  ASSUME UNCHANGED <<loaded, build>>
  PROVE  Running' = Running
BY DEF Running

(* A session that ends does not start again.                               *)
LEMMA SessionGoesOn ==
  ASSUME Next, Closing
  PROVE  Closing'
<1>1. ASSUME UNCHANGED session PROVE Closing'
  BY <1>1 DEF Closing
<1>2. CASE RunBootstrap \/ PumpAlone \/ Start
  BY <1>2 DEF RunBootstrap, PumpAlone, Start, Closing
<1>3. CASE ShutDown
  BY <1>3 DEF ShutDown, Closing
<1>4. CASE Return
  BY <1>4 DEF Return, Ends, Closing
<1>5. CASE Panic
  BY <1>5 DEF Panic, Ends, Closing
<1>6. CASE \/ Gone \/ RetireNone \/ Retire \/ PointsIntoItsBuild \/ HandOver \/ Swap \/ Load \/ Loaded \/ Pumped
           \/ ServeBatch \/ ServeUnload \/ ServeSend \/ ServeSchedule \/ ServeQuit \/ RunNext \/ Stepped
  BY <1>1, <1>6 DEF Gone, RetireNone, Retire, PointsIntoItsBuild, HandOver, Swap, Load, Loaded, Pumped,
       ServeBatch, ServeUnload, ServeSend, ServeSchedule, ServeQuit, RunNext, Stepped
<1>7. CASE Pump \/ StepMods \/ Begin \/ RunAny \/ EndFrame
  BY <1>1, <1>7 DEF Pump, StepMods, Begin, RunAny, EndFrame
<1>8. CASE (\E r \in Requests : Ask(r)) \/ (\E s \in Services : Call(s))
  BY <1>1, <1>8 DEF Ask, Call
<1> QED BY <1>2, <1>3, <1>4, <1>5, <1>6, <1>7, <1>8 DEF Next, Engine

(* The steps that change which builds run.                                 *)
Changes == Gone \/ Swap \/ ServeUnload \/ ShutDown

(* All other steps leave the builds.                                       *)
LEMMA BuildsStay ==
  ASSUME Next, ~Changes
  PROVE  UNCHANGED <<loaded, build>>
<1>1. CASE Start \/ RunBootstrap \/ PumpAlone
  BY <1>1 DEF RunBootstrap, PumpAlone, Start, perMod
<1>2. CASE RetireNone \/ Retire \/ PointsIntoItsBuild \/ HandOver \/ Load \/ Loaded \/ Pumped
  BY <1>2 DEF RetireNone, Retire, PointsIntoItsBuild, HandOver, Load, Loaded, Pumped, perMod
<1>3. CASE ServeBatch \/ ServeSend \/ ServeSchedule \/ ServeQuit \/ RunNext \/ Stepped
  BY <1>3 DEF ServeBatch, ServeSend, ServeSchedule, ServeQuit, RunNext, Stepped, perMod
<1>4. CASE Pump \/ StepMods \/ Begin \/ RunAny \/ EndFrame \/ Return \/ Panic
  BY <1>4 DEF Pump, StepMods, Begin, RunAny, EndFrame, Return, Panic, perMod
<1>5. CASE (\E r \in Requests : Ask(r)) \/ (\E s \in Services : Call(s))
  BY <1>5 DEF Ask, Call, perMod
<1> QED BY <1>1, <1>2, <1>3, <1>4, <1>5 DEF Next, Engine, Changes
-----------------------------------------------------------------------------
(* What is under way stays so while only the loader's own entries, and     *)
(* last hooks, come and go on top.                                         *)
Shows(e) == IsCode(e) /\ e.kind \notin Leaves

(* The builds under way, as those of the entries that show.                *)
LEMMA ShownBuilds ==
  ASSUME NEW s \in Seq(Entries)
  PROVE  {s[i].build : i \in {j \in {l \in DOMAIN s : s[l].kind \in CodeKinds} : s[j].kind \notin {"unload", "close"}}}
           = {s[i].build : i \in {j \in 1..Len(s) : Shows(s[j])}}
BY DEF Shows, IsCode, Leaves

(* So the builds under way stay.                                           *)
LEMMA SameUnderWay ==
  ASSUME stack \in Seq(Entries), stack' \in Seq(Entries), NEW k \in Nat, k <= Len(stack), k <= Len(stack'),
         \A i \in 1..k : stack'[i] = stack[i],
         \A i \in k + 1..Len(stack) : ~Shows(stack[i]), \A i \in k + 1..Len(stack') : ~Shows(stack'[i])
  PROVE  UnderWay' = UnderWay
<1>1. UnderWay = {stack[i].build : i \in {j \in 1..Len(stack) : Shows(stack[j])}}
  BY ShownBuilds DEF UnderWay, CodeAt
<1>2. UnderWay' = {stack'[i].build : i \in {j \in 1..Len(stack') : Shows(stack'[j])}}
  BY ShownBuilds DEF UnderWay, CodeAt
<1>3. /\ \A i \in 1..Len(stack) : i \in 1..k \/ i \in k + 1..Len(stack)
      /\ \A i \in 1..Len(stack') : i \in 1..k \/ i \in k + 1..Len(stack')
      /\ \A i \in 1..k : i \in 1..Len(stack) /\ i \in 1..Len(stack')
  OBVIOUS
<1>4. \A i \in 1..Len(stack) : Shows(stack[i]) => i \in 1..Len(stack') /\ stack'[i] = stack[i]
  BY <1>3
<1>5. \A i \in 1..Len(stack') : Shows(stack'[i]) => i \in 1..Len(stack) /\ stack'[i] = stack[i]
  BY <1>3
<1> QED BY <1>1, <1>2, <1>4, <1>5

(* A mod of which no code but its last hook is under way leaves.           *)
LEMMA Leaving ==
  ASSUME IInv, IInv', NEW m, In(m, World), ToSet(loaded') = ToSet(loaded) \ {m}, build' = build,
         NEW e \in Entries, ~IsCode(e), stack' = stack \o <<e, Code("close", m, 0)>>
  PROVE  /\ build[m] \in Running /\ Running' = Running \ {build[m]} /\ UnderWay' = UnderWay
<1>1. ModsOK(World) /\ World.build = build
  BY DEF IInv, Core, World
<1>2. build[m] \in Running
  BY DEF In, World, Running
<1>3. Running' = Running \ {build[m]}
  <2>1. \A n \in ToSet(loaded) : build[n].mod = n
    BY <1>1, ModsAre DEF In, World
  <2>2. m \in ToSet(loaded)
    BY DEF In, World
  <2> QED BY <2>1, <2>2 DEF Running
<1>4. PICK c : c = Code("close", m, 0)
  OBVIOUS
<1>5. stack \in Seq(Entries) /\ stack' \in Seq(Entries) /\ Len(stack) \in Nat
  BY DEF IInv, Core, StackOf
<1>6. /\ Len(stack') = Len(stack) + 2 /\ stack'[Len(stack) + 1] = e /\ stack'[Len(stack) + 2] = c
      /\ \A i \in 1..Len(stack) : stack'[i] = stack[i]
  BY <1>4, <1>5
<1>7. ~Shows(e) /\ ~Shows(c)
  BY <1>4 DEF Shows, Code, Leaves
<1>8. \A i \in Len(stack) + 1..Len(stack') : i = Len(stack) + 1 \/ i = Len(stack) + 2
  BY <1>5, <1>6
<1>9. /\ \A i \in Len(stack) + 1..Len(stack) : ~Shows(stack[i])
      /\ \A i \in Len(stack) + 1..Len(stack') : ~Shows(stack'[i])
      /\ Len(stack) <= Len(stack')
  BY <1>5, <1>6, <1>7, <1>8
<1>10. UnderWay' = UnderWay
  <2>1. PICK k \in Nat : k = Len(stack)
    BY <1>5
  <2>2. /\ \A i \in 1..k : stack'[i] = stack[i]
        /\ \A i \in k + 1..Len(stack) : ~Shows(stack[i])
        /\ \A i \in k + 1..Len(stack') : ~Shows(stack'[i])
        /\ k <= Len(stack) /\ k <= Len(stack')
    BY <1>5, <1>6, <1>9, <2>1
  <2>3. stack \in Seq(Entries) /\ stack' \in Seq(Entries)
    BY <1>5
  <2> QED BY <2>2, <2>3, SameUnderWay
<1> QED BY <1>2, <1>3, <1>10

(* All but the last of the loaded mods.                                    *)
LEMMA LastOut ==
  ASSUME NEW s \in Seq(Names), s # <<>>, \A i, j \in DOMAIN s : s[i] = s[j] => i = j
  PROVE  ToSet(Front(s)) = ToSet(s) \ {Last(s)} /\ Last(s) \in ToSet(s)
<1>1. /\ Len(s) \in Nat \ {0} /\ Last(s) = s[Len(s)] /\ Front(s) \in Seq(Names) /\ Len(Front(s)) = Len(s) - 1
      /\ \A i \in 1..Len(s) - 1 : Front(s)[i] = s[i]
  BY TopOf
<1>2. /\ ToSet(s) = {s[i] : i \in 1..Len(s)} /\ DOMAIN s = 1..Len(s)
      /\ ToSet(Front(s)) = {Front(s)[i] : i \in 1..Len(s) - 1}
  BY <1>1, OfSequences
<1>3. \A i \in 1..Len(s) - 1 : i \in 1..Len(s) /\ s[i] # Last(s)
  BY <1>1, <1>2
<1>4. \A i \in 1..Len(s) : i \in 1..Len(s) - 1 \/ s[i] = Last(s)
  BY <1>1
<1>5. Last(s) \in ToSet(s)
  BY <1>1, <1>2
<1>6. \A n \in ToSet(Front(s)) : n \in ToSet(s) /\ n # Last(s)
  <2> SUFFICES ASSUME NEW i \in 1..Len(s) - 1 PROVE Front(s)[i] \in ToSet(s) /\ Front(s)[i] # Last(s)
    BY <1>2
  <2> QED BY <1>1, <1>2, <1>3
<1>7. \A n \in ToSet(s) : n = Last(s) \/ n \in ToSet(Front(s))
  <2> SUFFICES ASSUME NEW i \in 1..Len(s), s[i] # Last(s) PROVE s[i] \in ToSet(Front(s))
    BY <1>2
  <2>1. i \in 1..Len(s) - 1
    BY <1>4
  <2> QED BY <1>1, <1>2, <2>1
<1> QED BY <1>5, <1>6, <1>7

(* Nothing is under way on an empty stack.                                 *)
LEMMA NoneUnderWay == stack = <<>> => UnderWay = {}
BY DEF UnderWay, CodeAt

(* shutdown's step lets one build go.                                      *)
LEMMA ShutDownIsClose ==
  ASSUME IInv, IInv', ShutDown, loaded # <<>>
  PROVE  G!Close
<1> DEFINE m == Last(loaded)
           e == [kind |-> "closing", mod |-> m]
<1>1. /\ stack = <<>> /\ session = "ending" /\ loaded' = Front(loaded) /\ build' = build
      /\ session' = session /\ stack' = <<e, Code("close", m, 0)>>
  BY DEF ShutDown
<1>2. /\ loaded \in Seq(Names) /\ \A i, j \in DOMAIN loaded : loaded[i] = loaded[j] => i = j
  BY DEF IInv, Core, ModsOK, World
<1>3. ToSet(loaded') = ToSet(loaded) \ {m} /\ In(m, World) /\ m \in Names
  BY <1>1, <1>2, LastOut, OfSequences DEF In, World
<1>4. stack' = stack \o <<e, Code("close", m, 0)>>
  BY <1>1
<1>5. e \in Entries /\ ~IsCode(e)
  BY <1>3 DEF Entries, IsCode, CodeKinds
<1> HIDE DEF m, e
<1>6. build[m] \in Running /\ Running' = Running \ {build[m]} /\ UnderWay' = UnderWay
  BY <1>1, <1>3, <1>4, <1>5, Leaving
<1>7. UnderWay = {}
  BY <1>1, NoneUnderWay
<1> QED BY <1>1, <1>6, <1>7 DEF G!Close

(* In a session, what runs after a step fits.                              *)
LEMMA FitsHeld ==
  ASSUME IInv', session' = "running"
  PROVE  G!Fits(Running')
<1>1. Linked(Running') /\ Plannable(Running')
  <2>1. RunningFits'
    BY RunningFitsHolds, PTL
  <2> QED BY <2>1 DEF RunningFits
<1> QED BY <1>1 DEF G!Fits, G!Linked, G!Plannable, G!NoSystem, G!Builtin, Linked, Plannable, NoSystem, Builtin
-----------------------------------------------------------------------------
(* unload lets a build go of which no code is under way.                   *)
LEMMA UnloadIsUnload ==
  ASSUME IInv, IInv', ServeUnload, ~UNCHANGED <<loaded, running, transient, stack, plan>>
  PROVE  \E b \in Running : G!Unload(b)
<1> DEFINE m == Head(inbox).mod
           e == [kind |-> "unloading", mod |-> m]
<1>1. /\ OnTop("pump") /\ UNCHANGED <<build, session>>
      /\ IsLoaded(m) /\ ~build[m].resident
      /\ loaded' = Keep(loaded, Names \ {m}) /\ stack' = stack \o <<e, Code("close", m, 0)>>
  <2>1. OnTop("pump") /\ UNCHANGED <<build, session>>
    BY DEF ServeUnload, Serving
  <2>2. /\ IsLoaded(m) /\ ~build[m].resident
        /\ loaded' = Keep(loaded, Names \ {m}) /\ stack' = stack \o <<e, Code("close", m, 0)>>
    BY Zenon DEF ServeUnload
  <2> QED BY <2>1, <2>2
<1>2. /\ World.session = "running" /\ Calm(stack, World, Len(stack)) /\ ModsOK(World)
  BY <1>1, OnAPump
<1>3. loaded \in Seq(Names) /\ In(m, World) /\ m \in Names
  BY <1>1, <1>2, ModsAre DEF In, World, IsLoaded, ModsOK
<1>4. ToSet(loaded') = ToSet(loaded) \ {m}
  <2>1. ToSet(Keep(loaded, Names \ {m})) = ToSet(loaded) \intersect (Names \ {m})
    BY <1>3, KeepProperties
  <2> QED BY <1>1, <1>3, <2>1, OfSequences
<1>5. e \in Entries /\ ~IsCode(e)
  BY <1>3 DEF Entries, IsCode, CodeKinds
<1>6. session = "running" /\ session' = "running"
  BY <1>1, <1>2 DEF World
<1> HIDE DEF m, e
<1>7. build[m] \in Running /\ Running' = Running \ {build[m]} /\ UnderWay' = UnderWay
  BY <1>1, <1>3, <1>4, <1>5, Leaving
<1>8. build[m] \notin UnderWay
  <2> SUFFICES ASSUME NEW i \in CodeAt, stack[i].kind \notin Leaves PROVE stack[i].build # build[m]
    BY DEF UnderWay, Leaves
  <2>1. i \in 1..Len(stack) /\ IsCode(stack[i]) /\ CodeOK(stack[i], World)
    BY OfCode
  <2>2. World.build[stack[i].mod].resident
    BY <1>2, <2>1 DEF Calm
  <2> QED BY <1>1, <2>1, <2>2 DEF CodeOK, World
<1>9. G!Fits(Running')
  BY <1>6, FitsHeld
<1>10. G!Unload(build[m])
  BY <1>1, <1>6, <1>7, <1>8, <1>9 DEF G!Unload
<1> QED BY <1>7, <1>10

(* A mod was out of the list before its state is gone.                     *)
LEMMA GoneStays ==
  ASSUME IInv, Gone
  PROVE  Running' = Running
<1> DEFINE m == Top.mod
<1>1. /\ stack # <<>> /\ Top.kind \in {"closing", "unloading"} /\ loaded' = loaded
      /\ build' = [build EXCEPT ![m] = NoBuild]
  BY DEF Gone, OnTop, Forget
<1>2. Top = stack[Len(stack)] /\ Stands(stack, Len(stack), World) /\ ModsOK(World)
  BY <1>1, AtTop DEF IInv, Top, Core
<1>3. m \notin ToSet(loaded)
  BY <1>1, <1>2 DEF Stands, In, World
<1>4. ToSet(loaded) \subseteq Names /\ build \in [Names -> Builds \union {NoBuild}]
  BY <1>2, OfSequences DEF ModsOK, World
<1>5. \A n \in ToSet(loaded) : build'[n] = build[n]
  BY <1>1, <1>3, <1>4
<1> QED BY <1>1, <1>5 DEF Running

(* load_batch's last step takes every new build in at once.                *)
LEMMA SwapIsSwapAll ==
  ASSUME IInv, IInv', Swap
  PROVE  \E new \in SUBSET Builds : G!SwapAll(new)
<1> DEFINE B == Top.batch
           n == Len(stack)
           y == [kind |-> "loading", todo |-> [i \in DOMAIN B |-> B[i].mod]]
<1>1. /\ stack # <<>> /\ Top.kind = "retiring" /\ Top.todo = <<>> /\ stack' = Append(Front(stack), y)
      /\ loaded' = loaded \o NewNames(B)
      /\ build'  = [m \in Names |-> IF m \in {o.mod : o \in ToSet(B)} THEN BuildIn(B, m) ELSE build[m]]
      /\ failed' = [m \in Names |-> IF m \in {o.mod : o \in ToSet(B)} THEN FALSE ELSE failed[m]]
      /\ state'  = [m \in Names |-> IF m \in {o.mod : o \in ToSet(B)} /\ ~IsLoaded(m)
                                    THEN BuildIn(B, m).schema ELSE state[m]]
      /\ UNCHANGED <<running, transient, plan, frame, session>>
  BY DEF Swap, OnTop
<1>2. /\ Core(stack, World) /\ Top \in Entries /\ Stands(stack, n, World) /\ Top = stack[n]
      /\ Top = Last(stack) /\ ModsOK(World) /\ n \in Nat \ {0} /\ stack \in Seq(Entries)
      /\ StackOf(stack, World)
  BY <1>1, AtTop DEF IInv, Top, Core
<1>3. Top \in RetiringEntry /\ BatchOK(Top, World)
  BY <1>1, <1>2, EntryTypes DEF Stands
<1>4. /\ B \in Seq(Builds) /\ Distinct(B) /\ ToSet(Top.todo) = {} /\ ToSet(B) \subseteq Builds
  BY <1>1, <1>3, OfSequences DEF BatchOK, RetiringEntry
<1>5. \A o \in ToSet(B) : In(o.mod, World) => ~World.build[o.mod].resident /\ World.transient[o.mod] = NoBuild
  BY <1>3, <1>4 DEF BatchOK, Handed
<1>6. /\ World.session = "running" /\ Calm(stack, World, n - 1)
  BY <1>1, <1>2, InSession
<1>7. session = "running" /\ session' = "running"
  BY <1>1, <1>6 DEF World
<1> HIDE DEF B, y, n
<1>8. SwapIn(B, World, World')
  <2>1. \A o \in ToSet(B) : In(o.mod, World) => transient[o.mod] = NoBuild
    BY <1>5 DEF World
  <2> QED BY <1>1, <1>2, <1>4, <2>1, SwapsBuilds
<1>9. Running' = After(Running, ToSet(B))
  <2>1. RunIn(World') = After(RunIn(World), ToSet(B))
    BY <1>2, <1>4, <1>8, SwapsRun
  <2>2. RunIn(World) = Running /\ RunIn(World') = Running'
    BY DEF RunIn, Running, World
  <2> QED BY <2>1, <2>2
<1>10. UnderWay' = UnderWay
  <2>1. PICK k \in Nat : k = n - 1 /\ k + 1 = n
    BY <1>2
  <2>2. /\ Front(stack) \in Seq(Entries) /\ Len(Front(stack)) = k /\ \A i \in 1..k : Front(stack)[i] = stack[i]
    BY <1>1, <1>2, <2>1, TopOf DEF n
  <2>3. stack' \in Seq(Entries)
    BY DEF IInv, Core, StackOf
  <2>4. Len(stack') = k + 1 /\ stack'[k + 1] = y /\ \A i \in 1..k : stack'[i] = stack[i]
    BY <1>1, <2>2
  <2>5. ~Shows(stack[k + 1]) /\ ~Shows(stack'[k + 1])
    <3>1. stack[k + 1].kind = "retiring"
      BY <1>1, <1>2, <2>1
    <3>2. stack'[k + 1].kind = "loading"
      BY <2>4 DEF y
    <3> QED BY <3>1, <3>2 DEF Shows, IsCode, CodeKinds
  <2>6. /\ \A i \in k + 1..Len(stack) : ~Shows(stack[i])
        /\ \A i \in k + 1..Len(stack') : ~Shows(stack'[i])
        /\ k <= Len(stack) /\ k <= Len(stack')
    <3>1. \A i \in k + 1..k + 1 : i = k + 1
      OBVIOUS
    <3> QED BY <2>1, <2>4, <2>5, <3>1 DEF n
  <2> QED BY <1>2, <2>3, <2>4, <2>6, SameUnderWay
<1>11. \A o, p \in ToSet(B) : o.mod = p.mod => o = p
  BY <1>4, OneOfAName
<1>12. ASSUME NEW b \in G!Replaced(ToSet(B))
       PROVE  ~b.resident /\ b \notin UnderWay
  <2>1. b \in Running /\ \E o \in ToSet(B) : o.mod = b.mod
    BY DEF G!Replaced
  <2>2. PICK m \in ToSet(loaded) : b = build[m]
    BY <2>1 DEF Running
  <2>3. In(m, World) /\ b.mod = m /\ World.build[m] = b
    BY <1>2, <2>2, ModsAre DEF In, World
  <2>4. ~b.resident
    BY <1>5, <2>1, <2>3
  <2>5. ASSUME NEW i \in CodeAt, stack[i].kind \notin Leaves PROVE stack[i].build # b
    <3>1. i \in 1..Len(stack) /\ IsCode(stack[i]) /\ CodeOK(stack[i], World)
      BY OfCode
    <3>2. i # n
      BY <1>1, <1>2, <3>1 DEF IsCode, CodeKinds
    <3>3. i \in 1..n - 1
      BY <1>2, <3>1, <3>2 DEF n
    <3>4. World.build[stack[i].mod].resident
      BY <1>6, <3>1, <3>3 DEF Calm
    <3> QED BY <2>4, <3>1, <3>4 DEF CodeOK
  <2>6. b \notin UnderWay
    BY <2>5 DEF UnderWay, Leaves
  <2> QED BY <2>4, <2>6
<1>13. G!Fits(Running')
  BY <1>7, FitsHeld
<1>14. Running' = G!After(Running, ToSet(B))
  BY <1>9 DEF G!After, After
<1>15. G!SwapAll(ToSet(B))
  BY <1>1, <1>7, <1>10, <1>11, <1>12, <1>13, <1>14 DEF G!SwapAll
<1> QED BY <1>4, <1>15

(* Every step of the loader is one of the game's.                          *)
LEMMA GameStep ==
  ASSUME IInv, IInv', Next
  PROVE  G!GameNext
<1>1. UnderWay' \subseteq Running'
  <2>1. ShownRuns'
    BY UnderWayRuns, PTL
  <2> QED BY <2>1 DEF ShownRuns
<1>2. Closing => Closing'
  BY SessionGoesOn
<1>3. CASE Running' = Running
  BY <1>1, <1>2, <1>3, WorksOrEnds
<1>4. CASE Running' # Running
  <2>1. Swap \/ ServeUnload \/ ShutDown
    BY <1>4, BuildsStay, SameBuilds, GoneStays DEF Changes
  <2>2. CASE Swap
    BY <2>2, SwapIsSwapAll DEF G!GameNext
  <2>3. CASE ServeUnload
    <3>1. ~UNCHANGED <<loaded, running, transient, stack, plan>>
      BY <1>4, <2>3, SameBuilds DEF ServeUnload
    <3> QED BY <2>3, <3>1, UnloadIsUnload DEF G!GameNext
  <2>4. CASE ShutDown
    <3>1. loaded # <<>>
      BY <1>4, <2>4, SameBuilds DEF ShutDown
    <3> QED BY <2>4, <3>1, ShutDownIsClose DEF G!GameNext
  <2> QED BY <2>1, <2>2, <2>3, <2>4
<1> QED BY <1>3, <1>4

(* The loader implements the game: load_batch's many steps, each a mod's,  *)
(* are one swap of builds none of whose code is under way, and unload and  *)
(* shutdown let one go.                                                    *)
THEOREM ModsImplementsGame == Spec => ImplementsGame
<1>1. Init => G!GameInit
  <2> SUFFICES ASSUME Init PROVE G!GameInit
    OBVIOUS
  <2>1. stack = <<>> /\ loaded = <<>> /\ session = "starting"
    BY DEF Init
  <2>2. Running = {}
    BY <2>1, OfSequences DEF Running
  <2> QED BY <2>1, <2>2, NoneUnderWay DEF G!GameInit
<1>2. IInv /\ IInv' /\ [Next]_vars => [G!GameNext]_(G!gameVars)
  <2>1. CASE IInv /\ IInv' /\ Next
    BY <2>1, GameStep
  <2>2. CASE UNCHANGED vars
    <3>1. UNCHANGED <<loaded, build, stack, session>>
      BY <2>2 DEF vars, perMod
    <3>2. Running' = Running /\ UnderWay' = UnderWay
      BY <3>1 DEF Running, UnderWay, CodeAt
    <3> QED BY <3>1, <3>2 DEF G!gameVars
  <2> QED BY <2>1, <2>2
<1> QED BY <1>1, <1>2, ModsIsKept, PTL DEF Spec, ImplementsGame, G!GameSpec
=============================================================================
