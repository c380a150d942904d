-------------------------------- MODULE Flows --------------------------------
(***************************************************************************)
(* Flows (src/engine/ecs/flows.rs): a value that a system makes and others *)
(* see, pass and take in the same step, and the bin from which the next    *)
(* maker starts.                                                           *)
(*                                                                         *)
(* A value is of the step it was made in, and of the build whose code      *)
(* drops it: the one that made it or had it last.                          *)
(***************************************************************************)
EXTENDS Integers, SequencesExt

CONSTANTS
  FlowNames,
  Recycling     \* whether Make starts from what is left (set_flow_recycling)

NoValue == [made |-> <<>>, by |-> 0]

VARIABLES slots     \* of each flow: its value, its bin, and the builds it keeps mapped

Value == [made : Nat \X Nat, by : Nat \ {0}]
Slot(modNames) ==
  [value : Value \union {NoValue}, bin : Value \union {NoValue},
   keepalives : [modNames -> Nat]]

FlowsInit(modNames) ==
  slots = [f \in FlowNames |->
             [value |-> NoValue, bin |-> NoValue, keepalives |-> [m \in modNames |-> 0]]]

-----------------------------------------------------------------------------
(* The first value left is kept for the next maker, others are dropped.    *)
ToBin(slot, v) == IF Recycling /\ slot.bin = NoValue THEN [slot EXCEPT !.bin = v] ELSE slot

(* A use from its fetch to the end of the system, whether that returns or  *)
(* panics: what it finds, and the slot it leaves.  Made starts from the    *)
(* value an earlier step left, else from the bin.                          *)
Found(slot, access) == access = "Make" \/ slot.value # NoValue

Used(slot, access, now, build, kept) ==
  CASE access = "Make" ->
         [slot EXCEPT !.value = [made |-> now, by |-> build],
                      !.bin = IF slot.value = NoValue THEN NoValue ELSE @]
    [] access = "See"  -> slot
    [] access = "Pass" -> [slot EXCEPT !.value.by = build]
    [] access = "Take" ->
         LET taken == [slot EXCEPT !.value = NoValue]
         IN  IF kept THEN taken ELSE ToBin(taken, [slot.value EXCEPT !.by = build])

(* Of a system's uses, of as many flows, those before the first that finds *)
(* nothing are fetched, and let go again; if there is one, the system      *)
(* fails.                                                                  *)
FoundAt(uses, i) == Found(slots[uses[i].flow], uses[i].access)

AllFound(uses) == \A i \in DOMAIN uses : FoundAt(uses, i)

Fetched(uses) == {uses[i] : i \in {i \in DOMAIN uses : \A j \in 1..i : FoundAt(uses, j)}}

UseFlows(uses, now, build, kept) ==
  slots' = [f \in FlowNames |->
              IF \E u \in Fetched(uses) : u.flow = f
              THEN LET u == CHOOSE u \in Fetched(uses) : u.flow = f
                   IN  Used(slots[f], u.access, now, build, kept)
              ELSE slots[f]]

(* Empties every flow at the end of a frame.                               *)
ExpireFlows ==
  slots' = [f \in FlowNames |->
              IF slots[f].value = NoValue THEN slots[f]
              ELSE ToBin([slots[f] EXCEPT !.value = NoValue], slots[f].value)]

(* As a batch of builds commits: what a flow they use holds is dropped,    *)
(* and each build is kept mapped for it.                                   *)
InstallFlowsKeepingBin(builds) ==
  slots' = [f \in FlowNames |->
              LET users == {b \in builds : f \in b.flows}
              IN  IF users = {} THEN slots[f]
                  ELSE [slots[f] EXCEPT !.value = NoValue,
                          !.keepalives = [m \in DOMAIN @ |->
                            IF \E b \in users : b.name = m
                            THEN (CHOOSE b \in users : b.name = m).loadedAt ELSE @[m]]]]
InstallFlows(builds) ==
  slots' = [f \in FlowNames |->
              LET users == {b \in builds : f \in b.flows}
              IN  IF users = {} THEN slots[f]
                  ELSE [value |-> NoValue, bin |-> NoValue,
                        keepalives |-> [m \in DOMAIN slots[f].keepalives |->
                          IF \E b \in users : b.name = m
                          THEN (CHOOSE b \in users : b.name = m).loadedAt
                          ELSE slots[f].keepalives[m]]]]

-----------------------------------------------------------------------------
(* A value's drop code is of a build its flow keeps mapped: what letting   *)
(* it go, in place, at the end of the frame or at an install, will run.    *)
Mapped(slot, v) == v = NoValue \/ \E m \in DOMAIN slot.keepalives : slot.keepalives[m] = v.by

ValuesMapped ==
  \A f \in FlowNames : Mapped(slots[f], slots[f].value) /\ Mapped(slots[f], slots[f].bin)
==============================================================================
