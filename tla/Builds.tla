------------------------------- MODULE Builds -------------------------------
(***************************************************************************)
(* What the loader reads from a mod's builds before it swaps any in        *)
(* (src/engine/loader/engine.rs, open to in_dependency_order): names,      *)
(* interface digests, residency, services, state schemas, systems.         *)
(***************************************************************************)
EXTENDS Naturals, SequencesExt

CONSTANTS
  Names,    \* the names mods are loaded under
  Services, \* the services mods call each other by
  Builds,   \* every build there is to load: records as below
  Ranked    \* each interface's digest, ranked by what went into it

(* A build says: mod, the name it is loaded under; iface, its interface's  *)
(* digest; deps, the <<name, digest>> pairs it was built against; whether  *)
(* it is resident, and a bootstrap; schema, its state's layout, version    *)
(* and fields ({} for a state without a schema); provides and calls, the   *)
(* services it offers and uses; phases, those it declares; and system, the *)
(* phase its system runs in, or NoSystem.                                  *)
NoBuild  == [mod |-> "none"]
NoSystem == "none"
Builtin  == {"update"}   \* the engine's own phases

Deps(b) == {d[1] : d \in b.deps}

(* A digest covers those of the interfaces it depends on (mod_links), so   *)
(* it cannot have gone into one of them.                                   *)
ASSUME BuildsAssumption ==
  /\ \A b \in Builds : b.mod \in Names /\ Deps(b) \subseteq Names
  /\ \A b \in Builds : Ranked[b.iface] \in Nat
  /\ \A b \in Builds : \A d \in b.deps :
       d[2] \in DOMAIN Ranked /\ Ranked[d[2]] < Ranked[b.iface]

-----------------------------------------------------------------------------
(* The mods after a batch: those running but not in it, and those in it.   *)
After(running, opened) ==
  {r \in running : \A o \in opened : o.mod # r.mod} \union opened

(* check_links: every mod runs against the interfaces it was built         *)
(* against, residents on residents, one provider a service.                *)
Linked(S) ==
  /\ \A b \in S : \A d \in b.deps :
       \E c \in S : /\ c.mod = d[1] /\ c.iface = d[2]
                    /\ b.resident => c.resident
  /\ \A b, c \in S : b.provides \intersect c.provides # {} => b = c

(* check_plan, as far as one build's systems may need another's phases.    *)
Plannable(S) ==
  \A b \in S : b.system \in {NoSystem} \union Builtin \union UNION {c.phases : c \in S}

(* in_dependency_order, of a batch's builds at some places: the first left *)
(* that depends on none left, again and again; what is left of a cycle is  *)
(* never taken.                                                            *)
FreeAll(batch, left) == left   \* a mutant: dependencies aren't looked at

Free(batch, left) ==
  {i \in left : \A j \in left : batch[j].mod \notin Deps(batch[i])}

Least(S) == CHOOSE i \in S : \A j \in S : i <= j

TakeFree(batch, sorted) ==
  LET free == Free(batch, sorted.left)
  IN  IF free = {} THEN sorted
      ELSE [taken |-> Append(sorted.taken, batch[Least(free)]),
            left  |-> sorted.left \ {Least(free)}]

Sorted(batch, left) ==
  LET after[k \in 0..Len(batch)] ==
        IF k = 0 THEN [taken |-> <<>>, left |-> left] ELSE TakeFree(batch, after[k - 1])
  IN  after[Len(batch)]

InDependencyOrder(batch, left) == Sorted(batch, left).taken
Cyclic(batch, left)            == Sorted(batch, left).left # {}

(* What of a sequence is in a set, as it comes: SelectSeq, as a recursive  *)
(* function.                                                               *)
Keep(s, S) ==
  LET kept[k \in 0..Len(s)] ==
        IF k = 0 THEN <<>>
        ELSE IF s[k] \in S THEN Append(kept[k - 1], s[k]) ELSE kept[k - 1]
  IN  kept[Len(s)]

(* How a state passes to a build with schema t: as is, or migrated field   *)
(* by field, or dropped by the old build for the new one to start over.    *)
Migrates(s, t) == s # t /\ s.version = t.version /\ s.fields # {} /\ t.fields # {}
Carried(s, t)  == s = t \/ Migrates(s, t)
=============================================================================
