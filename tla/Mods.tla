-------------------------------- MODULE Mods --------------------------------
(***************************************************************************)
(* The loader (src/engine/loader/engine.rs): the loaded mods, the batches  *)
(* that swap their builds, and the calls by which a mod's code gets back   *)
(* into the loader: calls to services, frames, the pump.                   *)
(*                                                                         *)
(* One thread runs all of it, so what is concurrent is the stack: a mod's  *)
(* code may call the loader, which runs another's, or swaps builds.  An    *)
(* entry of the stack is a function of the loader that is under way, or a  *)
(* mod's code it called.  Only the entry on top takes steps, but requests  *)
(* arrive at any time (the control thread).                                *)
(***************************************************************************)
EXTENDS Builds

CONSTANTS
  Games,      \* what an engine may be started with: the name of the bootstrap
              \* mod, or None, and the batch it loads first
  Requests,   \* the requests that may come
  MaxInbox,   \* bound: requests waiting at once
  MaxPumps,   \* bound: pumps under way at once, one in another's handler
  MaxDepth    \* how deep in the stack calls are assumed to come back

(* No mod is called none; batches are of builds, and requests name mods.    *)
ASSUME GamesAssumption ==
  /\ "none" \notin Names
  /\ \A g \in Games : g.bootstrap \in Names \union {"none"} /\ g.manifest \in Seq(Builds)
  /\ \A r \in Requests :
       /\ r.what \in {"batch", "load"} => r.batch \in Seq(Builds)
       /\ r.what \in {"unload", "send"} => r.mod \in Names

VARIABLES
  (* Engine::mods: the names in load order, and each one's Loaded. *)
  loaded, build, failed, running,
  state,      \* the schema of the state's value, or NoState, or Dropped
  transient,  \* the build that made the transient part, or NoBuild
  plan,       \* the plan, if cached: the builds whose systems it has
  frame,      \* the open frame, or NoFrame
  stack,      \* what is under way, the caller first
  inbox,      \* requests waiting for a pump
  quitting,
  session,    \* "starting", "running", "ending", "over"
  game        \* the one it was started with

perMod == <<loaded, build, failed, running, state, transient>>
vars   == <<perMod, plan, frame, stack, inbox, quitting, session, game>>

None    == "none"
NoState == [version |-> 0]
Dropped == [version |-> 1]
NoFrame == [nodes |-> <<>>, logs |-> {}, open |-> FALSE]
NoPlan  == <<NoBuild>>

Init ==
  /\ loaded = <<>>
  /\ build     = [m \in Names |-> NoBuild]
  /\ failed    = [m \in Names |-> FALSE]
  /\ running   = [m \in Names |-> FALSE]
  /\ state     = [m \in Names |-> NoState]
  /\ transient = [m \in Names |-> NoBuild]
  /\ plan = NoPlan /\ frame = NoFrame
  /\ stack = <<>> /\ inbox = <<>> /\ quitting = FALSE
  /\ session = "starting" /\ game \in Games

-----------------------------------------------------------------------------
(* The stack.  Code of a mod: the build it belongs to, whether the mod was *)
(* running before (Loaded::call keeps it), the frame's node it is, if it   *)
(* is a system, and whether it holds the open frame (scheduler::Frame).    *)
CodeKinds == {"run", "load", "unload", "close", "message", "handler", "system", "serve"}

Code(kind, m, node) ==
  [kind |-> kind, mod |-> m, build |-> build[m], was |-> running[m],
   node |-> node, holds |-> FALSE]

Top      == Last(stack)
OnTop(k) == stack # <<>> /\ Top.kind = k
InCode   == stack # <<>> /\ Top.kind \in CodeKinds
Kinds    == {stack[i].kind : i \in DOMAIN stack}

(* What is borrowed of the list of mods (a RefCell).  A service's method   *)
(* runs with none of it, nor do the session and the pump's own messages.   *)
ListTaken  == Kinds \intersect {"retiring", "unloading", "closing"} # {}
ListShared == Kinds \intersect {"loading", "message", "system"} # {}

IsLoaded(m) == m \in ToSet(loaded)
Running     == {build[m] : m \in ToSet(loaded)}

(* A mod's code is entered: it is running, and finds its transient part,   *)
(* made if there is none (transient); an unload or a close takes it.       *)
Enter(kind, m) ==
  /\ running'   = [running EXCEPT ![m] = TRUE]
  /\ transient' = [transient EXCEPT ![m] =
                     IF kind \in {"unload", "close"} THEN NoBuild
                     ELSE IF @ = NoBuild THEN build[m] ELSE @]

-----------------------------------------------------------------------------
(* The session (main): the manifest is loaded as one batch, the bootstrap  *)
(* runs it, and every mod is closed at its end.                            *)
OpenedAll(batch) ==   \* a mutant: a resident build isn't kept
  {i \in DOMAIN batch : build[batch[i].mod] # batch[i]}

Opened(batch) ==   \* the places of those that aren't kept as they are
  {i \in DOMAIN batch : ~ \E m \in ToSet(loaded) :
     m = batch[i].mod /\ (build[m] = batch[i] \/ build[m].resident)}

Accepted(batch) ==
  LET opened == {batch[i] : i \in Opened(batch)}
      after  == After(Running, opened)
  IN  /\ \A i, j \in DOMAIN batch : batch[i].mod = batch[j].mod => i = j
      /\ \A o \in opened : o.mod = game.bootstrap => o.bootstrap
      /\ Linked(after) /\ ~Cyclic(batch, Opened(batch)) /\ Plannable(after)

(* load_batch, its checks passed: nothing is changed before, so a batch    *)
(* that is refused changes nothing.                                        *)
Retiring(batch) ==
  LET order == InDependencyOrder(batch, Opened(batch))
  IN  [kind |-> "retiring", batch |-> order, todo |-> Reverse(order), told |-> None]

Start ==
  /\ session = "starting"
  /\ IF Accepted(game.manifest)
     THEN session' = "running" /\ stack' = <<Retiring(game.manifest)>> /\ plan' = NoPlan
     ELSE session' = "over" /\ UNCHANGED <<stack, plan>>
  /\ UNCHANGED <<perMod, frame, inbox, quitting, game>>

RunBootstrap ==
  /\ session = "running" /\ stack = <<>> /\ game.bootstrap # None
  /\ IF /\ IsLoaded(game.bootstrap) /\ build[game.bootstrap].bootstrap
        /\ build[game.bootstrap].resident /\ ~failed[game.bootstrap]
     THEN /\ Enter("run", game.bootstrap)
          /\ stack' = <<Code("run", game.bootstrap, 0)>>
          /\ UNCHANGED session
     ELSE session' = "ending" /\ UNCHANGED <<running, transient, stack>>
  /\ UNCHANGED <<loaded, build, failed, state, plan, frame, inbox, quitting, game>>

(* Without a bootstrap nothing runs frames, and the engine pumps itself.    *)
PumpsOn ==   \* a mutant: it doesn't look whether it should quit
  /\ session = "running" /\ stack = <<>> /\ game.bootstrap = None
  /\ stack' = <<[kind |-> "pump", mod |-> None]>>
  /\ UNCHANGED <<perMod, plan, frame, inbox, quitting, session, game>>

PumpAlone ==
  /\ session = "running" /\ stack = <<>> /\ game.bootstrap = None
  /\ IF quitting THEN session' = "ending" /\ UNCHANGED stack
                 ELSE stack' = <<[kind |-> "pump", mod |-> None]>> /\ UNCHANGED session
  /\ UNCHANGED <<perMod, plan, frame, inbox, quitting, game>>

(* shutdown: the mod loaded last is popped and closed, again and again.    *)
Forget(m) ==
  /\ build'  = [build EXCEPT ![m] = NoBuild]
  /\ failed' = [failed EXCEPT ![m] = FALSE]
  /\ state'  = [state EXCEPT ![m] = NoState]

ShutDown ==
  /\ session = "ending" /\ stack = <<>>
  /\ IF loaded = <<>>
     THEN session' = "over" /\ UNCHANGED <<loaded, running, transient, stack>>
     ELSE LET m == Last(loaded)
          IN  /\ loaded' = Front(loaded)
              /\ Enter("close", m)
              /\ stack' = <<[kind |-> "closing", mod |-> m], Code("close", m, 0)>>
              /\ UNCHANGED session
  /\ UNCHANGED <<build, failed, state, plan, frame, inbox, quitting, game>>

(* A mod that is unloaded, or closed at the end, is gone with its state.   *)
Gone ==
  /\ OnTop("closing") \/ OnTop("unloading")
  /\ Forget(Top.mod)
  /\ stack' = Front(stack)
  /\ UNCHANGED <<loaded, running, transient, plan, frame, inbox, quitting, session, game>>

-----------------------------------------------------------------------------
(* load_batch, once accepted.  Retiring: the builds to be replaced, those  *)
(* that depend on others first.                                            *)
Hook(kind, m, entry) ==
  /\ Enter(kind, m)
  /\ stack' = Front(stack) \o <<entry, Code(kind, m, 0)>>

Untold == OnTop("retiring") /\ Top.todo # <<>> /\ Top.told = None
Old(o) == build[o.mod]

RetireNone ==   \* nothing of that name runs
  /\ Untold /\ ~IsLoaded(Head(Top.todo).mod)
  /\ stack' = Append(Front(stack), [Top EXCEPT !.todo = Tail(@)])
  /\ UNCHANGED <<perMod, plan, frame, inbox, quitting, session, game>>

Retire ==
  /\ Untold /\ IsLoaded(Head(Top.todo).mod)
  /\ LET o   == Head(Top.todo)
         how == IF Carried(Old(o).schema, o.schema) THEN "unload" ELSE "close"
     IN  Hook(how, o.mod, [Top EXCEPT !.told = how])
  /\ UNCHANGED <<loaded, build, failed, state, plan, frame, inbox, quitting, session, game>>

(* The old build has let go.  A state without a schema may turn out to     *)
(* point into its build: it is closed after all.                           *)
PointsIntoItsBuild ==
  /\ OnTop("retiring") /\ Top.told = "unload"
  /\ Old(Head(Top.todo)).schema.fields = {}
  /\ Hook("close", Head(Top.todo).mod, [Top EXCEPT !.told = "close"])
  /\ UNCHANGED <<loaded, build, failed, state, plan, frame, inbox, quitting, session, game>>

(* The state is left as it is for the new build, or migrated, or made anew *)
(* when it was dropped: of the new build's schema in the last two cases.   *)
HandOverAsIs ==   \* a mutant: a migrated state keeps its old layout
  /\ OnTop("retiring") /\ Top.told # None
  /\ LET o == Head(Top.todo)
     IN  state' = [state EXCEPT ![o.mod] = IF Top.told = "unload" THEN @ ELSE o.schema]
  /\ stack' = Append(Front(stack), [Top EXCEPT !.todo = Tail(@), !.told = None])
  /\ UNCHANGED <<loaded, build, failed, running, transient, plan, frame, inbox, quitting, session, game>>

HandOver ==
  /\ OnTop("retiring") /\ Top.told # None
  /\ LET o == Head(Top.todo)
     IN  state' = [state EXCEPT ![o.mod] =
                     IF Top.told = "unload" /\ ~Migrates(Old(o).schema, o.schema)
                     THEN @ ELSE o.schema]
  /\ stack' = Append(Front(stack), [Top EXCEPT !.todo = Tail(@), !.told = None])
  /\ UNCHANGED <<loaded, build, failed, running, transient, plan, frame, inbox, quitting, session, game>>

(* The new builds are swapped in together, and the list is only shared     *)
(* from here.                                                              *)
NewNames(batch) == Keep([i \in DOMAIN batch |-> batch[i].mod], Names \ ToSet(loaded))
BuildIn(batch, m) == CHOOSE o \in ToSet(batch) : o.mod = m

Swap ==
  /\ OnTop("retiring") /\ Top.todo = <<>>
  /\ LET batch   == Top.batch
         swapped == {o.mod : o \in ToSet(batch)}
     IN  /\ loaded' = loaded \o NewNames(batch)
         /\ build'  = [m \in Names |-> IF m \in swapped THEN BuildIn(batch, m) ELSE build[m]]
         /\ failed' = [m \in Names |-> IF m \in swapped THEN FALSE ELSE failed[m]]
         /\ state'  = [m \in Names |-> IF m \in swapped /\ ~IsLoaded(m)
                                       THEN BuildIn(batch, m).schema ELSE state[m]]
         /\ stack'  = Append(Front(stack),
                             [kind |-> "loading", todo |-> [i \in DOMAIN batch |-> batch[i].mod]])
  /\ UNCHANGED <<running, transient, plan, frame, inbox, quitting, session, game>>

Load ==
  /\ OnTop("loading") /\ Top.todo # <<>>
  /\ Hook("load", Head(Top.todo), [Top EXCEPT !.todo = Tail(@)])
  /\ UNCHANGED <<loaded, build, failed, state, plan, frame, inbox, quitting, session, game>>

Loaded ==
  /\ OnTop("loading") /\ Top.todo = <<>>
  /\ stack' = Front(stack)
  /\ UNCHANGED <<perMod, plan, frame, inbox, quitting, session, game>>

-----------------------------------------------------------------------------
(* The pump.  Requests come at any time; one is served only when nothing   *)
(* but residents run, no frame is open, and the list isn't borrowed.       *)
Ask(r) ==
  /\ session = "running" /\ Len(inbox) < MaxInbox
  /\ inbox' = Append(inbox, r)
  /\ UNCHANGED <<perMod, plan, frame, stack, quitting, session, game>>

SafePoint(m) ==
  /\ ~frame.open /\ ~ListTaken /\ ~ListShared
  /\ IsLoaded(m) /\ build[m].resident
  /\ \A n \in ToSet(loaded) : build[n].resident \/ ~running[n]

Pumps == {i \in DOMAIN stack : stack[i].kind = "pump"}

Pump ==
  /\ InCode /\ ~Top.holds
  /\ SafePoint(Top.mod)
  /\ Cardinality(Pumps) < MaxPumps
  /\ stack' = Append(stack, [kind |-> "pump", mod |-> Top.mod])
  /\ UNCHANGED <<perMod, plan, frame, inbox, quitting, session, game>>

Pumped ==
  /\ OnTop("pump") /\ inbox = <<>>
  /\ stack' = Front(stack)
  /\ UNCHANGED <<perMod, plan, frame, inbox, quitting, session, game>>

Serving(what) == OnTop("pump") /\ inbox # <<>> /\ Head(inbox).what = what

ServeBatch ==   \* a batch, or a load, which is refused if it is resident
  /\ Serving("batch") \/ Serving("load")
  /\ LET r == Head(inbox)
     IN  IF /\ Accepted(r.batch)
            /\ r.what = "load" => \A i \in DOMAIN r.batch :
                 LET o == r.batch[i]
                 IN  IsLoaded(o.mod) /\ build[o.mod].resident => build[o.mod] = o
         THEN stack' = Append(stack, Retiring(r.batch)) /\ plan' = NoPlan
         ELSE UNCHANGED <<stack, plan>>
  /\ inbox' = Tail(inbox)
  /\ UNCHANGED <<perMod, frame, quitting, session, game>>

ServeUnload ==
  /\ Serving("unload")
  /\ inbox' = Tail(inbox)
  /\ LET m == Head(inbox).mod
     IN  IF /\ IsLoaded(m) /\ ~build[m].resident
            /\ \A n \in ToSet(loaded) : m \notin Deps(build[n])
            /\ Plannable(Running \ {build[m]})
         THEN /\ loaded' = Keep(loaded, Names \ {m})
              /\ Enter("close", m)
              /\ stack' = stack \o <<[kind |-> "unloading", mod |-> m], Code("close", m, 0)>>
              /\ plan' = NoPlan
         ELSE UNCHANGED <<loaded, running, transient, stack, plan>>
  /\ UNCHANGED <<build, failed, state, frame, quitting, session, game>>

(* A message: the pump's caller has a handler for its own, which runs as   *)
(* it; another mod takes it if it hasn't failed and isn't running.         *)
SendToAny ==   \* a mutant: the mod needn't be loaded
  /\ Serving("send")
  /\ inbox' = Tail(inbox)
  /\ LET m == Head(inbox).mod
     IN  IF ~failed[m] /\ ~running[m]
         THEN Enter("message", m) /\ stack' = Append(stack, Code("message", m, 0))
         ELSE UNCHANGED <<stack, running, transient>>
  /\ UNCHANGED <<loaded, build, failed, state, plan, frame, quitting, session, game>>

ServeSend ==
  /\ Serving("send")
  /\ inbox' = Tail(inbox)
  /\ LET m == Head(inbox).mod
     IN  IF m = Top.mod
         THEN stack' = Append(stack, Code("handler", m, 0)) /\ UNCHANGED <<running, transient>>
         ELSE IF IsLoaded(m) /\ ~failed[m] /\ ~running[m]
         THEN Enter("message", m) /\ stack' = Append(stack, Code("message", m, 0))
         ELSE UNCHANGED <<stack, running, transient>>
  /\ UNCHANGED <<loaded, build, failed, state, plan, frame, quitting, session, game>>

(* The plan is cached until the builds change (in which order it has the   *)
(* systems is schedule.rs's, and left out).                                *)
PlanOf(names) ==
  Keep([i \in DOMAIN names |-> build[names[i]]], {b \in Builds : b.system # NoSystem})
Plan == IF plan = NoPlan THEN PlanOf(loaded) ELSE plan

ServeSchedule ==   \* it is told, and cached if it wasn't
  /\ Serving("schedule")
  /\ inbox' = Tail(inbox) /\ plan' = Plan
  /\ UNCHANGED <<perMod, frame, stack, quitting, session, game>>

ServeQuit ==
  /\ Serving("quit")
  /\ inbox' = Tail(inbox) /\ quitting' = TRUE
  /\ UNCHANGED <<perMod, plan, frame, stack, session, game>>

-----------------------------------------------------------------------------
(* A mod's code calls a service (begin_call): the provider's current       *)
(* build, unless it failed, or is running up the stack.                    *)
CallFailed(s) ==   \* a mutant: into a failed provider
  /\ InCode /\ ~Top.holds /\ s \in Top.build.calls
  /\ ~ListTaken
  /\ \E p \in ToSet(loaded) :
       /\ s \in build[p].provides
       /\ ~running[p]
       /\ Enter("serve", p)
       /\ stack' = Append(stack, Code("serve", p, 0))
  /\ UNCHANGED <<loaded, build, failed, state, plan, frame, inbox, quitting, session, game>>

Call(s) ==
  /\ InCode /\ ~Top.holds /\ s \in Top.build.calls
  /\ ~ListTaken
  /\ \E p \in ToSet(loaded) :
       /\ s \in build[p].provides
       /\ ~failed[p] /\ ~running[p]
       /\ Enter("serve", p)
       /\ stack' = Append(stack, Code("serve", p, 0))
  /\ UNCHANGED <<loaded, build, failed, state, plan, frame, inbox, quitting, session, game>>

(* begin_frame: each system is followed by its apply node.  Refused inside  *)
(* a frame, or while the list is taken.                                    *)
Nodes(p) ==
  [i \in 1..2 * Len(p) |-> [what |-> IF i % 2 = 1 THEN "system" ELSE "apply",
                            build |-> p[(i + 1) \div 2]]]

MayOpenAnyTime ==   \* a mutant: while builds are being swapped, too
  InCode /\ ~Top.holds /\ ~frame.open /\ Plannable(Running)

MayOpen == InCode /\ ~Top.holds /\ ~frame.open /\ ~ListTaken /\ Plannable(Running)

OpenFrame == /\ plan'  = Plan
             /\ frame' = [nodes |-> Nodes(Plan), logs |-> {}, open |-> TRUE]

StepMods ==   \* run_frame: the loader's own, every node in order
  /\ MayOpen /\ OpenFrame
  /\ stack' = Append(stack, [kind |-> "stepping", next |-> 1])
  /\ UNCHANGED <<perMod, inbox, quitting, session, game>>

Begin ==   \* scheduler::begin: the caller runs the nodes, and holds the frame
  /\ MayOpen /\ OpenFrame
  /\ stack' = Append(Front(stack), [Top EXCEPT !.holds = TRUE])
  /\ UNCHANGED <<perMod, inbox, quitting, session, game>>

(* run_node: a system of a mod that failed, or is running, is skipped; an  *)
(* apply node lands its system's log, if it ran, and may panic.            *)
RunNode(i, entry) ==
  LET m == frame.nodes[i].build.mod
  IN  \/ /\ frame.nodes[i].what = "system"
         /\ IF IsLoaded(m) /\ ~failed[m] /\ ~running[m]
            THEN /\ Enter("system", m)
                 /\ stack' = Front(stack) \o <<entry, Code("system", m, i)>>
            ELSE /\ stack' = Append(Front(stack), entry)
                 /\ UNCHANGED <<running, transient>>
         /\ UNCHANGED <<failed, frame>>
      \/ /\ frame.nodes[i].what = "apply"
         /\ frame' = [frame EXCEPT !.logs = @ \ {i - 1}]
         /\ \/ UNCHANGED failed
            \/ i - 1 \in frame.logs /\ failed' = [failed EXCEPT ![m] = TRUE]
         /\ stack' = Append(Front(stack), entry)
         /\ UNCHANGED <<running, transient>>

RunNext ==
  /\ OnTop("stepping") /\ Top.next \in DOMAIN frame.nodes
  /\ RunNode(Top.next, [Top EXCEPT !.next = @ + 1])
  /\ UNCHANGED <<loaded, build, state, plan, inbox, quitting, session, game>>

RunAny ==
  /\ InCode /\ Top.holds
  /\ \E i \in DOMAIN frame.nodes : RunNode(i, Top)
  /\ UNCHANGED <<loaded, build, state, plan, inbox, quitting, session, game>>

Stepped ==
  /\ OnTop("stepping") /\ Top.next \notin DOMAIN frame.nodes
  /\ frame' = NoFrame
  /\ stack' = Front(stack)
  /\ UNCHANGED <<perMod, plan, inbox, quitting, session, game>>

EndFrame ==
  /\ InCode /\ Top.holds
  /\ frame' = NoFrame
  /\ stack' = Append(Front(stack), [Top EXCEPT !.holds = FALSE])
  /\ UNCHANGED <<perMod, plan, inbox, quitting, session, game>>

-----------------------------------------------------------------------------
(* A mod's code comes back: the flag is what it was (Loaded::call,         *)
(* run_system), or FALSE (end_call, run_bootstrap).                        *)
LeaveRunning(e) ==   \* a mutant: the end of a call leaves the flag
  running' = [running EXCEPT ![e.mod] = e.kind # "run" /\ (e.kind = "serve" \/ e.was)]

Leave(e) ==
  running' = [running EXCEPT ![e.mod] = e.kind \notin {"serve", "run"} /\ e.was]

Ends(e) == session' = IF e.kind = "run" THEN "ending" ELSE session

Return ==
  /\ InCode /\ ~Top.holds
  /\ IF Top.kind = "handler" THEN UNCHANGED running ELSE Leave(Top)
  /\ state' = IF Top.kind = "close" THEN [state EXCEPT ![Top.mod] = Dropped] ELSE state
  /\ frame' = IF Top.kind = "system" THEN [frame EXCEPT !.logs = @ \union {Top.node}] ELSE frame
  /\ Ends(Top)
  /\ stack' = Front(stack)
  /\ UNCHANGED <<loaded, build, failed, transient, plan, inbox, quitting, game>>

(* It panics: caught where its build was entered, or, for a pump's         *)
(* handler, where the code that pumped was; the frame it holds ends, and   *)
(* the mod has failed.  A close that panics leaves its state undropped.    *)
Caught == CHOOSE i \in DOMAIN stack :
  /\ stack[i].kind \in CodeKinds \ {"handler"}
  /\ \A j \in i + 1..Len(stack) : stack[j].kind \in {"handler", "pump"}

PanicKeepsFrame ==   \* a mutant: the frame stays open
  /\ InCode
  /\ LET e == stack[Caught]
     IN  /\ Leave(e) /\ Ends(e)
         /\ failed' = [failed EXCEPT ![e.mod] = TRUE]
  /\ stack' = SubSeq(stack, 1, Caught - 1)
  /\ UNCHANGED <<loaded, build, state, transient, plan, frame, inbox, quitting, game>>

Panic ==
  /\ InCode
  /\ LET e == stack[Caught]
     IN  /\ Leave(e) /\ Ends(e)
         /\ failed' = [failed EXCEPT ![e.mod] = TRUE]
  /\ frame' = IF Top.holds THEN NoFrame ELSE frame
  /\ stack' = SubSeq(stack, 1, Caught - 1)
  /\ UNCHANGED <<loaded, build, state, transient, plan, inbox, quitting, game>>

-----------------------------------------------------------------------------
(* What the loader does by itself, and what the code on top may do.        *)
Engine ==
  \/ Start \/ RunBootstrap \/ PumpAlone \/ ShutDown \/ Gone
  \/ RetireNone \/ Retire \/ PointsIntoItsBuild \/ HandOver \/ Swap \/ Load \/ Loaded
  \/ Pumped \/ ServeBatch \/ ServeUnload \/ ServeSend \/ ServeSchedule \/ ServeQuit
  \/ RunNext \/ Stepped

Next ==
  \/ Engine
  \/ \E r \in Requests : Ask(r)
  \/ Pump \/ StepMods \/ Begin \/ RunAny \/ EndFrame
  \/ \E s \in Services : Call(s)
  \/ Return \/ Panic

Spec == Init /\ [][Next]_vars

(* What a fair run needs: the loader goes on (this is WF_vars(Engine) with *)
(* ENABLED written out, which TLC is slow to find here), and where the     *)
(* engine itself pumps, each call of a mod's code comes back, however deep *)
(* in the stack.                                                           *)
Going == session # "over" /\ ~InCode

Alone == game.bootstrap = None

Called(d) == Len(stack) >= d /\ stack[d].kind \in CodeKinds

FairSpec ==
  /\ Spec /\ ([]<>~Going \/ []<><<Engine>>_vars)
  /\ \A d \in 2..MaxDepth : []<>(Alone => ~Called(d))

-----------------------------------------------------------------------------
(* Every variable is of its type.                                          *)
Entries ==
  [kind : CodeKinds, mod : Names, build : Builds, was : BOOLEAN, node : Nat, holds : BOOLEAN]
    \union [kind : {"pump"}, mod : Names \union {None}]
    \union [kind : {"closing", "unloading"}, mod : Names]
    \union [kind : {"loading"}, todo : Seq(Names)]
    \union [kind : {"stepping"}, next : Nat]
    \union [kind : {"retiring"}, batch : Seq(Builds), todo : Seq(Builds),
            told : {None, "unload", "close"}]

TypeOK ==
  /\ loaded \in Seq(Names)
  /\ build \in [Names -> Builds \union {NoBuild}]
  /\ failed \in [Names -> BOOLEAN] /\ running \in [Names -> BOOLEAN]
  /\ state \in [Names -> {b.schema : b \in Builds} \union {NoState, Dropped}]
  /\ transient \in [Names -> Builds \union {NoBuild}]
  /\ plan \in Seq(Builds) \union {NoPlan}
  /\ stack \in Seq(Entries) /\ inbox \in Seq(Requests)
  /\ quitting \in BOOLEAN /\ session \in {"starting", "running", "ending", "over"}

CodeAt == {i \in DOMAIN stack : stack[i].kind \in CodeKinds}

(* No code on the stack is of a build that was swapped out, whose library  *)
(* is unmapped (safe_point, whoever of the stack pumps); its state is a    *)
(* live value of its own build's schema, never one of the build before,    *)
(* nor one that was dropped; and what a mod has that is transient is of    *)
(* its current build, which alone has the code to drop it.                 *)
CodeHasItsOwn ==
  /\ \A i \in CodeAt :
       /\ stack[i].build = build[stack[i].mod]
       /\ state[stack[i].mod] = stack[i].build.schema
  /\ \A m \in Names : transient[m] \in {NoBuild, build[m]}

(* A mod's code is on the stack once, as each has its state by &mut (a     *)
(* pump's handler is the pumping code's own closure), and the running flag *)
(* says whether it is, however it was entered and left, panics included.   *)
StateOnce ==
  /\ \A i, j \in CodeAt :
       stack[i].mod = stack[j].mod /\ i < j => stack[j].kind = "handler"
  /\ \A m \in Names : running[m] <=> \E i \in CodeAt : stack[i].mod = m

(* What may be taken once is: the list of mods is a RefCell, which the     *)
(* loader changes, on behalf of a pump, only when nothing up the stack     *)
(* borrows it, and which the end of a call can always borrow to clear the  *)
(* provider's running; and a frame is open exactly while one entry of the  *)
(* stack steps it or holds it: a scheduler that panics takes its frame     *)
(* with it.                                                                *)
Holders ==
  {i \in DOMAIN stack : stack[i].kind = "stepping" \/ (i \in CodeAt /\ stack[i].holds)}

FrameAndList ==
  /\ OnTop("pump") => ~ListTaken /\ ~ListShared
  /\ OnTop("serve") => ~ListTaken
  /\ Cardinality(Holders) = IF frame.open THEN 1 ELSE 0

(* However calls, hooks, pumps and frames nest, and panic, what can be     *)
(* borrowed once is: a mod's state, the list of mods, the frame.           *)
BorrowedOnce == StateOnce /\ FrameAndList

(* In a session every mod runs against the interfaces it was built         *)
(* against, whatever was swapped, kept or unloaded, the systems fit, and   *)
(* the cached plan and the open frame's nodes are the running builds': a   *)
(* node's index into its mod's systems is never into another build's.      *)
RunningFits ==
  session = "running" =>
    /\ Linked(Running) /\ Plannable(Running)
    /\ plan # NoPlan => plan = PlanOf(loaded)
    /\ frame.open => frame.nodes = Nodes(PlanOf(loaded))

(* A failed mod's code isn't run, but to let its build go or to load.      *)
FailedOut ==
  \A i \in CodeAt :
    stack[i].kind \notin {"load", "unload", "close"} => ~failed[stack[i].mod]

(* A mod's load runs after those of the mods it depends on, whose services *)
(* it may call.                                                            *)
LoadsFollow ==
  \A i \in CodeAt : stack[i].kind = "load" =>
    Deps(stack[i].build) \intersect ToSet(stack[i - 1].todo) = {}

(* Code is entered only when its mod is fit for it.                        *)
EnteredWhenFit == FailedOut /\ LoadsFollow

(* Where the engine itself pumps, every request is answered, unless the    *)
(* session ends first; and one that asks to quit ends it, if requests stop *)
(* coming: a pump serves what is there until nothing is.                   *)
Quiet    == <>[][Len(inbox') <= Len(inbox)]_inbox
Answered ==
  /\ Alone /\ inbox # <<>> ~> inbox = <<>> \/ session = "over"
  /\ Quiet => (Alone /\ quitting ~> session = "over")
=============================================================================
