------------------------------- MODULE MCMods -------------------------------
(***************************************************************************)
(* Small games for TLC: their builds, and the requests sent to them.       *)
(***************************************************************************)
EXTENDS ModsRefinement

Build(m, iface, deps, schema) ==
  [mod |-> m, iface |-> iface, deps |-> deps, schema |-> schema,
   resident |-> FALSE, bootstrap |-> FALSE,
   provides |-> {}, calls |-> {}, phases |-> {}, system |-> NoSystem]

Schema(layout, version, fields) == [layout |-> layout, version |-> version, fields |-> fields]

(* A bootstrap and app call a service of lib, which may try to call its    *)
(* own; lib calls one of win, which is resident; app depends on lib.  The  *)
(* new lib has another interface, and its state migrates.  app's state has *)
(* no schema, and its new builds keep its layout or not; they run their    *)
(* system in another phase.                                                *)
boot == [Build("boot", "-", {}, Schema(1, 1, {"f"})) EXCEPT
           !.resident = TRUE, !.bootstrap = TRUE, !.calls = {"step"}]
win  == [Build("win", "W", {}, Schema(1, 1, {"f"})) EXCEPT
           !.resident = TRUE, !.provides = {"poll"}]
win2 == [win EXCEPT !.schema = Schema(2, 1, {"f"})]
lib1 == [Build("lib", "L1", {<<"win", "W">>}, Schema(1, 1, {"f"})) EXCEPT
           !.provides = {"step"}, !.calls = {"poll", "step"}, !.phases = {"late"}]
lib2 == [lib1 EXCEPT !.iface = "L2", !.schema = Schema(2, 1, {"f", "g"})]
app1 == [Build("app", "-", {<<"lib", "L1">>}, Schema(1, 1, {})) EXCEPT
           !.calls = {"step"}, !.system = "late"]
app2 == [app1 EXCEPT !.deps = {<<"lib", "L2">>}, !.system = "update"]
app3 == [app2 EXCEPT !.schema = Schema(2, 1, {})]

GameNames    == {"boot", "win", "lib", "app"}
GameServices == {"step", "poll"}
GameBuilds   == {boot, win, win2, lib1, lib2, app1, app2, app3}
GameRanked   == [W |-> 0] @@ [L1 |-> 1] @@ [L2 |-> 1] @@ ("-" :> 2)
GameRequests ==
  {[what |-> "batch", batch |-> <<app2, win2, lib2, boot>>],
   [what |-> "load", batch |-> <<lib2>>], [what |-> "load", batch |-> <<app3>>],
   [what |-> "unload", mod |-> "app"], [what |-> "unload", mod |-> "lib"],
   [what |-> "send", mod |-> "app"], [what |-> "send", mod |-> "boot"],
   [what |-> "schedule"], [what |-> "quit"]}

(* The same without a bootstrap, empty at the start: mods come one by one, *)
(* and there is only the engine to pump.                                   *)
lone1 == [Build("app", "-", {}, Schema(1, 1, {"f"})) EXCEPT !.system = "update"]

GameGames ==
  {[bootstrap |-> "boot", manifest |-> <<app1, boot, lib1, win>>],
   [bootstrap |-> "none", manifest |-> <<>>]}

==============================================================================
