------------------------------ MODULE MCFrames ------------------------------
(***************************************************************************)
(* A small game for TLC: a simulation at 60 steps a second that makes a    *)
(* flow and sends events, mods that take part in its steps, one that runs  *)
(* once a frame, and one at a slower rate; and builds that don't fit.      *)
(***************************************************************************)
EXTENDS Frames

GameKinds == {"hit", "key"}
GameMods  == {"sim", "view", "ui", "ai"}

System(name, phase) ==
  [name |-> name, phase |-> phase, after |-> {}, before |-> {}, uses |-> <<>>,
   reads |-> {}, sends |-> {}]
Uses(access) == <<[flow |-> "shape", access |-> access, ty |-> 1]>>

Build(name, systems) ==
  [name |-> name, systems |-> systems, phases |-> <<>>, sendsBetween |-> {},
   layouts |-> [k \in GameKinds |-> 1]]

(* A simulation makes a flow and passes it on, a mod sees it, and another  *)
(* takes it.                                                               *)
simMake == [System("sim::make", "simulate") EXCEPT !.uses = Uses("Make")]
simPass == [System("sim::pass", "simulate") EXCEPT !.uses = Uses("Pass")]
viewSee == [System("view::see", "simulate") EXCEPT !.uses = Uses("See"), !.before = {"ui::take"}]
uiTake  == [System("ui::take", "simulate") EXCEPT !.uses = Uses("Take"), !.after = {"sim::pass"}]
sim1    == Build("sim", <<simMake, simPass>>)
view1   == Build("view", <<viewSee>>)
ui1     == Build("ui", <<uiTake>>)
ui2     == Build("ui", <<>>)

(* Builds there is no plan with: constraints in a cycle, one across phases *)
(* that disagrees with them, phases in a cycle, a phase nobody declares, a *)
(* flow used once a frame, seen early, taken twice, of another type.       *)
Phase(name, after, hz) == [name |-> name, after |-> {after}, before |-> {}, hz |-> hz]
Bad(s) == Build("ai", <<s>>)
bad    == System("ai::bad", "simulate")
seer   == [bad EXCEPT !.uses = Uses("See")]
BadBuilds ==
  {Bad([bad EXCEPT !.after = {"sim::pass"}, !.before = {"sim::make"}]),
   Bad([bad EXCEPT !.phase = "late", !.before = {"ui::take"}]),
   Bad([bad EXCEPT !.phase = "think"]), Bad([seer EXCEPT !.phase = "render"]),
   Bad([seer EXCEPT !.before = {"sim::make"}]),
   Bad([seer EXCEPT !.uses = Uses("Take"), !.before = {"ui::take"}]),
   Bad([seer EXCEPT !.uses[1].ty = 2]),
   [Bad(bad) EXCEPT !.phases = <<Phase("think", "late", 30), [Phase("late", "think", 0) EXCEPT !.before = {"simulate"}]>>]}

(* Events: sent in every step, read before it once a frame and after it at *)
(* half the rate; and sent between frames.  The sender's next build has    *)
(* another layout.                                                         *)
simHit  == [System("sim::hit", "simulate") EXCEPT !.sends = {"hit"}, !.reads = {"key"}]
uiInput == [System("ui::input", "input") EXCEPT !.reads = {"hit"}]
aiThink == [System("ai::think", "think") EXCEPT !.reads = {"hit"}]
hits1   == Build("sim", <<simHit>>)
input1  == [Build("ui", <<uiInput>>) EXCEPT !.sendsBetween = {"key"}]
ai1     == [Build("ai", <<aiThink>>) EXCEPT !.phases = <<Phase("think", "simulate", 30)>>]
Anew(b) == [b EXCEPT !.layouts["hit"] = 2]

(* No time, a step's, two, and more than the cap allows; rounded down.     *)
Time(ticks) == [is |-> ticks, got |-> ticks - 1]
NoTime      == [is |-> 0, got |-> 0]

Flowing ==
  [batches |-> {<<sim1, ui1, view1>>, <<sim1>>, <<ui2>>}, others |-> {<<b>> : b \in BadBuilds},
   unloads |-> {"ui", "sim"}, times |-> {NoTime, Time(20)}, running |-> {{}, {"sim"}},
   maxLoads |-> 5, maxFrames |-> 2, maxSent |-> 0]
Sending ==
  [batches |-> {<<ai1, input1, hits1>>, <<Anew(input1), Anew(hits1), Anew(ai1)>>}, others |-> {},
   unloads |-> {}, times |-> {NoTime, Time(10)}, running |-> {{}},
   maxLoads |-> 6, maxFrames |-> 3, maxSent |-> 2]
Stepping ==
  [batches |-> {<<Build("sim", <<bad>>), ai1>>, <<ai1>>}, others |-> {},
   unloads |-> {"ai"}, times |-> {NoTime, Time(10), Time(40)}, running |-> {{}},
   maxLoads |-> 3, maxFrames |-> 5, maxSent |-> 0]
GameGames   == {Flowing, Sending, Stepping}
GameReaders == {"sim::hit", "ui::input", "ai::think"}
GameFlows   == {"shape"}
GamePhases  == <<"input", "update", "simulate", "late", "render">>
==============================================================================
