----------------------------- MODULE MCDispatch -----------------------------
(***************************************************************************)
(* Small plans for TLC: what a stage is, and which stages share marks, as  *)
(* one_stage and the shapes build them.                                    *)
(***************************************************************************)
EXTENDS DispatchRefinement

(* Stages that share a mark are of one chain (a program is a chain, and    *)
(* marks are made for it): without it a stage raises the marks of one that *)
(* runs beside it, whose blocks nobody then takes.                         *)
SameChain(g, h) == \A s \in g + 1..h : s \notin Heads
ASSUME MarksOfOneChain ==
  \A g, h \in Stages : g < h =>
    \/ SameChain(g, h)
    \/ Base[g] + Blocks[g] <= Base[h] \/ Base[h] + Blocks[h] <= Base[g]

(* Two chains side by side: two stages over the same marks, the second     *)
(* with one block more; and a stage alone.                                 *)
TwoChainsHeads  == {1, 3}
TwoChainsBlocks == <<2, 3, 1>>
TwoChainsBase   == <<0, 0, 3>>
=============================================================================
