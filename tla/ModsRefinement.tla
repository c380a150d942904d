--------------------------- MODULE ModsRefinement ---------------------------
(***************************************************************************)
(* The loader implements Game: its batches, which retire, hand over and    *)
(* swap a mod at a time, and its stack of calls, seen as atomic swaps of   *)
(* builds none of whose code is under way.  A build's own last hooks are   *)
(* part of its leaving.                                                    *)
(***************************************************************************)
EXTENDS Mods

UnderWay == {stack[i].build : i \in {j \in CodeAt : stack[j].kind \notin {"unload", "close"}}}

G == INSTANCE Game WITH
       cur <- Running, on <- UnderWay, closing <- session \in {"ending", "over"}

(* Every step of the loader is one of the game's or leaves it as it is:    *)
(* what load_batch checked still holds when it swaps (engine.rs,           *)
(* load_batch, unload, shutdown).                                          *)
ImplementsGame == G!GameSpec
=============================================================================
