-------------------------------- MODULE Game --------------------------------
(***************************************************************************)
(* What the loader promises of a game: builds change all at once, into     *)
(* builds that fit each other, and never under code that is running.       *)
(***************************************************************************)
EXTENDS Builds

VARIABLES
  cur,     \* the builds that run, one a mod
  on,      \* those whose code is under way
  closing  \* the session is over, and mods are closed one by one

gameVars == <<cur, on, closing>>

GameInit == cur = {} /\ on = {} /\ closing = FALSE

Work == on' \subseteq cur /\ UNCHANGED <<cur, closing>>

Fits(S) == Linked(S) /\ Plannable(S)

(* A batch: the new builds take their predecessors' places together.       *)
Replaced(new) == {b \in cur : \E o \in new : o.mod = b.mod}

SwapAll(new) ==
  /\ ~closing
  /\ \A o, p \in new : o.mod = p.mod => o = p
  /\ \A b \in Replaced(new) : ~b.resident /\ b \notin on
  /\ cur' = After(cur, new) /\ Fits(cur')
  /\ UNCHANGED <<on, closing>>

Unload(b) ==
  /\ ~closing /\ ~b.resident /\ b \notin on
  /\ cur' = cur \ {b} /\ Fits(cur')
  /\ UNCHANGED <<on, closing>>

End   == ~closing /\ closing' = TRUE /\ on' \subseteq cur /\ UNCHANGED cur
Close == closing /\ on = {} /\ \E b \in cur : cur' = cur \ {b} /\ UNCHANGED <<on, closing>>

GameNext ==
  \/ Work \/ End \/ Close
  \/ \E new \in SUBSET Builds : SwapAll(new)
  \/ \E b \in cur : Unload(b)

GameSpec == GameInit /\ [][GameNext]_gameVars
=============================================================================
