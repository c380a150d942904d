-------------------------------- MODULE Post --------------------------------
(***************************************************************************)
(* What events promise.  An event waits for every reader there is or will  *)
(* be; each reads it once, with all it has waiting; and it lasts to the    *)
(* end of the frame after its own, or until a build brings another layout. *)
(***************************************************************************)
EXTENDS Integers

CONSTANTS Kinds, Readers

VARIABLES
  frame,   \* the number of the frame, or of the last between two
  layout,  \* of each kind, what its events are now; 0 before there are any
  mail,    \* of each kind, the events that last: [number, the frame it is of]
  due,     \* of each kind, for each reader: those of them it has yet to read
  heard    \* what the last reader read: of each kind, a set of events

vars == <<frame, layout, mail, due, heard>>

Nothing == [k \in Kinds |-> {}]

Init ==
  /\ frame = 0
  /\ layout = [k \in Kinds |-> 0]
  /\ mail = Nothing
  /\ due = [k \in Kinds |-> [s \in Readers |-> {}]]
  /\ heard = Nothing

(* The events of some kinds, which now have another layout, are dropped;   *)
(* and there are new ones, numbered after all that lasted, of this frame   *)
(* or the next.                                                            *)
Publish(dropped) ==
  LET Kept(k)    == IF k \in dropped THEN {} ELSE mail[k]
      New(k)     == mail'[k] \ Kept(k)
      DueOf(k, s) == IF k \in dropped THEN {} ELSE due[k][s]
  IN  /\ DOMAIN mail' = Kinds /\ DOMAIN layout' = Kinds
      /\ \A k \in Kinds : layout'[k] # layout[k] <=> k \in dropped
      /\ \A k \in Kinds : Kept(k) \subseteq mail'[k]
      /\ \A k \in Kinds : \A e \in New(k) :
           e.frame \in {frame, frame + 1} /\ \A o \in mail[k] : o.seq < e.seq
      /\ due' = [k \in Kinds |-> [s \in Readers |-> DueOf(k, s) \union New(k)]]
      /\ heard' = Nothing /\ UNCHANGED frame

Read(s, kinds) ==
  /\ heard' = [k \in Kinds |-> IF k \in kinds THEN due[k][s] ELSE {}]
  /\ due' = [k \in Kinds |-> IF k \in kinds THEN [due[k] EXCEPT ![s] = {}] ELSE due[k]]
  /\ UNCHANGED <<frame, layout, mail>>

Begin == frame' = frame + 1 /\ heard' = Nothing /\ UNCHANGED <<layout, mail, due>>

Lasting(es) == {e \in es : e.frame >= frame}

End ==
  /\ mail' = [k \in Kinds |-> Lasting(mail[k])]
  /\ due'  = [k \in Kinds |-> [s \in Readers |-> Lasting(due[k][s])]]
  /\ heard' = Nothing /\ UNCHANGED <<frame, layout>>

Next ==
  \/ \E kinds \in SUBSET Kinds : Publish(kinds)
  \/ \E s \in Readers, kinds \in SUBSET Kinds : Read(s, kinds)
  \/ Begin \/ End

Spec == Init /\ [][Next]_vars
==============================================================================
