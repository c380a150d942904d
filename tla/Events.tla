-------------------------------- MODULE Events --------------------------------
(***************************************************************************)
(* Event queues (src/engine/ecs/events.rs): what waits, numbered and with  *)
(* the frame it is for, and for each reader, by name, the number it reads  *)
(* from next.  A queue is in the order of its numbers, so it is a set.     *)
(***************************************************************************)
EXTENDS Integers, FiniteSets

CONSTANTS
  Kinds,     \* event types
  Readers    \* the names of the systems that may read

NoLayout == 0

VARIABLES
  frame,    \* counts frames
  queues,   \* of each kind
  heard     \* what the system that ran last read: of each kind, a set

eventVars == <<frame, queues, heard>>

Event == [seq : Nat, frame : Nat]
Queue ==
  [layout : Nat, loadedAt : Nat, values : SUBSET Event, next : Nat, cursors : [Readers -> Nat]]

EventsTypeOK ==
  /\ frame \in Nat
  /\ queues \in [Kinds -> Queue]
  /\ heard \in [Kinds -> SUBSET Event]

HeardNothing == [k \in Kinds |-> {}]

NewQueue ==
  [layout |-> NoLayout, loadedAt |-> 0, values |-> {}, next |-> 0,
   cursors |-> [s \in Readers |-> 0]]

EventsInit ==
  /\ frame = 0
  /\ queues = [k \in Kinds |-> NewQueue]
  /\ heard = HeardNothing

-----------------------------------------------------------------------------
Push(q, f) ==
  [q EXCEPT !.values = @ \union {[seq |-> q.next, frame |-> f]}, !.next = @ + 1]

(* Those published before a frame are dropped, from the front.             *)
ExpiredToo(q, f) == {e \in q.values : e.frame <= f}
Expired(q, f) == {e \in q.values : e.frame < f}
Expire(q, f)  == [q EXCEPT !.values = @ \ Expired(q, f)]

Unread(q, s) == {e \in q.values : e.seq >= q.cursors[s]}

LastSeq(q) == (CHOOSE e \in q.values : \A o \in q.values : o.seq <= e.seq).seq

(* An empty queue leaves its readers' cursors alone.                       *)
MarkRead(q, s) ==
  IF q.values = {} THEN q ELSE [q EXCEPT !.cursors[s] = LastSeq(q) + 1]

(* Whether a build's layout of the event can be taken, and the queue when  *)
(* it is.  Another layout drops what waits, and neither the numbering nor  *)
(* the cursors.                                                            *)
Installs(q, layout, loadedAt) ==
  q.layout = NoLayout \/ loadedAt > q.loadedAt \/ layout = q.layout

Install(q, layout, loadedAt) ==
  IF q.layout # NoLayout /\ ~(loadedAt > q.loadedAt) THEN q
  ELSE IF q.layout = layout /\ loadedAt > q.loadedAt THEN [q EXCEPT !.loadedAt = loadedAt]
  ELSE [q EXCEPT !.values = {}, !.layout = layout, !.loadedAt = loadedAt]

-----------------------------------------------------------------------------
(* What happens to the queues, a part of the steps of Frames.              *)
BeginEvents == frame' = frame + 1 /\ heard' = HeardNothing /\ UNCHANGED queues

EndEvents ==
  /\ queues' = [k \in Kinds |-> Expire(queues[k], frame)]
  /\ heard' = HeardNothing /\ UNCHANGED frame

(* An apply publishes one event of each of some kinds, in the frame.       *)
PublishEvents(kinds) ==
  /\ queues' = [k \in Kinds |-> IF k \in kinds THEN Push(queues[k], frame) ELSE queues[k]]
  /\ heard' = HeardNothing /\ UNCHANGED frame

ReadEvents(s, kinds) ==
  /\ heard' = [k \in Kinds |-> IF k \in kinds THEN Unread(queues[k], s) ELSE {}]
  /\ queues' = [k \in Kinds |-> IF k \in kinds THEN MarkRead(queues[k], s) ELSE queues[k]]
  /\ UNCHANGED frame

(* Sent outside a frame: for the next.                                     *)
SendEvent(k, layout, loadedAt) ==
  /\ Installs(queues[k], layout, loadedAt)
  /\ queues' = [queues EXCEPT ![k] = Push(Install(@, layout, loadedAt), frame + 1)]
  /\ heard' = HeardNothing /\ UNCHANGED frame

(* A batch of builds, each newer than the one before and than any that is  *)
(* installed: their numbers, and the layout each has of each kind its      *)
(* systems use.  A queue is left with the last one's, and keeps what waits *)
(* if it has been of that layout all along.                                *)
InstallEvents(builds) ==
  LET Users(k)   == {b \in builds : b.layouts[k] # NoLayout}
      LastOf(k)  == CHOOSE b \in Users(k) : \A o \in Users(k) : o.loadedAt <= b.loadedAt
      OfOne(k)   == \A b \in Users(k) : b.layouts[k] = queues[k].layout
  IN  /\ queues' = [k \in Kinds |->
           IF Users(k) = {} THEN queues[k]
           ELSE [queues[k] EXCEPT !.values = IF OfOne(k) THEN @ ELSE {},
                                  !.layout = LastOf(k).layouts[k],
                                  !.loadedAt = LastOf(k).loadedAt]]
      /\ heard' = HeardNothing /\ UNCHANGED frame

EventsStill == heard' = HeardNothing /\ UNCHANGED <<frame, queues>>

-----------------------------------------------------------------------------
(* What they promise.                                                      *)
P == INSTANCE Post WITH
       layout <- [k \in Kinds |-> queues[k].layout],
       mail <- [k \in Kinds |-> queues[k].values],
       due  <- [k \in Kinds |-> [s \in Readers |-> Unread(queues[k], s)]]
==============================================================================
