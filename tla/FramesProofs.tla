----------------------------- MODULE FramesProofs -----------------------------
(***************************************************************************)
(* Whatever the builds, rates and readers, frames implement Post: each     *)
(* event is read once by each reader that runs while it lasts; every       *)
(* variable has its type; what flows hold is of code that is mapped, and   *)
(* what is found in them was made in the step that finds it.               *)
(***************************************************************************)
EXTENDS Frames, TLAPS, WellFoundedInduction, FiniteSetTheorems

Fields == {"layout", "loadedAt", "values", "next", "cursors"}

(* A queue's events are numbered below what it numbers next, and no reader *)
(* is past that: whoever reads next finds whatever is published next.      *)
QueueInv(q) ==
  /\ DOMAIN q = Fields
  /\ q.next \in Nat
  /\ q.values \subseteq Event
  /\ \A e \in q.values : e.seq < q.next
  /\ q.cursors \in [Readers -> Nat]
  /\ \A s \in Readers : q.cursors[s] <= q.next

EventsInv ==
  /\ frame \in Nat
  /\ DOMAIN queues = Kinds
  /\ \A k \in Kinds : QueueInv(queues[k])

(* The games' batches are what loads choose from, and are numbered.        *)
Inv == EventsInv /\ game \in Games /\ loads \in Nat

-----------------------------------------------------------------------------
(* A bounded set of numbers that is not empty has a greatest.              *)
LEMMA Greatest ==
  ASSUME NEW T, T \subseteq Nat, T # {}, NEW n \in Nat, \A t \in T : t <= n
  PROVE  \E t \in T : \A u \in T : u <= t
<1> DEFINE D == {n - t : t \in T}
<1>1. D \subseteq Nat /\ D # {}
  <2>1. \A t \in T : n - t \in Nat
    OBVIOUS
  <2>2. \A d \in D : d \in Nat
    BY <2>1
  <2> QED BY <2>2
<1>2. PICK d \in D : \A e \in D : ~(<<e, d>> \in OpToRel(<, Nat))
  <2> HIDE DEF D
  <2> QED BY <1>1, NatLessThanWellFounded, WFMin
<1>3. \A e \in D : ~(e < d)
  <2> HIDE DEF D
  <2> QED BY <1>1, <1>2 DEF OpToRel
<1>4. PICK t \in T : d = n - t
  OBVIOUS
<1>5. ASSUME NEW u \in T
      PROVE  u <= t
  <2>1. n - u \in D
    OBVIOUS
  <2>2. ~(n - u < n - t)
    BY <1>3, <1>4, <2>1
  <2>3. n \in Nat /\ u \in Nat /\ t \in Nat
    BY <1>4, <1>5
  <2> QED BY <2>2, <2>3
<1> QED BY <1>4, <1>5

(* The last number of a queue that is not empty.                           *)
LEMMA LastSeqIsLast ==
  ASSUME NEW q, QueueInv(q), q.values # {}
  PROVE  /\ LastSeq(q) \in Nat /\ LastSeq(q) < q.next
         /\ \A e \in q.values : e.seq <= LastSeq(q)
<1> DEFINE T == {e.seq : e \in q.values}
<1>1. T \subseteq Nat /\ T # {} /\ \A t \in T : t <= q.next
  BY DEF QueueInv, Event
<1>2. q.next \in Nat
  BY DEF QueueInv
<1>3. PICK t \in T : \A u \in T : u <= t
  <2> HIDE DEF T
  <2> QED BY <1>1, <1>2, Greatest
<1>4. PICK e \in q.values : e.seq = t
  BY <1>3
<1>5. \A o \in q.values : o.seq <= e.seq
  BY <1>3, <1>4
<1> DEFINE last == CHOOSE x \in q.values : \A o \in q.values : o.seq <= x.seq
<1>6. last \in q.values /\ \A o \in q.values : o.seq <= last.seq
  BY <1>4, <1>5
<1>7. LastSeq(q) = last.seq
  BY DEF LastSeq
<1> HIDE DEF last
<1> QED BY <1>6, <1>7 DEF QueueInv, Event

(* A pushed event is new, and every reader has yet to read it.             *)
LEMMA PushNew ==
  ASSUME NEW q, QueueInv(q), NEW f \in Nat
  PROVE  LET e == [seq |-> q.next, frame |-> f] IN
         /\ QueueInv(Push(q, f))
         /\ Push(q, f).layout = q.layout
         /\ Push(q, f).values = q.values \union {e}
         /\ \A o \in q.values : o.seq < e.seq
         /\ \A s \in Readers : Unread(Push(q, f), s) = Unread(q, s) \union {e}
<1> DEFINE e == [seq |-> q.next, frame |-> f]
           p == Push(q, f)
<1>1. /\ DOMAIN p = Fields /\ p.values = q.values \union {e} /\ p.next = q.next + 1
      /\ p.layout = q.layout /\ p.cursors = q.cursors
  BY DEF Push, QueueInv, Fields
<1>2. e \in Event /\ e.seq = q.next
  BY DEF Event, QueueInv
<1> HIDE DEF e, p
<1>3. QueueInv(p)
  <2>1. p.next \in Nat /\ p.values \subseteq Event
    BY <1>1, <1>2 DEF QueueInv
  <2>2. \A o \in p.values : o.seq < p.next
    BY <1>1, <1>2 DEF QueueInv, Event
  <2>3. \A s \in Readers : p.cursors[s] <= p.next
    BY <1>1 DEF QueueInv
  <2> QED BY <1>1, <2>1, <2>2, <2>3 DEF QueueInv
<1>4. \A o \in q.values : o.seq < e.seq
  BY <1>2 DEF QueueInv
<1>5. ASSUME NEW s \in Readers
      PROVE  Unread(p, s) = Unread(q, s) \union {e}
  <2>1. e.seq >= q.cursors[s]
    BY <1>2 DEF QueueInv
  <2> QED BY <1>1, <2>1 DEF Unread
<1> QED BY <1>1, <1>3, <1>4, <1>5 DEF e, p

(* A reader that has read has nothing left to read; others are as before.  *)
LEMMA MarkReadRead ==
  ASSUME NEW q, QueueInv(q), NEW s \in Readers
  PROVE  LET p == MarkRead(q, s) IN
         /\ QueueInv(p)
         /\ p.layout = q.layout
         /\ p.values = q.values
         /\ Unread(p, s) = {}
         /\ \A r \in Readers : r # s => Unread(p, r) = Unread(q, r)
<1> DEFINE p == MarkRead(q, s)
<1>1. CASE q.values = {}
  <2>1. p = q
    BY <1>1 DEF MarkRead
  <2> QED BY <1>1, <2>1 DEF Unread
<1>2. CASE q.values # {}
  <2>1. /\ LastSeq(q) \in Nat /\ LastSeq(q) < q.next
        /\ \A e \in q.values : e.seq <= LastSeq(q)
    BY <1>2, LastSeqIsLast
  <2>2. p = [q EXCEPT !.cursors = [q.cursors EXCEPT ![s] = LastSeq(q) + 1]]
    BY <1>2 DEF MarkRead, QueueInv, Fields
  <2>3. /\ DOMAIN p = Fields /\ p.values = q.values /\ p.next = q.next /\ p.layout = q.layout
        /\ p.cursors = [q.cursors EXCEPT ![s] = LastSeq(q) + 1]
    BY <2>2 DEF QueueInv, Fields
  <2>4. p.cursors \in [Readers -> Nat] /\ p.cursors[s] = LastSeq(q) + 1
    BY <2>1, <2>3 DEF QueueInv
  <2>5. \A r \in Readers : r # s => p.cursors[r] = q.cursors[r]
    BY <2>3 DEF QueueInv
  <2> HIDE DEF p
  <2>6. q.next \in Nat /\ \A e \in q.values : e.seq \in Nat
    BY DEF QueueInv, Event
  <2>7. \A r \in Readers : p.cursors[r] <= p.next
    BY <2>1, <2>3, <2>4, <2>5, <2>6 DEF QueueInv
  <2>8. QueueInv(p)
    BY <2>3, <2>4, <2>7 DEF QueueInv
  <2>9. Unread(p, s) = {}
    BY <2>1, <2>3, <2>4, <2>6 DEF Unread
  <2>10. \A r \in Readers : r # s => Unread(p, r) = Unread(q, r)
    BY <2>3, <2>5 DEF Unread
  <2> QED BY <2>3, <2>8, <2>9, <2>10 DEF p
<1> QED BY <1>1, <1>2

(* A layout that is installed is another, and nothing is left; or it is    *)
(* the same, and all is.                                                   *)
LEMMA InstallDropsOthers ==
  ASSUME NEW q, QueueInv(q), NEW layout, layout # NoLayout, NEW loadedAt
  PROVE  LET p == Install(q, layout, loadedAt) IN
         /\ QueueInv(p)
         /\ IF p.layout = q.layout
            THEN p.values = q.values /\ \A s \in Readers : Unread(p, s) = Unread(q, s)
            ELSE p.values = {} /\ \A s \in Readers : Unread(p, s) = {}
<1> DEFINE p == Install(q, layout, loadedAt)
<1>1. CASE q.layout # NoLayout /\ ~(loadedAt > q.loadedAt)
  <2>1. p = q
    BY <1>1 DEF Install
  <2> QED BY <2>1
<1>2. CASE q.layout = layout /\ loadedAt > q.loadedAt
  <2>1. p = [q EXCEPT !.loadedAt = loadedAt]
    BY <1>2 DEF Install
  <2>2. /\ DOMAIN p = Fields /\ p.values = q.values /\ p.next = q.next
        /\ p.layout = q.layout /\ p.cursors = q.cursors
    BY <2>1 DEF QueueInv, Fields
  <2> HIDE DEF p
  <2> QED BY <2>2 DEF QueueInv, Unread, p
<1>3. CASE ~(q.layout # NoLayout /\ ~(loadedAt > q.loadedAt)) /\ ~(q.layout = layout /\ loadedAt > q.loadedAt)
  <2>1. p = [q EXCEPT !.values = {}, !.layout = layout, !.loadedAt = loadedAt]
    BY <1>3 DEF Install
  <2>2. /\ DOMAIN p = Fields /\ p.values = {} /\ p.next = q.next
        /\ p.layout = layout /\ p.cursors = q.cursors
    BY <2>1 DEF QueueInv, Fields
  <2>3. layout # q.layout
    BY <1>3
  <2> HIDE DEF p
  <2> QED BY <2>2, <2>3 DEF QueueInv, Unread, p
<1> QED BY <1>1, <1>2, <1>3

-----------------------------------------------------------------------------
(* What happens to the queues is a step of Post, and keeps the invariant.  *)
LEMMA StillStep ==
  ASSUME EventsInv, EventsStill
  PROVE  EventsInv' /\ P!Publish({})
BY DEF EventsInv, EventsStill, HeardNothing, P!Publish, P!Nothing, QueueInv, Unread

(* A frame begins: nothing is published, read or dropped.                  *)
LEMMA BeginStep ==
  ASSUME EventsInv, BeginEvents
  PROVE  EventsInv' /\ P!Begin
BY DEF EventsInv, BeginEvents, HeardNothing, P!Begin, P!Nothing, QueueInv, Unread

(* A frame ends: what is older than it is dropped, for every reader.       *)
LEMMA EndStep ==
  ASSUME EventsInv, EndEvents
  PROVE  EventsInv' /\ P!End
<1>1. ASSUME NEW k \in Kinds
      PROVE  /\ QueueInv(queues'[k]) /\ queues'[k].layout = queues[k].layout
             /\ queues'[k].values = P!Lasting(queues[k].values)
             /\ \A s \in Readers : Unread(queues'[k], s) = P!Lasting(Unread(queues[k], s))
  <2> DEFINE q == queues[k]
             p == queues'[k]
  <2>1. QueueInv(q) /\ frame \in Nat
    BY DEF EventsInv
  <2>2. p = [q EXCEPT !.values = @ \ Expired(q, frame)]
    BY DEF EndEvents, Expire
  <2>3. /\ DOMAIN p = Fields /\ p.values = q.values \ Expired(q, frame) /\ p.next = q.next
        /\ p.layout = q.layout /\ p.cursors = q.cursors
    BY <2>1, <2>2 DEF QueueInv, Fields
  <2> HIDE DEF p, q
  <2>4. p.values = P!Lasting(q.values)
    BY <2>1, <2>3 DEF QueueInv, Event, Expired, P!Lasting
  <2>5. QueueInv(p)
    BY <2>1, <2>3 DEF QueueInv
  <2>6. \A s \in Readers : Unread(p, s) = P!Lasting(Unread(q, s))
    BY <2>3, <2>4 DEF Unread, P!Lasting
  <2> QED BY <2>3, <2>4, <2>5, <2>6 DEF p, q
<1>2. EventsInv'
  BY <1>1 DEF EventsInv, EndEvents
<1>3. P!End
  BY <1>1 DEF EndEvents, HeardNothing, P!End, P!Nothing
<1> QED BY <1>2, <1>3

(* An apply publishes events of the open frame, to all readers.            *)
LEMMA PublishStep ==
  ASSUME EventsInv, NEW kinds, PublishEvents(kinds)
  PROVE  EventsInv' /\ P!Publish({})
<1>1. frame \in Nat /\ \A k \in Kinds : QueueInv(queues[k])
  BY DEF EventsInv
<1> DEFINE e(k) == [seq |-> queues[k].next, frame |-> frame]
           New(k) == queues'[k].values \ queues[k].values
<1>2. ASSUME NEW k \in Kinds
      PROVE  /\ QueueInv(queues'[k]) /\ queues'[k].layout = queues[k].layout
             /\ queues[k].values \subseteq queues'[k].values
             /\ \A n \in New(k) : n.frame = frame /\ \A o \in queues[k].values : o.seq < n.seq
             /\ \A s \in Readers : Unread(queues'[k], s) = Unread(queues[k], s) \union New(k)
  <2>1. CASE k \notin kinds
    <3>1. queues'[k] = queues[k]
      BY <2>1 DEF PublishEvents
    <3> QED BY <1>1, <3>1
  <2>2. CASE k \in kinds
    <3>1. queues'[k] = Push(queues[k], frame)
      BY <2>2 DEF PublishEvents
    <3>2. /\ QueueInv(queues'[k]) /\ queues'[k].layout = queues[k].layout
          /\ queues'[k].values = queues[k].values \union {e(k)}
          /\ \A o \in queues[k].values : o.seq < e(k).seq
          /\ \A s \in Readers : Unread(queues'[k], s) = Unread(queues[k], s) \union {e(k)}
      BY <1>1, <3>1, PushNew
    <3>3. e(k) \notin queues[k].values
      BY <1>1 DEF QueueInv
    <3>4. New(k) = {e(k)}
      BY <3>2, <3>3
    <3>5. e(k).frame = frame
      OBVIOUS
    <3> HIDE DEF e, New
    <3> QED BY <3>2, <3>4, <3>5
  <2> QED BY <2>1, <2>2
<1> HIDE DEF New
<1>3. EventsInv'
  BY <1>2 DEF EventsInv, PublishEvents
<1>4. P!Publish({})
  BY <1>2 DEF PublishEvents, HeardNothing, P!Publish, P!Nothing, New
<1> QED BY <1>3, <1>4

(* A system reads all it has waiting of the kinds it turns to.             *)
LEMMA ReadStep ==
  ASSUME EventsInv, NEW s \in Readers, NEW kinds, ReadEvents(s, kinds)
  PROVE  EventsInv' /\ P!Read(s, kinds)
<1>1. ASSUME NEW k \in Kinds
      PROVE  /\ QueueInv(queues'[k]) /\ queues'[k].layout = queues[k].layout
             /\ queues'[k].values = queues[k].values
             /\ k \notin kinds => queues'[k] = queues[k]
             /\ k \in kinds => /\ Unread(queues'[k], s) = {}
                               /\ \A r \in Readers : r # s => Unread(queues'[k], r) = Unread(queues[k], r)
  <2>1. QueueInv(queues[k])
    BY DEF EventsInv
  <2>2. CASE k \in kinds
    <3>1. queues'[k] = MarkRead(queues[k], s)
      BY <2>2 DEF ReadEvents
    <3> QED BY <2>1, <2>2, <3>1, MarkReadRead
  <2>3. CASE k \notin kinds
    <3>1. queues'[k] = queues[k]
      BY <2>3 DEF ReadEvents
    <3> QED BY <2>1, <2>3, <3>1
  <2> QED BY <2>2, <2>3
<1>2. EventsInv'
  BY <1>1 DEF EventsInv, ReadEvents
<1> DEFINE due  == [k \in Kinds |-> [r \in Readers |-> Unread(queues[k], r)]]
           dueN == [k \in Kinds |-> [r \in Readers |-> Unread(queues'[k], r)]]
           read == [k \in Kinds |-> IF k \in kinds THEN [due[k] EXCEPT ![s] = {}] ELSE due[k]]
<1>3. dueN = read
  <2>1. ASSUME NEW k \in Kinds
        PROVE  dueN[k] = read[k]
    <3>1. CASE k \in kinds
      <4>1. read[k] = [[r \in Readers |-> Unread(queues[k], r)] EXCEPT ![s] = {}]
        BY <3>1
      <4> QED BY <1>1, <3>1, <4>1
    <3>2. CASE k \notin kinds
      BY <1>1, <3>2
    <3> QED BY <3>1, <3>2
  <2> QED BY <2>1
<1>4. heard' = [k \in Kinds |-> IF k \in kinds THEN due[k][s] ELSE {}]
  BY DEF ReadEvents
<1> HIDE DEF due, dueN, read
<1>5. P!Read(s, kinds)
  BY <1>1, <1>3, <1>4 DEF ReadEvents, P!Read, due, dueN, read
<1> QED BY <1>2, <1>5

(* An event sent between frames is of the next; what its layout drops is   *)
(* dropped for all.                                                        *)
LEMMA SendStep ==
  ASSUME EventsInv, NEW kind \in Kinds, NEW layout, layout # NoLayout, NEW loadedAt,
         SendEvent(kind, layout, loadedAt)
  PROVE  EventsInv' /\ \E dropped \in SUBSET Kinds : P!Publish(dropped)
<1> DEFINE q == queues[kind]
           i == Install(q, layout, loadedAt)
           p == Push(i, frame + 1)
           e == [seq |-> i.next, frame |-> frame + 1]
<1>0. PICK dropped \in SUBSET Kinds : dropped = IF i.layout = q.layout THEN {} ELSE {kind}
  OBVIOUS
<1>1. QueueInv(q) /\ frame \in Nat /\ \A k \in Kinds : QueueInv(queues[k])
  BY DEF EventsInv
<1>2. queues' = [queues EXCEPT ![kind] = p]
  BY DEF SendEvent
<1>3. /\ QueueInv(i)
      /\ IF i.layout = q.layout
         THEN i.values = q.values /\ \A s \in Readers : Unread(i, s) = Unread(q, s)
         ELSE i.values = {} /\ \A s \in Readers : Unread(i, s) = {}
  BY <1>1, InstallDropsOthers
<1>4. i.next = q.next
  BY <1>1 DEF Install, QueueInv, Fields
<1>5. /\ QueueInv(p) /\ p.layout = i.layout /\ p.values = i.values \union {e}
      /\ \A o \in i.values : o.seq < e.seq
      /\ \A s \in Readers : Unread(p, s) = Unread(i, s) \union {e}
  <2>1. frame + 1 \in Nat
    BY <1>1
  <2> HIDE DEF i
  <2> QED BY <1>3, <2>1, PushNew
<1>6. queues'[kind] = p /\ \A k \in Kinds : k # kind => queues'[k] = queues[k]
  BY <1>2 DEF EventsInv
<1>7. e.frame = frame + 1 /\ \A o \in q.values : o.seq < e.seq
  BY <1>1, <1>4 DEF QueueInv
<1>8. e \notin q.values
  BY <1>1, <1>7 DEF QueueInv, Event
<1> HIDE DEF q, i, p, e
<1>9. EventsInv'
  BY <1>1, <1>2, <1>5, <1>6 DEF EventsInv, SendEvent
<1> DEFINE Kept(k) == IF k \in dropped THEN {} ELSE queues[k].values
           New(k)  == queues'[k].values \ Kept(k)
<1>10. ASSUME NEW k \in Kinds
       PROVE  /\ queues'[k].layout # queues[k].layout <=> k \in dropped
              /\ Kept(k) \subseteq queues'[k].values
              /\ \A n \in New(k) :
                   n.frame \in {frame, frame + 1} /\ \A o \in queues[k].values : o.seq < n.seq
              /\ \A s \in Readers :
                   Unread(queues'[k], s) = (IF k \in dropped THEN {} ELSE Unread(queues[k], s)) \union New(k)
  <2>1. CASE k # kind
    <3>1. New(k) = {} /\ k \notin dropped
      BY <1>0, <1>6, <2>1
    <3> QED BY <1>6, <2>1, <3>1
  <2>2. CASE k = kind
    <3>1. New(k) = {e}
      BY <1>0, <1>3, <1>5, <1>6, <1>8, <2>2 DEF q
    <3>2. queues'[k] = p /\ queues[k] = q
      BY <1>6, <2>2 DEF q
    <3>3. queues'[k].layout # queues[k].layout <=> k \in dropped
      BY <1>0, <1>5, <2>2, <3>2
    <3>4. Kept(k) \subseteq queues'[k].values
      BY <1>0, <1>3, <1>5, <2>2, <3>2
    <3>5. \A s \in Readers :
            Unread(queues'[k], s) = (IF k \in dropped THEN {} ELSE Unread(queues[k], s)) \union {e}
      BY <1>0, <1>3, <1>5, <2>2, <3>2
    <3> HIDE DEF New, Kept
    <3> QED BY <1>7, <3>1, <3>2, <3>3, <3>4, <3>5
  <2> QED BY <2>1, <2>2
<1>11. P!Publish(dropped)
  <2> QED BY <1>10 DEF SendEvent, HeardNothing, P!Publish, P!Nothing
<1> QED BY <1>9, <1>11

(* A load drops the events whose layout it changes, and no others.         *)
LEMMA LoadStep ==
  ASSUME Inv, NEW batch \in game.batches, InstallEvents(Installed(batch))
  PROVE  EventsInv' /\ \E dropped \in SUBSET Kinds : P!Publish(dropped)
<1> DEFINE builds == Installed(batch)
           Users(k)  == {b \in builds : b.layouts[k] # NoLayout}
           LastOf(k) == CHOOSE b \in Users(k) : \A o \in Users(k) : o.loadedAt <= b.loadedAt
           OfOne(k)  == \A b \in Users(k) : b.layouts[k] = queues[k].layout
           Got(k)    == [queues[k] EXCEPT !.values = IF OfOne(k) THEN @ ELSE {},
                                          !.layout = LastOf(k).layouts[k],
                                          !.loadedAt = LastOf(k).loadedAt]
           B(i) == [name |-> batch[i].name, loadedAt |-> loads + i, layouts |-> LayoutsOf(batch[i]),
                    flows |-> FlowsOf(batch[i].systems)]
<1>1. EventsInv /\ frame \in Nat /\ \A k \in Kinds : QueueInv(queues[k])
  BY DEF Inv, EventsInv
<1>2. builds = {B(i) : i \in DOMAIN batch}
  BY DEF Installed
<1>3. /\ loads \in Nat /\ Len(batch) \in Nat /\ DOMAIN batch = 1..Len(batch)
      /\ \A i, j \in DOMAIN batch : \A k \in Kinds :
           LayoutsOf(batch[i])[k] # NoLayout /\ LayoutsOf(batch[j])[k] # NoLayout =>
             LayoutsOf(batch[i])[k] = LayoutsOf(batch[j])[k]
  BY GamesAssumption DEF Inv
<1>4. \A i \in DOMAIN batch : B(i).loadedAt = loads + i /\ B(i).layouts = LayoutsOf(batch[i])
  OBVIOUS
<1> HIDE DEF B, builds
<1>5. ASSUME NEW k \in Kinds, Users(k) # {}
      PROVE  LastOf(k) \in Users(k)
  <2> DEFINE T == {b.loadedAt : b \in Users(k)}
  <2>1. ASSUME NEW b \in Users(k)
        PROVE  b.loadedAt \in Nat /\ b.loadedAt <= loads + Len(batch)
    <3>1. PICK i \in DOMAIN batch : b = B(i)
      BY <1>2
    <3>2. b.loadedAt = loads + i
      BY <1>4, <3>1
    <3> QED BY <1>3, <3>2
  <2>2. T \subseteq Nat /\ T # {} /\ \A t \in T : t <= loads + Len(batch)
    <3> HIDE DEF Users
    <3> QED BY <1>5, <2>1
  <2>3. PICK t \in T : \A u \in T : u <= t
    <3>1. loads + Len(batch) \in Nat
      BY <1>3
    <3> HIDE DEF T
    <3> QED BY <2>2, <3>1, Greatest
  <2>4. PICK b \in Users(k) : b.loadedAt = t
    BY <2>3
  <2>5. \A o \in Users(k) : o.loadedAt <= b.loadedAt
    BY <2>3, <2>4
  <2> HIDE DEF Users
  <2> QED BY <2>4, <2>5
<1>6. ASSUME NEW k \in Kinds, NEW a \in Users(k), NEW b \in Users(k)
      PROVE  a.layouts[k] = b.layouts[k]
  <2>1. PICK i \in DOMAIN batch : a = B(i)
    BY <1>2
  <2>2. PICK j \in DOMAIN batch : b = B(j)
    BY <1>2
  <2> QED BY <1>3, <1>4, <2>1, <2>2
<1>7. queues' = [k \in Kinds |-> IF Users(k) = {} THEN queues[k] ELSE Got(k)]
  BY DEF InstallEvents, builds
<1>0. PICK dropped \in SUBSET Kinds : dropped = {k \in Kinds : queues'[k].layout # queues[k].layout}
  OBVIOUS
<1>8. ASSUME NEW k \in Kinds
      PROVE  /\ QueueInv(queues'[k])
             /\ IF k \in dropped
                THEN queues'[k].values = {} /\ \A s \in Readers : Unread(queues'[k], s) = {}
                ELSE /\ queues'[k].values = queues[k].values
                     /\ \A s \in Readers : Unread(queues'[k], s) = Unread(queues[k], s)
  <2>1. CASE Users(k) = {}
    <3>1. queues'[k] = queues[k]
      BY <1>7, <2>1
    <3> QED BY <1>0, <1>1, <3>1
  <2>2. CASE Users(k) # {}
    <3> DEFINE p == queues'[k]
    <3>1. p = Got(k)
      BY <1>7, <2>2
    <3>2. /\ DOMAIN p = Fields /\ p.values = (IF OfOne(k) THEN queues[k].values ELSE {})
          /\ p.next = queues[k].next /\ p.layout = LastOf(k).layouts[k]
          /\ p.cursors = queues[k].cursors
      <4> HIDE DEF OfOne, LastOf
      <4> QED BY <1>1, <3>1 DEF QueueInv, Fields
    <3>3. OfOne(k) <=> p.layout = queues[k].layout
      <4>1. LastOf(k) \in Users(k)
        BY <1>5, <2>2
      <4>2. \A b \in Users(k) : b.layouts[k] = LastOf(k).layouts[k]
        <5> HIDE DEF Users, LastOf
        <5> QED BY <1>6, <4>1
      <4> HIDE DEF Users, LastOf
      <4> QED BY <3>2, <4>1, <4>2
    <3> HIDE DEF p, OfOne, LastOf
    <3>4. QueueInv(p)
      BY <1>1, <3>2 DEF QueueInv
    <3>5. \A s \in Readers : Unread(p, s) = IF OfOne(k) THEN Unread(queues[k], s) ELSE {}
      BY <3>2 DEF Unread
    <3> QED BY <1>0, <3>2, <3>3, <3>4, <3>5 DEF p
  <2> QED BY <2>1, <2>2
<1>9. EventsInv'
  <2>1. DOMAIN queues' = Kinds
    BY <1>7
  <2> QED BY <1>1, <1>8, <2>1 DEF EventsInv, InstallEvents
<1>10. P!Publish(dropped)
  <2>1. \A k \in Kinds : queues'[k].layout # queues[k].layout <=> k \in dropped
    BY <1>0
  <2>2. heard' = HeardNothing /\ UNCHANGED frame
    BY DEF InstallEvents
  <2> QED BY <1>8, <2>1, <2>2 DEF HeardNothing, P!Publish, P!Nothing
<1> QED BY <1>9, <1>10

-----------------------------------------------------------------------------
(* Every step of a frame, and between frames, keeps the invariant and is a *)
(* step of Post.                                                           *)
LEMMA NextStep ==
  ASSUME Inv, Next
  PROVE  Inv' /\ P!Next
<1>1. EventsInv /\ game \in Games /\ loads \in Nat
  BY DEF Inv
<1>2. CASE \E batch \in game.batches : Load(batch)
  <2>1. PICK batch \in game.batches : Load(batch)
    BY <1>2
  <2>2. InstallEvents(Installed(batch)) /\ loads' = loads + Len(batch) /\ game' = game
    BY <2>1 DEF Load
  <2>3. EventsInv' /\ \E dropped \in SUBSET Kinds : P!Publish(dropped)
    BY <2>2, LoadStep
  <2>4. Len(batch) \in Nat
    BY <1>1, GamesAssumption
  <2> QED BY <1>1, <2>2, <2>3, <2>4 DEF Inv, P!Next
<1>3. CASE \E i \in DOMAIN mods, k \in Kinds : Send(i, k)
  <2>1. PICK i \in DOMAIN mods, k \in Kinds : Send(i, k)
    BY <1>3
  <2>2. game' = game /\ loads' = loads
    BY <2>1 DEF Send
  <2>3. CASE SendEvent(k, mods[i].build.layouts[k], mods[i].loadedAt)
    <3>1. mods[i].build.layouts[k] # NoLayout
      BY <2>1 DEF Send
    <3>2. EventsInv' /\ \E dropped \in SUBSET Kinds : P!Publish(dropped)
      BY <1>1, <2>3, <3>1, SendStep
    <3> QED BY <1>1, <2>2, <3>2 DEF Inv, P!Next
  <2>4. CASE EventsStill
    <3>1. EventsInv' /\ P!Publish({})
      BY <1>1, <2>4, StillStep
    <3> QED BY <1>1, <2>2, <3>1 DEF Inv, P!Next
  <2> QED BY <2>1, <2>3, <2>4 DEF Send
<1>4. CASE \E time \in game.times, running \in game.running : BeginFrame(time, running)
  <2>1. BeginEvents /\ game' = game /\ loads' = loads
    BY <1>4 DEF BeginFrame
  <2>2. EventsInv' /\ P!Begin
    BY <1>1, <2>1, BeginStep
  <2> QED BY <1>1, <2>1, <2>2 DEF Inv, P!Next
<1>5. CASE \E kinds \in SUBSET Kinds, panics, kept \in BOOLEAN : RunSystem(kinds, panics, kept)
  <2>1. PICK kinds \in SUBSET Kinds, panics \in BOOLEAN, kept \in BOOLEAN : RunSystem(kinds, panics, kept)
    BY <1>5
  <2>2. game' = game /\ loads' = loads
    BY <2>1 DEF RunSystem
  <2>3. EventsStill \/ \E s \in Readers : ReadEvents(s, kinds)
    BY <2>1 DEF RunSystem
  <2>4. CASE EventsStill
    <3>1. EventsInv' /\ P!Publish({})
      BY <1>1, <2>4, StillStep
    <3> QED BY <1>1, <2>2, <3>1 DEF Inv, P!Next
  <2>5. CASE \E s \in Readers : ReadEvents(s, kinds)
    <3>1. PICK s \in Readers : ReadEvents(s, kinds)
      BY <2>5
    <3>2. EventsInv' /\ P!Read(s, kinds)
      BY <1>1, <3>1, ReadStep
    <3> QED BY <1>1, <2>2, <3>2 DEF Inv, P!Next
  <2> QED BY <2>3, <2>4, <2>5
<1>6. CASE \E published \in SUBSET Kinds : Apply(published)
  <2>1. PICK published \in SUBSET Kinds : Apply(published)
    BY <1>6
  <2>2. PublishEvents(published) /\ game' = game /\ loads' = loads
    BY <2>1 DEF Apply
  <2>3. EventsInv' /\ P!Publish({})
    BY <1>1, <2>2, PublishStep
  <2> QED BY <1>1, <2>2, <2>3 DEF Inv, P!Next
<1>7. CASE EndFrame
  <2>1. EndEvents /\ game' = game /\ loads' = loads
    BY <1>7 DEF EndFrame
  <2>2. EventsInv' /\ P!End
    BY <1>1, <2>1, EndStep
  <2> QED BY <1>1, <2>1, <2>2 DEF Inv, P!Next
<1>8. CASE (\E i \in DOMAIN mods : Unload(i)) \/ Skip
  <2>1. EventsStill /\ game' = game /\ loads' = loads
    BY <1>8 DEF Unload, Skip
  <2>2. EventsInv' /\ P!Publish({})
    BY <1>1, <2>1, StillStep
  <2> QED BY <1>1, <2>1, <2>2 DEF Inv, P!Next
<1> QED BY <1>2, <1>3, <1>4, <1>5, <1>6, <1>7, <1>8 DEF Next

(* At first nothing is published.                                          *)
LEMMA InitOk ==
  ASSUME Init
  PROVE  Inv /\ P!Init
<1>1. frame = 0 /\ queues = [k \in Kinds |-> NewQueue] /\ heard = HeardNothing
  BY DEF Init, EventsInit
<1>2. QueueInv(NewQueue) /\ NewQueue.layout = 0 /\ NewQueue.values = {}
  BY DEF QueueInv, NewQueue, Fields, NoLayout
<1>3. \A s \in Readers : Unread(NewQueue, s) = {}
  BY <1>2 DEF Unread
<1>4. Inv
  BY <1>1, <1>2 DEF Init, Inv, EventsInv
<1>5. P!Init
  BY <1>1, <1>2, <1>3 DEF P!Init, P!Nothing, HeardNothing
<1> QED BY <1>4, <1>5

(* Frames deliver events as Post promises, whatever the games: Events      *)
(* implements Post.                                                        *)
THEOREM FramesDeliver == Spec => ImplementsPost
<1>1. ASSUME Inv, [Next]_vars
      PROVE  Inv' /\ [P!Next]_P!vars
  <2>1. CASE Next
    BY <1>1, <2>1, NextStep
  <2>2. CASE UNCHANGED vars
    <3>1. UNCHANGED <<frame, queues, heard, game, loads>>
      BY <2>2 DEF vars, frameVars, eventVars
    <3> QED BY <1>1, <3>1 DEF Inv, EventsInv, QueueInv, Unread, P!vars
  <2> QED BY <1>1, <2>1, <2>2
<1> QED BY <1>1, InitOk, PTL DEF Spec, ImplementsPost, P!Spec

-----------------------------------------------------------------------------
(* A set of numbers that is not empty has a least one.                     *)
LEMMA LeastOfNats ==
  ASSUME NEW T \in SUBSET Nat, T # {}
  PROVE  \E x \in T : \A y \in T : x <= y
<1> DEFINE R == OpToRel(<, Nat)
<1>1. IsWellFoundedOn(R, Nat)
  BY NatLessThanWellFounded
<1>2. R = {p \in Nat \X Nat : p[1] < p[2]}
  BY DEF OpToRel
<1> HIDE DEF R
<1>3. \E x \in T : \A y \in T : <<y, x>> \notin R
  BY <1>1, WFMin
<1>4. ASSUME NEW x \in T, \A y \in T : <<y, x>> \notin R, NEW y \in T
      PROVE  x <= y
  <2>1. ~ (y < x)
    BY <1>2, <1>4
  <2> QED BY <2>1
<1> QED BY <1>3, <1>4

(* Induction over the numbers, for a set.                                  *)
LEMMA ByInduction ==
  ASSUME NEW T, 0 \in T, \A n \in Nat : n \in T => n + 1 \in T
  PROVE  Nat \subseteq T
<1> SUFFICES ASSUME Nat \ T # {} PROVE FALSE
  OBVIOUS
<1>1. PICK x \in Nat \ T : \A y \in Nat \ T : x <= y
  BY LeastOfNats
<1>2. x # 0 /\ x - 1 \in Nat /\ x - 1 \notin T
  BY <1>1
<1>3. x <= x - 1
  BY <1>1, <1>2
<1> QED BY <1>1, <1>3

Recurs(f, c, step, n) ==
  f[0] = c /\ \A k \in 1..n : f[k] = step[<<k, f[k - 1]>>]

(* A recursive function over 0..m is defined: some function has c at 0,    *)
(* and at each k what step makes of k and the one before.                  *)
LEMMA Recursion ==
  ASSUME NEW S, NEW c \in S, NEW step \in [Nat \X S -> S], NEW m \in Nat
  PROVE  \E f \in [0..m -> S] : Recurs(f, c, step, m)
<1> DEFINE Good(f, n) == Recurs(f, c, step, n)
           T == {n \in Nat : \E f \in [0..n -> S] : Good(f, n)}
<1> USE DEF Recurs
<1>1. 0 \in T
  <2> DEFINE f == [i \in 0..0 |-> c]
  <2>1. f \in [0..0 -> S] /\ Good(f, 0)
    OBVIOUS
  <2> QED BY <2>1
<1>2. ASSUME NEW n \in Nat, n \in T PROVE n + 1 \in T
  <2>1. PICK f \in [0..n -> S] : Good(f, n)
    BY <1>2
  <2> DEFINE g == [i \in 0..n + 1 |-> IF i = n + 1 THEN step[<<n + 1, f[n]>>] ELSE f[i]]
  <2>2. step[<<n + 1, f[n]>>] \in S
    BY <2>1
  <2>3. g \in [0..n + 1 -> S]
    BY <2>1, <2>2
  <2>4. g[0] = c
    BY <2>1
  <2>5. ASSUME NEW k \in 1..n + 1 PROVE g[k] = step[<<k, g[k - 1]>>]
    <3>1. CASE k = n + 1
      <4>1. k - 1 = n /\ g[k] = step[<<n + 1, f[n]>>] /\ g[n] = f[n]
        BY <3>1
      <4> QED BY <3>1, <4>1
    <3>2. CASE k # n + 1
      <4>1. k \in 1..n /\ k - 1 \in 0..n /\ k - 1 # n + 1
        BY <3>2
      <4>2. g[k] = f[k] /\ g[k - 1] = f[k - 1]
        BY <4>1, <3>2
      <4> QED BY <2>1, <4>1, <4>2
    <3> QED BY <3>1, <3>2
  <2>6. Good(g, n + 1)
    BY <2>4, <2>5
  <2> HIDE DEF g
  <2> QED BY <2>3, <2>6
<1>3. Nat \subseteq T
  <2> HIDE DEF T
  <2> QED BY <1>1, <1>2, ByInduction
<1> QED BY <1>3

(* Sequences are put together one after another (FlattenSeq, as a          *)
(* recursive function), and what is kept so, each part of the result has.  *)
Flattens(g, ss) ==
  /\ g[1] = ss[1] /\ \A i \in 2..Len(ss) : g[i] = g[i - 1] \o ss[i]
  /\ FlattenSeq(ss) = g[Len(ss)]
(* So they are put together step by step, from the first to the last.      *)
LEMMA FlattenSteps ==
  ASSUME NEW Q, \A s, t \in Q : s \o t \in Q, NEW ss \in Seq(Q), ss # <<>>
  PROVE  \E g \in [1..Len(ss) -> Q] : Flattens(g, ss)
<1> DEFINE n == Len(ss)
           Body(f) == [i \in 1..Len(ss) |-> IF i = 1 THEN ss[i] ELSE f[i - 1] \o ss[i]]
           flatten == CHOOSE flatten : flatten = Body(flatten)
           step == [p \in Nat \X Q |-> IF p[1] \in 1..n - 1 THEN p[2] \o ss[p[1] + 1] ELSE p[2]]
<1>1. n \in Nat /\ n # 0 /\ \A i \in 1..n : ss[i] \in Q
  OBVIOUS
<1>2. FlattenSeq(ss) = flatten[n]
  BY <1>1 DEF FlattenSeq
<1>3. step \in [Nat \X Q -> Q]
  <2>1. \A p \in Nat \X Q : p[1] \in 1..n - 1 => p[2] \in Q /\ ss[p[1] + 1] \in Q
    BY <1>1
  <2> HIDE DEF n
  <2> QED BY <2>1
<1>4. ss[1] \in Q /\ n - 1 \in Nat
  BY <1>1
<1>5. PICK f \in [0..n - 1 -> Q] : Recurs(f, ss[1], step, n - 1)
  <2> HIDE DEF step, n
  <2> QED BY <1>3, <1>4, Recursion, Zenon
<1> DEFINE g == [i \in 1..Len(ss) |-> f[i - 1]]
<1>6. g = Body(g)
  <2>1. ASSUME NEW i \in 1..Len(ss) PROVE g[i] = Body(g)[i]
    <3>1. CASE i = 1
      BY <1>5, <3>1 DEF Recurs
    <3>2. CASE i # 1
      <4>1. i - 1 \in 1..n - 1 /\ i - 1 \in Nat /\ i - 1 - 1 \in 0..n - 1 /\ i - 1 \in 1..Len(ss)
        BY <1>1, <3>2
      <4>2. f[i - 1] = step[<<i - 1, f[i - 1 - 1]>>] /\ f[i - 1 - 1] \in Q
        <5> HIDE DEF step, n
        <5> QED BY <1>5, <4>1 DEF Recurs
      <4>3. f[i - 1] = f[i - 1 - 1] \o ss[i]
        <5> DEFINE q == f[i - 1 - 1]
        <5>1. q \in Q
          BY <4>2
        <5> HIDE DEF q
        <5>2. step[<<i - 1, q>>] = q \o ss[i - 1 + 1] /\ i - 1 + 1 = i
          <6> DEFINE k == i - 1
          <6>1. k \in 1..n - 1 /\ k \in Nat /\ k + 1 = i
            BY <4>1
          <6> HIDE DEF k, n
          <6>2. step[<<k, q>>] = q \o ss[k + 1]
            BY <5>1, <6>1
          <6> QED BY <6>1, <6>2 DEF k
        <5> HIDE DEF step
        <5> QED BY <4>2, <5>2 DEF q
      <4> QED BY <3>2, <4>1, <4>3
    <3> QED BY <3>1, <3>2
  <2> HIDE DEF step
  <2> QED BY <2>1
<1>7. flatten = Body(flatten)
  <2> HIDE DEF Body, g
  <2> QED BY <1>6
<1> HIDE DEF flatten
<1> DEFINE T == {k \in Nat : k + 1 <= n => flatten[k + 1] \in Q}
<1>8. Nat \subseteq T
  <2>0. \A i \in 1..n : flatten[i] = IF i = 1 THEN ss[i] ELSE flatten[i - 1] \o ss[i]
    BY <1>7
  <2>1. 0 \in T
    BY <1>1, <2>0
  <2>2. ASSUME NEW k \in Nat, k \in T PROVE k + 1 \in T
    <3> SUFFICES ASSUME k + 1 + 1 <= n PROVE flatten[k + 1 + 1] \in Q
      OBVIOUS
    <3>1. k + 1 + 1 \in 1..n /\ k + 1 + 1 # 1 /\ k + 1 + 1 - 1 = k + 1 /\ k + 1 <= n
      BY <1>1
    <3>2. flatten[k + 1 + 1] = flatten[k + 1] \o ss[k + 1 + 1]
      <4> DEFINE j == k + 1 + 1
      <4>1. j \in 1..n /\ j # 1 /\ j - 1 = k + 1
        BY <3>1
      <4> HIDE DEF j, n
      <4>2. flatten[j] = flatten[j - 1] \o ss[j]
        BY <2>0, <4>1
      <4> QED BY <4>1, <4>2 DEF j
    <3>3. flatten[k + 1] \in Q /\ ss[k + 1 + 1] \in Q
      BY <1>1, <2>2, <3>1
    <3> QED BY <3>2, <3>3
  <2> HIDE DEF T
  <2> QED BY <2>1, <2>2, ByInduction
<1>9. \A i \in 1..n : flatten[i] \in Q
  <2> SUFFICES ASSUME NEW i \in 1..n PROVE flatten[i] \in Q
    OBVIOUS
  <2>1. i - 1 \in Nat /\ i - 1 + 1 = i /\ i <= n
    BY <1>1
  <2> DEFINE k == i - 1
  <2>2. k \in T /\ k + 1 = i
    BY <1>8, <2>1
  <2> HIDE DEF k
  <2> QED BY <2>1, <2>2
<1>10. flatten = [i \in 1..n |-> flatten[i]]
  <2> HIDE DEF n
  <2>1. flatten = [i \in 1..Len(ss) |-> IF i = 1 THEN ss[i] ELSE flatten[i - 1] \o ss[i]]
    BY <1>7
  <2> QED BY <2>1 DEF n
<1>11. flatten \in [1..Len(ss) -> Q]
  BY <1>9, <1>10
<1>12. \A i \in 1..n : flatten[i] = IF i = 1 THEN ss[i] ELSE flatten[i - 1] \o ss[i]
  BY <1>7
<1>13. flatten[1] = ss[1] /\ \A i \in 2..Len(ss) : flatten[i] = flatten[i - 1] \o ss[i]
  <2>1. 1 \in 1..n /\ \A i \in 2..Len(ss) : i \in 1..n /\ i # 1
    BY <1>1
  <2>2. flatten[1] = ss[1]
    <3> HIDE DEF n
    <3> QED BY <1>12, <2>1
  <2>3. ASSUME NEW i \in 2..Len(ss) PROVE flatten[i] = flatten[i - 1] \o ss[i]
    <3>1. i \in 1..n /\ i # 1
      BY <2>1
    <3> HIDE DEF n
    <3> QED BY <1>12, <3>1
  <2> QED BY <2>2, <2>3
<1> QED BY <1>2, <1>11, <1>13 DEF Flattens

(* What parts share that putting two together keeps, the whole has.        *)
LEMMA Flattened ==
  ASSUME NEW Q, \A s, t \in Q : s \o t \in Q, NEW ss \in Seq(Q), ss # <<>>
  PROVE  FlattenSeq(ss) \in Q
<1>1. PICK g \in [1..Len(ss) -> Q] : Flattens(g, ss)
  BY FlattenSteps
<1>2. Len(ss) \in 1..Len(ss)
  OBVIOUS
<1> QED BY <1>1, <1>2 DEF Flattens

(* So has one of none.                                                     *)
LEMMA FlattenedSeq ==
  ASSUME NEW S, NEW ss \in Seq(Seq(S))
  PROVE  FlattenSeq(ss) \in Seq(S)
<1>1. CASE ss = <<>>
  BY <1>1 DEF FlattenSeq
<1>2. CASE ss # <<>>
  <2> DEFINE Q == Seq(S)
  <2>1. \A s, t \in Q : s \o t \in Q
    OBVIOUS
  <2> HIDE DEF Q
  <2>2. ss \in Seq(Q)
    BY DEF Q
  <2>3. FlattenSeq(ss) \in Q
    BY <1>2, <2>1, <2>2, Flattened
  <2> QED BY <2>3 DEF Q
<1> QED BY <1>1, <1>2

(* A list chosen from another, by places of it, is of its elements.        *)
LEMMA PickedIs ==
  ASSUME NEW S, NEW list \in Seq(S), NEW order \in Seq(DOMAIN list)
  PROVE  Picked(list, order) \in Seq(S)
<1>1. \A k \in DOMAIN order : order[k] \in DOMAIN list /\ list[order[k]] \in S
  OBVIOUS
<1>2. Len(order) \in Nat /\ DOMAIN order = 1..Len(order)
  OBVIOUS
<1> QED BY <1>1, <1>2 DEF Picked

Distinct(q) == \A i, j \in DOMAIN q : q[i] = q[j] => i = j

(* An order of what is left, behind what was taken out, names each once.   *)
LEMMA OneMoreDistinct ==
  ASSUME NEW s, NEW x \in s, NEW q \in Seq(s \ {x}), Distinct(q)
  PROVE  <<x>> \o q \in Seq(s) /\ Distinct(<<x>> \o q)
<1> DEFINE r == <<x>> \o q
<1>1. /\ r \in Seq(s) /\ DOMAIN r = 1..Len(q) + 1 /\ Len(q) \in Nat /\ DOMAIN q = 1..Len(q)
      /\ r[1] = x /\ \A i \in 2..Len(q) + 1 : r[i] = q[i - 1]
  OBVIOUS
<1>2. \A i \in DOMAIN q : q[i] # x
  OBVIOUS
<1> HIDE DEF r
<1>3. ASSUME NEW i \in 1..Len(q) + 1, NEW j \in 1..Len(q) + 1, r[i] = r[j] PROVE i = j
  <2>1. CASE i = 1 /\ j = 1
    BY <2>1
  <2>2. CASE i # 1 /\ j = 1
    <3>1. i \in 2..Len(q) + 1 /\ i - 1 \in 1..Len(q)
      BY <1>1, <2>2
    <3> QED BY <1>1, <1>2, <1>3, <2>2, <3>1
  <2>3. CASE i = 1 /\ j # 1
    <3>1. j \in 2..Len(q) + 1 /\ j - 1 \in 1..Len(q)
      BY <1>1, <2>3
    <3> QED BY <1>1, <1>2, <1>3, <2>3, <3>1
  <2>4. CASE i # 1 /\ j # 1
    <3>1. i \in 2..Len(q) + 1 /\ i - 1 \in 1..Len(q) /\ j \in 2..Len(q) + 1 /\ j - 1 \in 1..Len(q)
      BY <1>1, <2>4
    <3>2. q[i - 1] = q[j - 1]
      BY <1>1, <1>3, <3>1
    <3>3. i - 1 = j - 1
      BY <1>1, <3>1, <3>2 DEF Distinct
    <3> QED BY <3>1, <3>3
  <2> QED BY <2>1, <2>2, <2>3, <2>4
<1> QED BY <1>1, <1>3 DEF Distinct, r

(* Kahn's algorithm orders nodes, of which there are finitely many: each   *)
(* is one of them.                                                         *)
LEMMA TopologicalIs ==
  ASSUME NEW items, IsFiniteSet(items), NEW edges, NEW rank, \A i \in items : rank[i] \in Nat
  PROVE  Topological(items, edges, rank) \in Seq(items) /\ Distinct(Topological(items, edges, rank))
<1> DEFINE Ready(s) == {i \in s : \A e \in edges : e[2] = i => e[1] \notin s}
           First(s) == CHOOSE i \in Ready(s) : \A j \in Ready(s) : rank[i] <= rank[j]
           At1(f, s) == IF Ready(s) = {} THEN <<>> ELSE <<First(s)>> \o f[s \ {First(s)}]
           order == CHOOSE f : f = [s \in SUBSET items |-> At1(f, s)]
           Small(k) == {s \in SUBSET items : Cardinality(s) <= k}
           Good(f, k) == \A s \in Small(k) : f[s] = At1(f, s)
           L == Seq(items)
           Has(k) == \E f \in [Small(k) -> L] : Good(f, k)
           T == {k \in Nat : Has(k)}
<1>1. Topological(items, edges, rank) = order[items]
  BY DEF Topological
<1>2. ASSUME NEW s \in SUBSET items, Ready(s) # {} PROVE First(s) \in s
  <2> DEFINE R == {rank[i] : i \in Ready(s)}
  <2>1. R \in SUBSET Nat /\ R # {}
    BY <1>2
  <2>2. PICK r \in R : \A x \in R : r <= x
    <3> HIDE DEF R
    <3> QED BY <2>1, LeastOfNats
  <2>3. PICK i \in Ready(s) : r = rank[i]
    BY <2>2
  <2>4. \A j \in Ready(s) : rank[i] <= rank[j]
    BY <2>2, <2>3
  <2>5. First(s) \in Ready(s)
    <3> HIDE DEF Ready
    <3> QED BY <2>4
  <2> QED BY <2>5
<1>3. ASSUME NEW s \in SUBSET items, NEW k \in Nat, s \in Small(k + 1), Ready(s) # {}
      PROVE  s \ {First(s)} \in Small(k)
  <2>1. First(s) \in s
    BY <1>2, <1>3
  <2>2. IsFiniteSet(s)
    BY FS_Subset
  <2> HIDE DEF First
  <2>3. Cardinality(s \ {First(s)}) = Cardinality(s) - 1 /\ Cardinality(s) \in Nat
    BY <2>1, <2>2, FS_RemoveElement, FS_CardinalityType
  <2> QED BY <1>3, <2>3
<1>4. ASSUME NEW s \in Small(0) PROVE Ready(s) = {}
  <2>1. IsFiniteSet(s) /\ Cardinality(s) \in Nat
    BY FS_Subset, FS_CardinalityType
  <2>2. s = {}
    BY <2>1, FS_EmptySet
  <2> QED BY <2>2
<1> HIDE DEF Ready, First
<1>5. 0 \in T
  <2> DEFINE f == [s \in Small(0) |-> <<>>]
  <2>1. f \in [Small(0) -> L]
    OBVIOUS
  <2>2. Good(f, 0)
    BY <1>4
  <2> HIDE DEF f, Small, Good
  <2> QED BY <2>1, <2>2
<1>6. ASSUME NEW k \in Nat, k \in T PROVE k + 1 \in T
  <2> HIDE DEF L
  <2>1. PICK f \in [Small(k) -> L] : Good(f, k)
    <3> HIDE DEF Good, Small
    <3> QED BY <1>6
  <2> DEFINE g == [s \in Small(k + 1) |-> IF s \in Small(k) THEN f[s] ELSE At1(f, s)]
  <2>2. ASSUME NEW s \in Small(k + 1), Ready(s) # {}
        PROVE  f[s \ {First(s)}] \in L /\ g[s \ {First(s)}] = f[s \ {First(s)}] /\ First(s) \in items
    <3>1. s \ {First(s)} \in Small(k) /\ First(s) \in items
      BY <1>2, <1>3, <2>2
    <3>2. s \ {First(s)} \in Small(k + 1)
      <4>1. Cardinality(s \ {First(s)}) \in Nat
        BY FS_Subset, FS_CardinalityType
      <4> QED BY <3>1, <4>1
    <3> HIDE DEF Small
    <3> QED BY <2>1, <3>1, <3>2
  <2>3. ASSUME NEW s \in Small(k + 1) PROVE g[s] = At1(f, s) /\ At1(f, s) = At1(g, s) /\ g[s] \in L
    <3>1. g[s] = At1(f, s)
      <4> HIDE DEF Small, At1
      <4> QED BY <2>1, <2>3
    <3>2. At1(f, s) = At1(g, s)
      <4> HIDE DEF g
      <4> QED BY <2>2
    <3>3. At1(f, s) \in L
      <4> HIDE DEF g
      <4> QED BY <2>2 DEF L
    <3> QED BY <3>1, <3>2, <3>3
  <2>4. g \in [Small(k + 1) -> L] /\ Good(g, k + 1)
    <3>1. \A s \in Small(k + 1) : g[s] = At1(g, s)
      <4> HIDE DEF g, At1, Small
      <4> QED BY <2>3
    <3>2. g \in [Small(k + 1) -> L]
      <4>1. \A s \in Small(k + 1) : g[s] \in L
        <5> HIDE DEF g, At1, Small
        <5> QED BY <2>3
      <4> HIDE DEF Small, At1
      <4> QED BY <4>1
    <3> HIDE DEF g, At1, Small
    <3> QED BY <3>1, <3>2
  <2> HIDE DEF g, Small, Good
  <2> QED BY <2>4
<1>7. Nat \subseteq T
  <2> HIDE DEF T
  <2> QED BY <1>5, <1>6, ByInduction
<1> DEFINE n == Cardinality(items)
<1>8. n \in Nat /\ Small(n) = SUBSET items
  <2>1. n \in Nat /\ \A s \in SUBSET items : Cardinality(s) <= n
    BY FS_Subset, FS_CardinalityType
  <2> QED BY <2>1
<1>9. order = [s \in SUBSET items |-> At1(order, s)]
  <2>1. PICK f \in [SUBSET items -> L] : \A s \in SUBSET items : f[s] = At1(f, s)
    <3>1. Has(n)
      <4> HIDE DEF Has, n
      <4> QED BY <1>7, <1>8
    <3> HIDE DEF Small, At1, n, L
    <3> QED BY <1>8, <3>1
  <2>2. f = [s \in SUBSET items |-> At1(f, s)]
    <3> HIDE DEF At1, L
    <3> QED BY <2>1
  <2> HIDE DEF At1
  <2> QED BY <2>2
<1> HIDE DEF order
<1> DEFINE Fine(s) == order[s] \in Seq(s) /\ Distinct(order[s])
           U == {k \in Nat : \A s \in Small(k) : Fine(s)}
<1>10. \A s \in SUBSET items : order[s] = At1(order, s)
  <2> HIDE DEF At1
  <2> QED BY <1>9, Zenon
<1>11. ASSUME NEW s \in SUBSET items, Ready(s) = {} PROVE Fine(s)
  <2>1. order[s] = <<>>
    BY <1>10, <1>11
  <2> QED BY <2>1 DEF Distinct
<1>12. 0 \in U
  <2> SUFFICES ASSUME NEW s \in Small(0) PROVE Fine(s)
    <3> HIDE DEF Small, Fine
    <3> QED OBVIOUS
  <2> HIDE DEF Fine
  <2> QED BY <1>4, <1>11
<1>13. ASSUME NEW k \in Nat, k \in U PROVE k + 1 \in U
  <2> SUFFICES ASSUME NEW s \in Small(k + 1) PROVE Fine(s)
    <3> HIDE DEF Small, Fine
    <3> QED OBVIOUS
  <2>1. order[s] = At1(order, s)
    BY <1>10
  <2>2. CASE Ready(s) = {}
    <3> HIDE DEF Fine
    <3> QED BY <1>11, <2>2
  <2>3. CASE Ready(s) # {}
    <3>1. s \ {First(s)} \in Small(k) /\ First(s) \in s
      BY <1>2, <1>3, <2>3
    <3>2. Fine(s \ {First(s)})
      <4> HIDE DEF Small, Fine
      <4> QED BY <1>13, <3>1
    <3>3. order[s] = <<First(s)>> \o order[s \ {First(s)}]
      BY <2>1, <2>3
    <3> QED BY <3>1, <3>2, <3>3, OneMoreDistinct
  <2> QED BY <2>2, <2>3
<1>14. Nat \subseteq U
  <2> HIDE DEF U
  <2> QED BY <1>12, <1>13, ByInduction
<1>15. n \in U /\ items \in Small(n)
  <2>1. n \in U
    <3> HIDE DEF U, n
    <3> QED BY <1>8, <1>14
  <2>2. items \in Small(n)
    <3> HIDE DEF n, Small
    <3> QED BY <1>8
  <2> QED BY <2>1, <2>2
<1>16. Fine(items)
  <2> HIDE DEF Fine, n, Small
  <2> QED BY <1>15
<1> QED BY <1>1, <1>16

Builds == UNION {ToSet(b) : b \in UNION {g.batches : g \in Games}}
PhasesOf == UNION {ToSet(b.phases) : b \in Builds}

(* The systems of builds, each with its mod's name.                        *)
SystemsOf(decls) == ToSet(Declared(decls))
OwnedSystems(decls) ==
  UNION {{Owned(decls[i].systems[j], decls[i].name) : j \in DOMAIN decls[i].systems} : i \in DOMAIN decls}
Group(decls) == [name : GroupPhases, hz : 0..Second, systems : Seq(SystemsOf(decls))]

(* What a batch holds (Engine::load_batch) is a build, with its phases.    *)
LEMMA BuildIs ==
  ASSUME NEW b \in Builds
  PROVE  /\ IsBuild(b) /\ b.phases \in Seq(PhasesOf)
         /\ \A p \in ToSet(b.phases) : p \in PhasesOf
<1>1. PICK g \in Games : \E batch \in g.batches : b \in ToSet(batch)
  BY DEF Builds
<1>2. PICK batch \in g.batches : b \in ToSet(batch)
  BY <1>1
<1>3. IsBuild(b)
  BY <1>1, <1>2, GamesAssumption
<1>4. ToSet(b.phases) \subseteq PhasesOf
  BY DEF PhasesOf
<1>5. b.phases \in Seq(ToSet(b.phases))
  BY <1>3 DEF IsBuild, IsSeq
<1> QED BY <1>3, <1>4, <1>5

(* A phase that a build declares has a name that rates go by, and a rate.  *)
LEMMA PhaseIs ==
  ASSUME NEW p \in PhasesOf
  PROVE  p.name \in GroupPhases /\ p.hz \in 0..Second
<1>1. PICK b \in Builds : p \in ToSet(b.phases)
  BY DEF PhasesOf
<1>2. p.hz \in 0..Second
  BY <1>1, BuildIs DEF IsBuild
<1>3. PICK batch \in UNION {g.batches : g \in Games} : b \in ToSet(batch)
  BY DEF Builds
<1>4. PICK i \in DOMAIN batch : b = batch[i]
  BY <1>3 DEF ToSet
<1>5. p \in UNION {ToSet(batch[j].phases) : j \in DOMAIN batch}
  BY <1>1, <1>4
<1>6. p \in UNION {UNION {ToSet(c[j].phases) : j \in DOMAIN c} : c \in UNION {g.batches : g \in Games}}
  <2> DEFINE F(c) == UNION {ToSet(c[j].phases) : j \in DOMAIN c}
             C == UNION {g.batches : g \in Games}
  <2>1. p \in F(batch) /\ batch \in C
    BY <1>3, <1>5
  <2> HIDE DEF F, C
  <2>2. p \in UNION {F(c) : c \in C}
    BY <2>1
  <2> QED BY <2>2 DEF F, C
<1>7. p.name \in GroupPhases
  <2> DEFINE A == UNION {UNION {ToSet(c[j].phases) : j \in DOMAIN c} : c \in UNION {g.batches : g \in Games}}
  <2>1. GroupPhases = ToSet(Builtin) \union {q.name : q \in A}
    BY DEF GroupPhases
  <2>2. p \in A
    BY <1>6
  <2> HIDE DEF A
  <2> QED BY <2>1, <2>2
<1> QED BY <1>2, <1>7

(* order_phases turns to the phases that the builds declare.               *)
LEMMA DeclaredPhasesAre ==
  ASSUME NEW decls \in Seq(Builds)
  PROVE  DeclaredPhases(decls) \in Seq(PhasesOf)
<1> DEFINE ss == [i \in DOMAIN decls |-> decls[i].phases]
<1>1. ss \in Seq(Seq(PhasesOf))
  <2>1. \A i \in DOMAIN decls : decls[i] \in Builds
    OBVIOUS
  <2>2. \A i \in DOMAIN decls : decls[i].phases \in Seq(PhasesOf)
    BY <2>1, BuildIs
  <2>3. DOMAIN decls = 1..Len(decls) /\ Len(decls) \in Nat
    OBVIOUS
  <2> QED BY <2>2, <2>3
<1>2. FlattenSeq(ss) \in Seq(PhasesOf)
  <2> HIDE DEF ss
  <2> QED BY <1>1, FlattenedSeq
<1> QED BY <1>2 DEF DeclaredPhases

(* plan's nodes are systems of the builds, each named with its mod.        *)
LEMMA DeclaredAre ==
  ASSUME NEW decls \in Seq(Builds)
  PROVE  Declared(decls) \in Seq(SystemsOf(decls)) /\ SystemsOf(decls) \subseteq OwnedSystems(decls)
<1> DEFINE S == OwnedSystems(decls)
           F(i) == [j \in DOMAIN decls[i].systems |-> Owned(decls[i].systems[j], decls[i].name)]
           ss == [i \in DOMAIN decls |-> F(i)]
<1>1. ASSUME NEW i \in DOMAIN decls PROVE F(i) \in Seq(S)
  <2>1. decls[i] \in Builds
    OBVIOUS
  <2>2. decls[i].systems \in Seq(ToSet(decls[i].systems))
    BY <2>1, BuildIs DEF IsBuild, IsSeq
  <2>3. DOMAIN decls[i].systems = 1..Len(decls[i].systems) /\ Len(decls[i].systems) \in Nat
    BY <2>2
  <2>4. \A j \in DOMAIN decls[i].systems : Owned(decls[i].systems[j], decls[i].name) \in S
    BY DEF OwnedSystems
  <2> HIDE DEF S
  <2> QED BY <2>3, <2>4
<1>2. ss \in Seq(Seq(S))
  <2>1. DOMAIN decls = 1..Len(decls) /\ Len(decls) \in Nat
    OBVIOUS
  <2> HIDE DEF F, S
  <2> QED BY <1>1, <2>1
<1>3. FlattenSeq(ss) \in Seq(S)
  <2> HIDE DEF ss, S
  <2> QED BY <1>2, FlattenedSeq
<1>4. Declared(decls) \in Seq(S)
  BY <1>3 DEF Declared
<1>5. \A d : d \in Seq(S) => d \in Seq(ToSet(d)) /\ ToSet(d) \subseteq S
  <2> HIDE DEF S
  <2> QED BY DEF ToSet
<1> HIDE DEF S
<1>6. Declared(decls) \in Seq(ToSet(Declared(decls))) /\ ToSet(Declared(decls)) \subseteq S
  BY <1>4, <1>5
<1> QED BY <1>6 DEF SystemsOf, S

(* The names order_phases collects are of phases: the engine's, then those *)
(* declared.                                                               *)
LEMMA PhaseNamesAre ==
  ASSUME NEW declared \in Seq(PhasesOf)
  PROVE  PhaseNames(declared) \in Seq(GroupPhases)
<1> DEFINE F(i) == IF declared[i].name \in ToSet(Builtin) \union {declared[j].name : j \in 1..i - 1}
                   THEN <<>> ELSE <<declared[i].name>>
           ss == [i \in DOMAIN declared |-> F(i)]
<1>1. Builtin \in Seq(GroupPhases)
  <2>1. Builtin \in Seq(ToSet(Builtin)) /\ ToSet(Builtin) \subseteq GroupPhases
    BY TimeAssumption DEF IsSeq, GroupPhases
  <2> QED BY <2>1
<1>2. ASSUME NEW i \in DOMAIN declared PROVE F(i) \in Seq(GroupPhases)
  <2>1. declared[i] \in PhasesOf
    OBVIOUS
  <2>2. declared[i].name \in GroupPhases
    BY <2>1, PhaseIs
  <2>3. <<declared[i].name>> \in Seq(GroupPhases) /\ <<>> \in Seq(GroupPhases)
    BY <2>2
  <2>4. F(i) = <<>> \/ F(i) = <<declared[i].name>>
    BY Zenon
  <2> HIDE DEF F
  <2> QED BY <2>3, <2>4
<1>3. ss \in Seq(Seq(GroupPhases))
  <2>1. DOMAIN declared = 1..Len(declared) /\ Len(declared) \in Nat
    OBVIOUS
  <2> HIDE DEF F
  <2> QED BY <1>2, <2>1
<1>4. FlattenSeq(ss) \in Seq(GroupPhases)
  <2> HIDE DEF ss
  <2> QED BY <1>3, FlattenedSeq
<1>5. Builtin \o FlattenSeq(ss) \in Seq(GroupPhases)
  <2> HIDE DEF ss
  <2> QED BY <1>1, <1>4
<1> QED BY <1>5 DEF PhaseNames

(* So are those that order_phases returns.                                 *)
LEMMA PhaseOrderIs ==
  ASSUME NEW names \in Seq(GroupPhases), NEW declared
  PROVE  PhaseOrder(names, declared) \in Seq(GroupPhases)
<1> DEFINE rank == [i \in DOMAIN names |-> i]
           order == Topological(DOMAIN names, PhaseEdges(names, declared), rank)
<1>1. IsFiniteSet(DOMAIN names) /\ \A i \in DOMAIN names : rank[i] \in Nat
  <2>1. DOMAIN names = 1..Len(names) /\ Len(names) \in Nat
    OBVIOUS
  <2>2. IsFiniteSet(1..Len(names))
    BY <2>1, FS_Interval
  <2> QED BY <2>1, <2>2
<1>2. order \in Seq(DOMAIN names)
  <2> HIDE DEF rank
  <2> QED BY <1>1, TopologicalIs
<1>3. Picked(names, order) \in Seq(GroupPhases)
  <2> HIDE DEF order
  <2> QED BY <1>2, PickedIs
<1> QED BY <1>3 DEF PhaseOrder

(* A phase's rate is that of a declaration, Simulate's, or none.           *)
LEMMA RateIs ==
  ASSUME NEW declared \in Seq(PhasesOf), NEW name
  PROVE  Rate(declared, name) \in 0..Second
<1> DEFINE rated == {i \in Named(declared, name) : declared[i].hz # 0}
           first == CHOOSE i \in rated : \A j \in rated : i <= j
<1>1. SimulateHz \in 0..Second /\ 0 \in 0..Second
  BY TimeAssumption
<1>2. CASE rated # {}
  <2>1. rated \in SUBSET Nat /\ \A i \in rated : i \in DOMAIN declared
    BY DEF Named
  <2>2. \E i \in rated : \A j \in rated : i <= j
    <3> HIDE DEF rated
    <3> QED BY <1>2, <2>1, LeastOfNats
  <2>3. first \in rated
    <3> HIDE DEF rated
    <3> QED BY <2>2
  <2> HIDE DEF first
  <2>4. declared[first] \in PhasesOf
    BY <2>1, <2>3
  <2>5. declared[first].hz \in 0..Second
    BY <2>4, PhaseIs
  <2>6. Rate(declared, name) = declared[first].hz
    BY <1>2 DEF Rate, first
  <2> QED BY <2>5, <2>6
<1>3. CASE rated = {}
  <2>1. Rate(declared, name) = SimulateHz \/ Rate(declared, name) = 0
    BY <1>3 DEF Rate
  <2> QED BY <1>1, <2>1
<1> QED BY <1>2, <1>3

(* A phase that is in the order has a place there: plan's phase_rank.      *)
LEMMA RankIs ==
  ASSUME NEW phases \in Seq(GroupPhases), NEW name \in ToSet(phases)
  PROVE  RankOf(phases, name) \in DOMAIN phases /\ RankOf(phases, name) \in Nat
<1>1. \E k \in DOMAIN phases : phases[k] = name
  BY DEF ToSet
<1>2. RankOf(phases, name) \in DOMAIN phases
  BY <1>1 DEF RankOf
<1> QED BY <1>2

(* What plan orders are its nodes.                                         *)
LEMMA SystemOrderIs ==
  ASSUME NEW S, NEW systems \in Seq(S), NEW phases \in Seq(GroupPhases),
         \A i \in DOMAIN systems : systems[i].phase \in ToSet(phases)
  PROVE  SystemOrder(systems, Ranks(systems, phases)) \in Seq(S)
<1> DEFINE ranks == Ranks(systems, phases)
           rank  == [i \in DOMAIN systems |-> ranks[i] * (Len(systems) + 1) + i]
           edges == {e \in Constraints(systems) : ranks[e[1]] = ranks[e[2]]}
           order == Topological(DOMAIN systems, edges, rank)
<1>1. DOMAIN systems = 1..Len(systems) /\ Len(systems) \in Nat
  OBVIOUS
<1>2. ASSUME NEW i \in DOMAIN systems PROVE rank[i] \in Nat
  <2>1. ranks[i] \in Nat
    BY RankIs DEF Ranks
  <2>2. i \in Nat /\ Len(systems) + 1 \in Nat
    BY <1>1
  <2> HIDE DEF ranks
  <2>3. \A a, b \in Nat : a * b \in Nat
    OBVIOUS
  <2>4. ranks[i] * (Len(systems) + 1) \in Nat
    BY <2>1, <2>2, <2>3
  <2> QED BY <2>2, <2>4
<1>3. IsFiniteSet(DOMAIN systems)
  BY <1>1, FS_Interval
<1>4. order \in Seq(DOMAIN systems)
  <2> HIDE DEF rank, edges
  <2> QED BY <1>2, <1>3, TopologicalIs
<1>5. Picked(systems, order) \in Seq(S)
  <2> HIDE DEF order
  <2> QED BY <1>4, PickedIs
<1> QED BY <1>5 DEF SystemOrder

PhasesIn(S) == [name : GroupPhases, hz : 0..Second, systems : Seq(S)]

(* plan lists, for each phase in order, its name, rate and systems.        *)
LEMMA SortedIs ==
  ASSUME NEW S, NEW declared \in Seq(PhasesOf), NEW order \in Seq(S), NEW phases \in Seq(GroupPhases)
  PROVE  Sorted(declared, order, phases) \in Seq(PhasesIn(S))
<1> DEFINE Of(k) == FlattenSeq([i \in DOMAIN order |-> IF order[i].phase = phases[k] THEN <<order[i]>> ELSE <<>>])
           R(k) == [name |-> phases[k], hz |-> Rate(declared, phases[k]), systems |-> Of(k)]
<1>1. DOMAIN order = 1..Len(order) /\ Len(order) \in Nat /\ \A i \in DOMAIN order : order[i] \in S
  OBVIOUS
<1>2. ASSUME NEW k \in DOMAIN phases PROVE Of(k) \in Seq(S)
  <2> DEFINE F(i) == IF order[i].phase = phases[k] THEN <<order[i]>> ELSE <<>>
             ss == [i \in DOMAIN order |-> F(i)]
  <2>1. ASSUME NEW i \in DOMAIN order PROVE F(i) \in Seq(S)
    <3>1. <<order[i]>> \in Seq(S) /\ <<>> \in Seq(S)
      BY <1>1
    <3>2. F(i) = <<order[i]>> \/ F(i) = <<>>
      BY Zenon
    <3> HIDE DEF F
    <3> QED BY <3>1, <3>2
  <2>2. ss \in Seq(Seq(S))
    <3> HIDE DEF F
    <3> QED BY <1>1, <2>1
  <2>3. FlattenSeq(ss) \in Seq(S)
    <3> HIDE DEF ss
    <3> QED BY <2>2, FlattenedSeq
  <2> QED BY <2>3
<1>3. ASSUME NEW k \in DOMAIN phases PROVE R(k) \in PhasesIn(S)
  <2>1. Rate(declared, phases[k]) \in 0..Second /\ phases[k] \in GroupPhases
    BY RateIs
  <2> HIDE DEF Of
  <2> QED BY <1>2, <2>1 DEF PhasesIn
<1>4. DOMAIN phases = 1..Len(phases) /\ Len(phases) \in Nat
  OBVIOUS
<1>5. Sorted(declared, order, phases) = [k \in DOMAIN phases |-> R(k)]
  BY DEF Sorted
<1> HIDE DEF R
<1> QED BY <1>3, <1>4, <1>5

(* Groups of phases (Engine::steps) have systems of theirs.                *)
LEMMA GroupsAre ==
  ASSUME NEW S, NEW phases \in Seq(PhasesIn(S))
  PROVE  Groups(phases) \in Seq(PhasesIn(S))
<1> DEFINE opens == Opens(phases)
           Part(i, k) == IF i <= k /\ \A o \in opens : o <= i \/ k < o THEN phases[k].systems ELSE <<>>
           Of(i) == FlattenSeq([k \in DOMAIN phases |-> Part(i, k)])
           F(i) == IF i \in opens THEN <<GroupFrom(phases, i, opens)>> ELSE <<>>
           ss == [i \in DOMAIN phases |-> F(i)]
<1>1. /\ DOMAIN phases = 1..Len(phases) /\ Len(phases) \in Nat
      /\ \A k \in DOMAIN phases : /\ phases[k] \in PhasesIn(S) /\ phases[k].name \in GroupPhases
                                  /\ phases[k].hz \in 0..Second /\ phases[k].systems \in Seq(S)
  <2>1. \A p \in PhasesIn(S) : p.name \in GroupPhases /\ p.hz \in 0..Second /\ p.systems \in Seq(S)
    BY DEF PhasesIn
  <2>2. \A k \in DOMAIN phases : phases[k] \in PhasesIn(S)
    OBVIOUS
  <2>3. DOMAIN phases = 1..Len(phases) /\ Len(phases) \in Nat
    OBVIOUS
  <2> QED BY <2>1, <2>2, <2>3
<1>2. ASSUME NEW i \in DOMAIN phases PROVE Of(i) \in Seq(S)
  <2> DEFINE parts == [k \in DOMAIN phases |-> Part(i, k)]
  <2>1. ASSUME NEW k \in DOMAIN phases PROVE Part(i, k) \in Seq(S)
    <3>1. phases[k].systems \in Seq(S) /\ <<>> \in Seq(S)
      BY <1>1
    <3>2. Part(i, k) = phases[k].systems \/ Part(i, k) = <<>>
      BY Zenon
    <3> HIDE DEF Part
    <3> QED BY <3>1, <3>2
  <2>2. parts \in Seq(Seq(S))
    <3> HIDE DEF Part
    <3> QED BY <1>1, <2>1
  <2>3. FlattenSeq(parts) \in Seq(S)
    <3> HIDE DEF parts
    <3> QED BY <2>2, FlattenedSeq
  <2> QED BY <2>3
<1>3. ASSUME NEW i \in DOMAIN phases PROVE F(i) \in Seq(PhasesIn(S))
  <2>1. GroupFrom(phases, i, opens) = [name |-> phases[i].name, hz |-> phases[i].hz, systems |-> Of(i)]
    BY DEF GroupFrom
  <2> HIDE DEF Of
  <2>2. GroupFrom(phases, i, opens) \in PhasesIn(S)
    BY <1>1, <1>2, <2>1 DEF PhasesIn
  <2>3. F(i) = <<GroupFrom(phases, i, opens)>> \/ F(i) = <<>>
    BY Zenon
  <2>4. <<GroupFrom(phases, i, opens)>> \in Seq(PhasesIn(S)) /\ <<>> \in Seq(PhasesIn(S))
    BY <2>2
  <2> HIDE DEF F
  <2> QED BY <2>3, <2>4
<1>4. ss \in Seq(Seq(PhasesIn(S)))
  <2> HIDE DEF F
  <2> QED BY <1>1, <1>3
<1>5. FlattenSeq(ss) \in Seq(PhasesIn(S))
  <2> HIDE DEF ss
  <2> QED BY <1>4, FlattenedSeq
<1> QED BY <1>5 DEF Groups, GroupsAt

(* A plan's groups run systems of the builds it was made of.               *)
LEMMA PlanIs ==
  ASSUME NEW decls \in Seq(Builds)
  PROVE  Plan(decls).groups \in Seq(Group(decls))
<1> DEFINE S == SystemsOf(decls)
           declared == DeclaredPhases(decls)
           systems == Declared(decls)
           names == PhaseNames(declared)
           phases == PhaseOrder(names, declared)
           order == SystemOrder(systems, Ranks(systems, phases))
           G == PhasesIn(S)
           planned == Ordered(decls)
<1>1. declared \in Seq(PhasesOf) /\ systems \in Seq(S)
  BY DeclaredPhasesAre, DeclaredAre
<1>2. names \in Seq(GroupPhases)
  <2> HIDE DEF declared
  <2> QED BY <1>1, PhaseNamesAre
<1>3. phases \in Seq(GroupPhases)
  <2> HIDE DEF names
  <2> QED BY <1>2, PhaseOrderIs
<1> HIDE DEF S, declared, systems, names, phases
<1>4. NoPlan.groups \in Seq(G)
  BY DEF NoPlan
<1>5. planned.groups \in Seq(G)
  <2>1. planned = IF Len(phases) = Len(names) /\ InPhases(systems, phases)
                  THEN InGroups(declared, systems, phases, order) ELSE NoPlan
    BY DEF Ordered, PlanIn, Phased, declared, systems, names, phases
  <2>2. CASE Len(phases) = Len(names) /\ InPhases(systems, phases)
    <3>1. order \in Seq(S)
      BY <1>1, <1>3, <2>2, SystemOrderIs DEF InPhases
    <3> HIDE DEF order
    <3>2. Groups(Sorted(declared, order, phases)) \in Seq(G)
      BY <1>1, <1>3, <3>1, SortedIs, GroupsAre
    <3>3. planned = NoPlan \/ planned = [ok |-> TRUE, groups |-> Groups(Sorted(declared, order, phases))]
      BY <2>1, <2>2, Zenon DEF InGroups
    <3> HIDE DEF planned, G
    <3> QED BY <1>4, <3>2, <3>3
  <2>3. CASE ~(Len(phases) = Len(names) /\ InPhases(systems, phases))
    BY <1>4, <2>1, <2>3
  <2> QED BY <2>2, <2>3
<1>6. Plan(decls) = planned \/ Plan(decls) = NoPlan
  BY Zenon DEF Plan, CheckFlows
<1>7. Plan(decls).groups \in Seq(G)
  <2> HIDE DEF planned, G
  <2> QED BY <1>4, <1>5, <1>6
<1> QED BY <1>7 DEF Group, PhasesIn, S

(* A slot of a flow, and what it holds is of code that it keeps mapped.    *)
SlotOk(slot) ==
  slot \in Slot(ModNames) /\ Mapped(slot, slot.value) /\ Mapped(slot, slot.bin)

(* What goes into a bin is of code that the slot keeps mapped, if it was   *)
(* before.                                                                 *)
LEMMA ToBinIs ==
  ASSUME NEW slot, SlotOk(slot), NEW v \in Value, Mapped(slot, v)
  PROVE  SlotOk(ToBin(slot, v)) /\ ToBin(slot, v).keepalives = slot.keepalives
<1> DEFINE r == ToBin(slot, v)
<1>1. CASE r = slot
  BY <1>1
<1>2. CASE r = [slot EXCEPT !.bin = v]
  <2>1. /\ r = [value |-> slot.value, bin |-> v, keepalives |-> slot.keepalives]
        /\ slot.keepalives \in [ModNames -> Nat] /\ slot.value \in Value \union {NoValue}
    BY <1>2 DEF SlotOk, Slot
  <2> HIDE DEF r
  <2>2. r.value = slot.value /\ r.bin = v /\ r.keepalives = slot.keepalives
    BY <2>1
  <2>3. r \in Slot(ModNames)
    BY <2>1 DEF Slot
  <2> QED BY <2>2, <2>3 DEF SlotOk, Mapped, r
<1>3. r = slot \/ r = [slot EXCEPT !.bin = v]
  BY Zenon DEF ToBin
<1> QED BY <1>1, <1>2, <1>3

(* So is what is left of an emptied slot.                                  *)
LEMMA EmptiedIs ==
  ASSUME NEW slot, SlotOk(slot)
  PROVE  LET r == [slot EXCEPT !.value = NoValue] IN SlotOk(r) /\ r.keepalives = slot.keepalives
<1> DEFINE r == [slot EXCEPT !.value = NoValue]
<1>1. /\ r = [value |-> NoValue, bin |-> slot.bin, keepalives |-> slot.keepalives]
      /\ slot.keepalives \in [ModNames -> Nat] /\ slot.bin \in Value \union {NoValue}
  BY DEF SlotOk, Slot
<1> HIDE DEF r
<1>2. r.value = NoValue /\ r.bin = slot.bin /\ r.keepalives = slot.keepalives
  BY <1>1
<1>3. r \in Slot(ModNames)
  BY <1>1 DEF Slot
<1> QED BY <1>2, <1>3 DEF SlotOk, Mapped, r

(* A use by a build that the slot keeps mapped leaves only what it keeps   *)
(* mapped.                                                                 *)
LEMMA UsedIs ==
  ASSUME NEW slot, SlotOk(slot), NEW access \in Accesses, Found(slot, access),
         NEW now \in Nat \X Nat, NEW build \in Nat \ {0}, NEW kept,
         NEW m \in ModNames, slot.keepalives[m] = build
  PROVE  LET r == Used(slot, access, now, build, kept) IN SlotOk(r) /\ r.keepalives = slot.keepalives
<1> DEFINE r == Used(slot, access, now, build, kept)
           keeps == slot.keepalives
<1>1. /\ slot = [value |-> slot.value, bin |-> slot.bin, keepalives |-> keeps]
      /\ keeps \in [ModNames -> Nat] /\ DOMAIN keeps = ModNames
      /\ slot.value \in Value \union {NoValue} /\ slot.bin \in Value \union {NoValue}
  BY DEF SlotOk, Slot
<1>2. ASSUME NEW s, NEW v, s.keepalives = keeps, v = NoValue \/ v.by = build PROVE Mapped(s, v)
  BY <1>1, <1>2 DEF Mapped
<1>3. CASE access = "Make"
  <2> DEFINE v == [made |-> now, by |-> build]
             b == IF slot.value = NoValue THEN NoValue ELSE slot.bin
  <2>1. r = [value |-> v, bin |-> b, keepalives |-> keeps]
    <3>1. r = [slot EXCEPT !.value = v, !.bin = b]
      BY <1>3 DEF Used
    <3> HIDE DEF v, b, r
    <3> QED BY <1>1, <3>1
  <2>2. v \in Value /\ v.by = build /\ (b = NoValue \/ b = slot.bin)
    BY DEF Value
  <2> HIDE DEF v, b, r
  <2>3. r.value = v /\ r.bin = b /\ r.keepalives = keeps
    BY <2>1
  <2>4. r \in Slot(ModNames)
    BY <1>1, <2>1, <2>2 DEF Slot
  <2>5. Mapped(r, v)
    BY <1>2, <2>2, <2>3
  <2>6. Mapped(r, b)
    BY <2>2, <2>3 DEF SlotOk, Mapped
  <2> QED BY <2>3, <2>4, <2>5, <2>6 DEF SlotOk, r
<1>4. CASE access = "See"
  BY <1>4 DEF Used
<1>5. ASSUME access # "Make"
      PROVE  /\ slot.value \in Value /\ [slot.value EXCEPT !.by = build] \in Value
             /\ [slot.value EXCEPT !.by = build].by = build
  <2>1. slot.value \in Value
    BY <1>1, <1>5 DEF Found
  <2> QED BY <2>1 DEF Value
<1>6. CASE access = "Pass"
  <2> DEFINE v == [slot.value EXCEPT !.by = build]
  <2>1. r = [value |-> v, bin |-> slot.bin, keepalives |-> keeps]
    <3>1. r = [slot EXCEPT !.value = v]
      BY <1>6, <1>5 DEF Used
    <3> HIDE DEF v, r
    <3> QED BY <1>1, <3>1
  <2>2. v \in Value /\ v.by = build
    BY <1>5, <1>6
  <2> HIDE DEF v, r
  <2>3. r.value = v /\ r.bin = slot.bin /\ r.keepalives = keeps
    BY <2>1
  <2>4. r \in Slot(ModNames)
    BY <1>1, <2>1, <2>2 DEF Slot
  <2>5. Mapped(r, v)
    BY <1>2, <2>2, <2>3
  <2>6. Mapped(r, r.bin)
    BY <2>3 DEF SlotOk, Mapped
  <2> QED BY <2>3, <2>4, <2>5, <2>6 DEF SlotOk, r
<1>7. CASE access = "Take"
  <2> DEFINE taken == [slot EXCEPT !.value = NoValue]
             v == [slot.value EXCEPT !.by = build]
  <2>1. SlotOk(taken) /\ taken.keepalives = keeps
    BY EmptiedIs
  <2>2. v \in Value /\ v.by = build
    BY <1>5, <1>7
  <2>3. r = IF kept THEN taken ELSE ToBin(taken, v)
    BY <1>7 DEF Used
  <2> HIDE DEF taken, v, r
  <2>4. Mapped(taken, v)
    BY <1>2, <2>1, <2>2
  <2>5. SlotOk(ToBin(taken, v)) /\ ToBin(taken, v).keepalives = keeps
    BY <2>1, <2>2, <2>4, ToBinIs
  <2>6. SlotOk(r) /\ r.keepalives = keeps
    BY <2>1, <2>3, <2>5
  <2> QED BY <2>6 DEF r
<1> QED BY <1>3, <1>4, <1>6, <1>7 DEF Accesses

SlotsOk == slots \in [FlowNames -> Slot(ModNames)] /\ ValuesMapped

(* The slots are right if each is.                                         *)
LEMMA SlotsAre ==
  SlotsOk <=> DOMAIN slots = FlowNames /\ slots = [f \in FlowNames |-> slots[f]] /\ \A f \in FlowNames : SlotOk(slots[f])
BY DEF SlotsOk, SlotOk, ValuesMapped

(* A system of a build, named with its mod.                                *)
OfBuild(s, b) ==
  /\ s.mod = b.name /\ s.sends \subseteq Kinds /\ IsSeq(s.uses)
  /\ \E j \in DOMAIN b.systems : s.uses = b.systems[j].uses
  /\ \A i, j \in DOMAIN s.uses : i # j => s.uses[i].flow # s.uses[j].flow
  /\ \A u \in ToSet(s.uses) : u.flow \in FlowsOf(b.systems) /\ u.flow \in FlowNames /\ u.access \in Accesses

(* A system that is planned is one of a build's, named with its mod.       *)
LEMMA OwnedIs ==
  ASSUME NEW decls \in Seq(Builds), NEW s \in SystemsOf(decls)
  PROVE  \E i \in DOMAIN decls : OfBuild(s, decls[i])
<1>0. s \in OwnedSystems(decls)
  BY DeclaredAre
<1>1. PICK i \in DOMAIN decls : s \in {Owned(decls[i].systems[j], decls[i].name) : j \in DOMAIN decls[i].systems}
  BY <1>0 DEF OwnedSystems
<1> DEFINE b == decls[i]
<1>2. PICK j \in DOMAIN b.systems : s = Owned(b.systems[j], b.name)
  BY <1>1
<1>3. b \in Builds
  OBVIOUS
<1> HIDE DEF b
<1> DEFINE t == b.systems[j]
<1>4. IsBuild(b) /\ t \in ToSet(b.systems)
  BY <1>3, BuildIs DEF ToSet
<1>5. /\ DOMAIN t = SystemFields /\ t.sends \subseteq Kinds /\ IsSeq(t.uses)
      /\ \A u \in ToSet(t.uses) : u.flow \in FlowNames /\ u.access \in Accesses
      /\ \A k, l \in DOMAIN t.uses : k # l => t.uses[k].flow # t.uses[l].flow
  BY <1>4 DEF IsBuild
<1>6. \A u \in ToSet(t.uses) : u.flow \in FlowsOf(b.systems)
  BY <1>4 DEF FlowsOf
<1> HIDE DEF t
<1>7. s.mod = b.name /\ s.sends = t.sends /\ s.uses = t.uses
  BY <1>2, <1>5 DEF Owned, SystemFields, t
<1>8. OfBuild(s, b)
  <2>1. \E k \in DOMAIN b.systems : t.uses = b.systems[k].uses
    BY DEF t
  <2> QED BY <1>5, <1>6, <1>7, <2>1 DEF OfBuild
<1> QED BY <1>8 DEF b

(* A system uses flows that keep its build mapped: FlowSlot's values and   *)
(* keepalives stay right.                                                  *)
LEMMA UseFlowsStep ==
  ASSUME SlotsOk, NEW s, NEW b, OfBuild(s, b), b.name \in ModNames, NEW now \in Nat \X Nat,
         NEW build \in Nat \ {0}, NEW kept,
         \A f \in FlowsOf(b.systems) \intersect FlowNames : slots[f].keepalives[b.name] = build,
         UseFlows(s.uses, now, build, kept)
  PROVE  SlotsOk' /\ \A f \in FlowNames : slots'[f].keepalives = slots[f].keepalives
<1> DEFINE Of(f) == CHOOSE u \in Fetched(s.uses) : u.flow = f
           New(f) == IF \E u \in Fetched(s.uses) : u.flow = f
                     THEN Used(slots[f], Of(f).access, now, build, kept) ELSE slots[f]
<1>1. slots' = [f \in FlowNames |-> New(f)]
  BY DEF UseFlows
<1>2. ASSUME NEW f \in FlowNames
      PROVE  SlotOk(New(f)) /\ New(f).keepalives = slots[f].keepalives
  <2>1. SlotOk(slots[f])
    BY SlotsAre
  <2>2. CASE ~ \E u \in Fetched(s.uses) : u.flow = f
    BY <2>1, <2>2
  <2>3. CASE \E u \in Fetched(s.uses) : u.flow = f
    <3>1. Of(f) \in Fetched(s.uses) /\ Of(f).flow = f
      BY <2>3
    <3>2. New(f) = Used(slots[f], Of(f).access, now, build, kept)
      BY <2>3
    <3> HIDE DEF Of, New
    <3>3. PICK i \in DOMAIN s.uses : Of(f) = s.uses[i] /\ \A j \in 1..i : FoundAt(s.uses, j)
      BY <3>1 DEF Fetched
    <3>4. Of(f) \in ToSet(s.uses)
      BY <3>3 DEF ToSet
    <3>5. Of(f).access \in Accesses /\ f \in FlowsOf(b.systems)
      BY <3>1, <3>4 DEF OfBuild
    <3>6. Found(slots[f], Of(f).access)
      <4>1. i \in 1..i
        BY DEF OfBuild, IsSeq
      <4> QED BY <3>1, <3>3, <4>1 DEF FoundAt
    <3>7. slots[f].keepalives[b.name] = build
      BY <3>5
    <3> QED BY <2>1, <3>2, <3>5, <3>6, <3>7, UsedIs
  <2> QED BY <2>2, <2>3
<1> HIDE DEF New
<1>3. SlotsOk'
  BY <1>1, <1>2 DEF SlotsOk, SlotOk, ValuesMapped
<1> QED BY <1>1, <1>2, <1>3

(* The end of a frame empties slots into their bins, and keeps what is     *)
(* mapped.                                                                 *)
LEMMA ExpireFlowsStep ==
  ASSUME SlotsOk, ExpireFlows
  PROVE  SlotsOk' /\ \A f \in FlowNames : slots'[f].keepalives = slots[f].keepalives
<1> DEFINE Emptied(f) == [slots[f] EXCEPT !.value = NoValue]
           New(f) == IF slots[f].value = NoValue THEN slots[f] ELSE ToBin(Emptied(f), slots[f].value)
<1>1. slots' = [f \in FlowNames |-> New(f)]
  BY DEF ExpireFlows
<1>2. ASSUME NEW f \in FlowNames
      PROVE  SlotOk(New(f)) /\ New(f).keepalives = slots[f].keepalives
  <2>1. SlotOk(slots[f])
    BY SlotsAre
  <2>2. CASE slots[f].value = NoValue
    BY <2>1, <2>2
  <2>3. CASE slots[f].value # NoValue
    <3>1. SlotOk(Emptied(f)) /\ Emptied(f).keepalives = slots[f].keepalives
      BY <2>1, EmptiedIs
    <3>2. New(f) = ToBin(Emptied(f), slots[f].value)
      BY <2>3
    <3> HIDE DEF Emptied, New
    <3>3. slots[f].value \in Value
      BY <2>1, <2>3 DEF SlotOk, Slot
    <3>4. Mapped(Emptied(f), slots[f].value)
      BY <2>1, <3>1 DEF SlotOk, Mapped
    <3> QED BY <3>1, <3>2, <3>3, <3>4, ToBinIs
  <2> QED BY <2>2, <2>3
<1> HIDE DEF New
<1>3. SlotsOk'
  BY <1>1, <1>2 DEF SlotsOk, SlotOk, ValuesMapped
<1> QED BY <1>1, <1>2, <1>3

(* Builds that are installed together: each mod's once.                    *)
Together(builds) ==
  /\ \A b \in builds : b.name \in ModNames /\ b.loadedAt \in Nat /\ b.layouts \in [Kinds -> Nat]
  /\ \A a, b \in builds : a.name = b.name => a = b

(* install_all empties the slots of the flows that builds use, bins too, and *)
(* maps the builds for them; the other slots stay.                         *)
LEMMA InstallFlowsStep ==
  ASSUME SlotsOk, NEW builds, Together(builds), InstallFlows(builds)
  PROVE  /\ SlotsOk'
         /\ \A b \in builds : \A f \in b.flows \intersect FlowNames : slots'[f].keepalives[b.name] = b.loadedAt
         /\ \A f \in FlowNames : \A m \in ModNames :
              (\A b \in builds : b.name # m) => slots'[f].keepalives[m] = slots[f].keepalives[m]
<1> DEFINE Users(f) == {b \in builds : f \in b.flows}
           The(f, m) == CHOOSE b \in Users(f) : b.name = m
           Keep(f, m) == IF \E b \in Users(f) : b.name = m THEN The(f, m).loadedAt ELSE slots[f].keepalives[m]
           Keeps(f) == [m \in DOMAIN slots[f].keepalives |-> Keep(f, m)]
           New(f) == IF Users(f) = {} THEN slots[f]
                     ELSE [value |-> NoValue, bin |-> NoValue, keepalives |-> Keeps(f)]
<1>1. slots' = [f \in FlowNames |-> New(f)]
  BY DEF InstallFlows
<1>2. ASSUME NEW f \in FlowNames
      PROVE  SlotOk(slots[f]) /\ slots[f].keepalives \in [ModNames -> Nat]
  <2>1. SlotOk(slots[f])
    BY SlotsAre
  <2> QED BY <2>1 DEF SlotOk, Slot
<1>3. ASSUME NEW f, NEW m, NEW b \in Users(f), b.name = m
      PROVE  Keep(f, m) = b.loadedAt
  <2>1. The(f, m) \in Users(f) /\ The(f, m).name = m
    BY <1>3
  <2>2. The(f, m) = b
    BY <1>3, <2>1 DEF Together
  <2>3. Keep(f, m) = The(f, m).loadedAt
    BY <1>3
  <2> HIDE DEF Keep, The
  <2> QED BY <2>2, <2>3
<1>4. ASSUME NEW f \in FlowNames, NEW m \in ModNames
      PROVE  /\ Keep(f, m) \in Nat
             /\ (\A b \in builds : b.name # m) => Keep(f, m) = slots[f].keepalives[m]
  <2>1. CASE \E b \in Users(f) : b.name = m
    <3>1. PICK b \in Users(f) : b.name = m
      BY <2>1
    <3>2. Keep(f, m) = b.loadedAt
      <4> HIDE DEF Keep, Users
      <4> QED BY <1>3, <3>1
    <3> HIDE DEF Keep
    <3> QED BY <3>1, <3>2 DEF Together
  <2>2. CASE ~ \E b \in Users(f) : b.name = m
    BY <1>2, <2>2
  <2> QED BY <2>1, <2>2
<1> HIDE DEF Keep
<1>5. ASSUME NEW f \in FlowNames
      PROVE  /\ SlotOk(New(f))
             /\ \A m \in ModNames : New(f).keepalives[m] = Keep(f, m) \/ Users(f) = {}
             /\ Users(f) = {} => New(f) = slots[f]
  <2>1. CASE Users(f) = {}
    BY <1>2, <2>1
  <2>2. CASE Users(f) # {}
    <3>1. New(f) = [value |-> NoValue, bin |-> NoValue, keepalives |-> Keeps(f)]
      BY <2>2
    <3>2. DOMAIN slots[f].keepalives = ModNames
      BY <1>2
    <3>3. Keeps(f) \in [ModNames -> Nat] /\ \A m \in ModNames : Keeps(f)[m] = Keep(f, m)
      BY <1>4, <3>2
    <3> HIDE DEF New, Keeps, Users
    <3>4. New(f) \in Slot(ModNames)
      BY <3>1, <3>3 DEF Slot
    <3>5. SlotOk(New(f))
      BY <3>1, <3>4 DEF SlotOk, Mapped
    <3> QED BY <2>2, <3>1, <3>3, <3>5
  <2> QED BY <2>1, <2>2
<1>6. SlotsOk'
  <2> HIDE DEF New
  <2> QED BY <1>1, <1>5 DEF SlotsOk, SlotOk, ValuesMapped
<1>7. ASSUME NEW b \in builds, NEW f \in b.flows \intersect FlowNames
      PROVE  slots'[f].keepalives[b.name] = b.loadedAt
  <2>1. b \in Users(f) /\ b.name \in ModNames
    BY <1>7 DEF Together
  <2>2. Keep(f, b.name) = b.loadedAt
    BY <1>3, <2>1
  <2>3. slots'[f] = New(f)
    BY <1>1
  <2> HIDE DEF New
  <2> QED BY <1>5, <2>1, <2>2, <2>3
<1>8. ASSUME NEW f \in FlowNames, NEW m \in ModNames, \A b \in builds : b.name # m
      PROVE  slots'[f].keepalives[m] = slots[f].keepalives[m]
  <2>1. slots'[f] = New(f)
    BY <1>1
  <2>2. Keep(f, m) = slots[f].keepalives[m]
    BY <1>4, <1>8
  <2> HIDE DEF New
  <2> QED BY <1>5, <2>1, <2>2
<1> QED BY <1>6, <1>7, <1>8

(* What queues hold, and what was heard, besides what EventsInv says.      *)
Whole(q) == q = [f \in Fields |-> q[f]]
EventsTyped ==
  /\ queues = [k \in Kinds |-> queues[k]]
  /\ \A k \in Kinds : Whole(queues[k]) /\ queues[k].layout \in Nat /\ queues[k].loadedAt \in Nat
  /\ heard \in [Kinds -> SUBSET Event]

(* What a queue holds and what it says of itself are of their types.       *)
LEMMA EventsTypeIs ==
  ASSUME EventsInv, EventsTyped
  PROVE  EventsTypeOK
<1>1. ASSUME NEW k \in Kinds PROVE queues[k] \in Queue
  <2> DEFINE q == queues[k]
  <2>1. QueueInv(q) /\ Whole(q) /\ q.layout \in Nat /\ q.loadedAt \in Nat
    BY DEF EventsInv, EventsTyped
  <2> HIDE DEF q
  <2>2. q = [layout |-> q.layout, loadedAt |-> q.loadedAt, values |-> q.values, next |-> q.next,
             cursors |-> q.cursors]
    BY <2>1 DEF Whole, Fields
  <2>3. q \in Queue
    BY <2>1, <2>2 DEF Queue, QueueInv
  <2> QED BY <2>3 DEF q
<1>2. queues \in [Kinds -> Queue]
  BY <1>1 DEF EventsTyped
<1> QED BY <1>2 DEF EventsInv, EventsTyped, EventsTypeOK

HeadersKept ==
  /\ queues' = [k \in Kinds |-> queues'[k]]
  /\ \A k \in Kinds : /\ Whole(queues'[k])
                       /\ queues'[k].layout = queues[k].layout /\ queues'[k].loadedAt = queues[k].loadedAt

(* Steps that leave a queue's layout and loading alone keep that.          *)
LEMMA TypedFrom ==
  ASSUME EventsTyped, HeadersKept, heard' = HeardNothing
  PROVE  EventsTyped'
BY DEF EventsTyped, HeadersKept, HeardNothing

(* So does a step that leaves the queues alone,                            *)
LEMMA StillTyped ==
  ASSUME EventsTyped, EventsStill
  PROVE  EventsTyped'
BY DEF EventsStill, EventsTyped, HeardNothing

(* the begin of a frame,                                                   *)
LEMMA BeginTyped ==
  ASSUME EventsTyped, BeginEvents
  PROVE  EventsTyped'
BY DEF BeginEvents, EventsTyped, HeardNothing

(* its end,                                                                *)
LEMMA EndTyped ==
  ASSUME EventsInv, EventsTyped, EndEvents
  PROVE  EventsTyped'
<1>1. ASSUME NEW k \in Kinds
      PROVE  /\ Whole(queues'[k])
             /\ queues'[k].layout = queues[k].layout /\ queues'[k].loadedAt = queues[k].loadedAt
  <2>1. queues'[k] = [queues[k] EXCEPT !.values = @ \ Expired(queues[k], frame)] /\ Whole(queues[k])
    BY DEF EndEvents, Expire, EventsTyped
  <2> QED BY <2>1 DEF Fields, Whole
<1>2. queues' = [k \in Kinds |-> queues'[k]] /\ heard' = HeardNothing
  BY DEF EndEvents
<1> QED BY <1>1, <1>2, TypedFrom DEF HeadersKept

(* what an apply publishes,                                                *)
LEMMA PublishTyped ==
  ASSUME EventsInv, EventsTyped, NEW kinds, PublishEvents(kinds)
  PROVE  EventsTyped'
<1>1. ASSUME NEW k \in Kinds
      PROVE  /\ Whole(queues'[k])
             /\ queues'[k].layout = queues[k].layout /\ queues'[k].loadedAt = queues[k].loadedAt
  <2>1. Whole(queues[k])
    BY DEF EventsTyped
  <2>2. queues'[k] = queues[k] \/ queues'[k] = Push(queues[k], frame)
    BY DEF PublishEvents
  <2> QED BY <2>1, <2>2 DEF Fields, Push, Whole
<1>2. queues' = [k \in Kinds |-> queues'[k]] /\ heard' = HeardNothing
  BY DEF PublishEvents
<1> QED BY <1>1, <1>2, TypedFrom DEF HeadersKept

(* a read, which hears of events,                                          *)
LEMMA ReadTyped ==
  ASSUME EventsInv, EventsTyped, NEW s \in Readers, NEW kinds, ReadEvents(s, kinds)
  PROVE  EventsTyped'
<1>1. ASSUME NEW k \in Kinds
      PROVE  /\ Whole(queues'[k])
             /\ queues'[k].layout = queues[k].layout /\ queues'[k].loadedAt = queues[k].loadedAt
             /\ Unread(queues[k], s) \in SUBSET Event
  <2>1. Whole(queues[k]) /\ queues[k].values \subseteq Event
    BY DEF EventsInv, QueueInv, EventsTyped
  <2>2. queues'[k] = queues[k] \/ queues'[k] = MarkRead(queues[k], s)
    BY DEF ReadEvents
  <2>3. queues'[k] = queues[k] \/ queues'[k] = [queues[k] EXCEPT !.cursors[s] = LastSeq(queues[k]) + 1]
    BY <2>2 DEF MarkRead
  <2>4. Unread(queues[k], s) \in SUBSET Event
    BY <2>1 DEF Unread
  <2> QED BY <2>1, <2>3, <2>4 DEF Fields, Whole
<1>2. heard' \in [Kinds -> SUBSET Event] /\ queues' = [k \in Kinds |-> queues'[k]]
  BY <1>1 DEF ReadEvents
<1> QED BY <1>1, <1>2 DEF EventsTyped

(* what a hook sends, which installs the kind with the sender's layout,    *)
LEMMA SendTyped ==
  ASSUME EventsInv, EventsTyped, NEW kind \in Kinds, NEW layout \in Nat, NEW loadedAt \in Nat,
         SendEvent(kind, layout, loadedAt)
  PROVE  EventsTyped'
<1> DEFINE q == queues[kind]
           i == Install(q, layout, loadedAt)
<1>1. Whole(q) /\ q.layout \in Nat /\ q.loadedAt \in Nat /\ DOMAIN queues = Kinds
  BY DEF EventsInv, EventsTyped
<1>2. queues' = [queues EXCEPT ![kind] = Push(i, frame + 1)] /\ heard' = HeardNothing
  BY DEF SendEvent
<1> HIDE DEF q
<1>3. Whole(i) /\ i.layout \in Nat /\ i.loadedAt \in Nat
  BY <1>1 DEF Install, Fields, Whole
<1> HIDE DEF i
<1> DEFINE p == Push(i, frame + 1)
<1>4. Whole(p) /\ p.layout \in Nat /\ p.loadedAt \in Nat
  BY <1>3 DEF Push, Fields, Whole
<1> HIDE DEF p
<1>5. \A k \in Kinds : queues'[k] = IF k = kind THEN p ELSE queues[k]
  BY <1>1, <1>2 DEF p
<1>6. queues' = [k \in Kinds |-> queues'[k]]
  BY <1>1, <1>2
<1> QED BY <1>2, <1>4, <1>5, <1>6 DEF EventsTyped, HeardNothing

(* and a load, which installs it with the last of the builds that use it.  *)
LEMMA InstallTyped ==
  ASSUME EventsInv, EventsTyped, NEW builds, Together(builds), InstallEvents(builds),
         NEW n \in Nat, \A b \in builds : b.loadedAt <= n
  PROVE  EventsTyped'
<1> DEFINE Users(k)  == {b \in builds : b.layouts[k] # NoLayout}
           LastOf(k) == CHOOSE b \in Users(k) : \A o \in Users(k) : o.loadedAt <= b.loadedAt
           OfOne(k)  == \A b \in Users(k) : b.layouts[k] = queues[k].layout
           Got(k)    == [queues[k] EXCEPT !.values = IF OfOne(k) THEN @ ELSE {},
                                          !.layout = LastOf(k).layouts[k],
                                          !.loadedAt = LastOf(k).loadedAt]
<1>1. queues' = [k \in Kinds |-> IF Users(k) = {} THEN queues[k] ELSE Got(k)] /\ heard' = HeardNothing
  BY DEF InstallEvents
<1>2. ASSUME NEW k \in Kinds, Users(k) # {}
      PROVE  LastOf(k) \in builds
  <2> DEFINE T == {b.loadedAt : b \in Users(k)}
  <2>1. T \subseteq Nat /\ T # {} /\ \A t \in T : t <= n
    BY <1>2 DEF Together
  <2>2. PICK t \in T : \A u \in T : u <= t
    <3> HIDE DEF T
    <3> QED BY <2>1, Greatest
  <2>3. PICK b \in Users(k) : b.loadedAt = t
    BY <2>2
  <2>4. \A o \in Users(k) : o.loadedAt <= b.loadedAt
    BY <2>2, <2>3
  <2>5. LastOf(k) \in Users(k)
    <3> HIDE DEF Users
    <3> QED BY <2>3, <2>4
  <2> QED BY <2>5
<1>3. ASSUME NEW k \in Kinds
      PROVE  Whole(queues'[k]) /\ queues'[k].layout \in Nat /\ queues'[k].loadedAt \in Nat
  <2>1. Whole(queues[k])
    BY DEF EventsTyped
  <2>2. CASE Users(k) = {}
    BY <1>1, <2>2 DEF EventsTyped
  <2>3. CASE Users(k) # {}
    <3>1. queues'[k] = Got(k)
      BY <1>1, <2>3
    <3> HIDE DEF LastOf, OfOne
    <3>2. /\ Whole(queues'[k])
          /\ queues'[k].layout = LastOf(k).layouts[k] /\ queues'[k].loadedAt = LastOf(k).loadedAt
      BY <2>1, <3>1 DEF Fields, Whole
    <3> QED BY <1>2, <2>3, <3>2 DEF Together
  <2> QED BY <2>2, <2>3
<1>4. queues' = [k \in Kinds |-> queues'[k]] /\ heard' = HeardNothing
  <2> HIDE DEF Users, Got
  <2> QED BY <1>1
<1> QED BY <1>3, <1>4 DEF EventsTyped, HeardNothing

(* Time.                                                                   *)
LEMMA TimeIs ==
  ASSUME NEW time \in Nat, NEW hz \in 1..Second
  PROVE  /\ StepTime(hz) \in Nat \ {0} /\ Due(time, hz) \in Nat
         /\ StepsOf(time, hz) \in Nat /\ LeftOf(time, hz) \in Nat
<1>1. Second \in Nat /\ Slack \in Nat /\ MaxSteps \in Nat
  BY TimeAssumption
<1> DEFINE step == StepTime(hz)
           due == Due(time, hz)
           steps == StepsOf(time, hz)
<1>2. step \in Nat \ {0}
  BY <1>1 DEF StepTime
<1>3. due \in Nat
  <2> DEFINE t == time + Slack
  <2>1. due = t \div step /\ t \in Nat
    BY <1>1 DEF Due, StepTime
  <2> HIDE DEF due, step, t
  <2> QED BY <1>2, <2>1
<1>4. steps \in Nat
  BY <1>1, <1>3 DEF StepsOf
<1> DEFINE x == steps * step
           left == time - x
<1>5. left \in Int
  <2>1. x \in Int
    <3> HIDE DEF steps, step
    <3> QED BY <1>2, <1>4
  <2> HIDE DEF x
  <2> QED BY <2>1
<1>6. left % step \in Nat
  <2> HIDE DEF left, step
  <2> QED BY <1>2, <1>5
<1>7. LeftOf(time, hz) = IF due > MaxSteps THEN left % step ELSE IF left < 0 THEN 0 ELSE left
  BY DEF LeftOf
<1>8. LeftOf(time, hz) \in Nat
  <2> HIDE DEF left, step, due
  <2> QED BY <1>5, <1>6, <1>7
<1> QED BY <1>2, <1>3, <1>4, <1>8

Mod == [build : Builds, loadedAt : Nat \ {0}, failed : BOOLEAN]
SameByName(ms) == \A i, j \in DOMAIN ms : ms[i].build.name = ms[j].build.name => ms[i] = ms[j]
ModsInv(ms, n) ==
  /\ ms \in Seq(Mod) /\ \A i \in DOMAIN ms : ms[i].loadedAt <= n
  /\ SameByName(ms)

(* The code of a loaded mod is mapped for the flows its systems use.       *)
FlowsKeep(m) ==
  \A f \in FlowsOf(m.build.systems) \intersect FlowNames : slots[f].keepalives[m.build.name] = m.loadedAt
AllKeep == \A i \in DOMAIN mods : FlowsKeep(mods[i])

NewMod(batch, i) == [build |-> batch[i], loadedAt |-> loads + i, failed |-> FALSE]

(* What is loaded after a batch: what was and has not been replaced, and   *)
(* what the batch brings.                                                  *)
Stays(m, batch) == (\E j \in DOMAIN mods : m = mods[j]) /\ \A i \in DOMAIN batch : batch[i].name # m.build.name
Comes(m, batch) == \E i \in DOMAIN batch : m = NewMod(batch, i)
Held(batch) == {m \in Mod : m.loadedAt <= loads + Len(batch) /\ (Stays(m, batch) \/ Comes(m, batch))}

(* A batch has builds, and of each mod one.                                *)
LEMMA BatchIs ==
  ASSUME game \in Games, NEW batch \in game.batches
  PROVE  /\ batch \in Seq(Builds) /\ DOMAIN batch = 1..Len(batch) /\ Len(batch) \in Nat
         /\ \A i \in DOMAIN batch : batch[i] \in Builds
         /\ \A i, j \in DOMAIN batch : i # j => batch[i].name # batch[j].name
<1>1. batch \in Seq(ToSet(batch)) /\ \A i, j \in DOMAIN batch : i # j => batch[i].name # batch[j].name
  BY GamesAssumption DEF IsSeq
<1>2. ToSet(batch) \subseteq Builds
  BY DEF Builds
<1>3. batch \in Seq(Builds)
  BY <1>1, <1>2
<1> QED BY <1>1, <1>3

(* load_batch puts each build in its mod's place, or appends it: what is   *)
(* loaded then was loaded and has not been replaced, or comes with the     *)
(* batch.                                                                  *)
LEMMA AfterIs ==
  ASSUME game \in Games, loads \in Nat, ModsInv(mods, loads), NEW batch \in game.batches
  PROVE  After(batch) \in Seq(Held(batch))
<1> DEFINE Replacing(m) == {i \in DOMAIN batch : batch[i].name = m.build.name}
           New(i)  == NewMod(batch, i)
           Kept(j) == IF Replacing(mods[j]) = {} THEN mods[j]
                      ELSE New(CHOOSE i \in Replacing(mods[j]) : TRUE)
           kept    == [j \in DOMAIN mods |-> Kept(j)]
           F(i)    == IF Loaded(batch[i].name) = {} THEN <<New(i)>> ELSE <<>>
           ss      == [i \in DOMAIN batch |-> F(i)]
           H       == Held(batch)
<1>1. /\ DOMAIN batch = 1..Len(batch) /\ Len(batch) \in Nat
      /\ \A i \in DOMAIN batch : batch[i] \in Builds
  BY BatchIs
<1>2. /\ DOMAIN mods = 1..Len(mods) /\ Len(mods) \in Nat
      /\ \A j \in DOMAIN mods : mods[j] \in Mod /\ mods[j].loadedAt <= loads /\ mods[j].loadedAt \in Nat
  <2>1. \A m \in Mod : m.loadedAt \in Nat
    BY DEF Mod
  <2>2. mods \in Seq(Mod) /\ \A j \in DOMAIN mods : mods[j].loadedAt <= loads
    BY DEF ModsInv
  <2>3. DOMAIN mods = 1..Len(mods) /\ Len(mods) \in Nat /\ \A j \in DOMAIN mods : mods[j] \in Mod
    BY <2>2
  <2> QED BY <2>1, <2>2, <2>3
<1>3. ASSUME NEW i \in DOMAIN batch PROVE New(i) \in H
  <2>1. New(i) \in Mod /\ New(i).loadedAt <= loads + Len(batch)
    BY <1>1 DEF NewMod, Mod
  <2> QED BY <2>1 DEF Held, Comes
<1>4. ASSUME NEW j \in DOMAIN mods PROVE Kept(j) \in H
  <2>1. CASE Replacing(mods[j]) = {}
    <3>1. \A i \in DOMAIN batch : batch[i].name # mods[j].build.name
      BY <2>1
    <3>2. mods[j] \in H
      BY <1>1, <1>2, <3>1 DEF Held, Stays
    <3> QED BY <2>1, <3>2
  <2>2. CASE Replacing(mods[j]) # {}
    <3>1. (CHOOSE i \in Replacing(mods[j]) : TRUE) \in DOMAIN batch
      BY <2>2
    <3> HIDE DEF New, H
    <3> QED BY <1>3, <2>2, <3>1
  <2> QED BY <2>1, <2>2
<1> HIDE DEF New, H, Kept
<1>5. kept \in Seq(H)
  BY <1>2, <1>4
<1>6. FlattenSeq(ss) \in Seq(H)
  <2>1. ASSUME NEW i \in DOMAIN batch PROVE F(i) \in Seq(H)
    <3>1. <<New(i)>> \in Seq(H) /\ <<>> \in Seq(H)
      BY <1>3
    <3>2. F(i) = <<New(i)>> \/ F(i) = <<>>
      BY Zenon
    <3> HIDE DEF F
    <3> QED BY <3>1, <3>2
  <2>2. ss \in Seq(Seq(H))
    <3> HIDE DEF F
    <3> QED BY <1>1, <2>1
  <2> HIDE DEF ss
  <2> QED BY <2>2, FlattenedSeq
<1>7. kept \o FlattenSeq(ss) \in Seq(H)
  <2> HIDE DEF kept, ss
  <2> QED BY <1>5, <1>6
<1>8. After(batch) = kept \o FlattenSeq(ss)
  BY Zenon DEF After, Kept, New, NewMod
<1> QED BY <1>7, <1>8 DEF H

(* So each name is of one mod, numbered by its load.                       *)
LEMMA HeldMods ==
  ASSUME game \in Games, loads \in Nat, ModsInv(mods, loads), NEW batch \in game.batches,
         NEW ms \in Seq(Held(batch))
  PROVE  ModsInv(ms, loads + Len(batch))
<1>1. \A i \in DOMAIN ms : ms[i] \in Held(batch)
  OBVIOUS
<1>2. \A i \in DOMAIN ms : /\ ms[i] \in Mod /\ ms[i].loadedAt <= loads + Len(batch)
                           /\ Stays(ms[i], batch) \/ Comes(ms[i], batch)
  BY <1>1 DEF Held
<1>3. ms \in Seq(Mod)
  BY <1>2
<1>4. ASSUME NEW i \in DOMAIN ms, NEW j \in DOMAIN ms, ms[i].build.name = ms[j].build.name
      PROVE  ms[i] = ms[j]
  <2> DEFINE a == ms[i]
             b == ms[j]
  <2> SUFFICES a = b
    OBVIOUS
  <2>1. (Stays(a, batch) \/ Comes(a, batch)) /\ (Stays(b, batch) \/ Comes(b, batch)) /\ a.build.name = b.build.name
    BY <1>2, <1>4
  <2> HIDE DEF a, b
  <2>2. CASE Stays(a, batch) /\ Stays(b, batch)
    <3>1. PICK k \in DOMAIN mods : a = mods[k]
      BY <2>2 DEF Stays
    <3>2. PICK l \in DOMAIN mods : b = mods[l]
      BY <2>2 DEF Stays
    <3> QED BY <2>1, <3>1, <3>2 DEF ModsInv, SameByName
  <2>3. ASSUME NEW m, Comes(m, batch) PROVE \E k \in DOMAIN batch : m = NewMod(batch, k) /\ m.build.name = batch[k].name
    <3>1. PICK k \in DOMAIN batch : m = NewMod(batch, k)
      BY <2>3 DEF Comes
    <3>2. m.build = batch[k]
      BY <3>1 DEF NewMod
    <3> QED BY <3>1, <3>2
  <2>4. CASE Comes(a, batch) /\ Comes(b, batch)
    <3>1. PICK k \in DOMAIN batch : a = NewMod(batch, k) /\ a.build.name = batch[k].name
      BY <2>3, <2>4
    <3>2. PICK l \in DOMAIN batch : b = NewMod(batch, l) /\ b.build.name = batch[l].name
      BY <2>3, <2>4
    <3>3. k = l
      BY <2>1, <3>1, <3>2, BatchIs
    <3> QED BY <3>1, <3>2, <3>3
  <2>5. CASE Stays(a, batch) /\ Comes(b, batch)
    BY <2>1, <2>3, <2>5 DEF Stays
  <2>6. CASE Comes(a, batch) /\ Stays(b, batch)
    BY <2>1, <2>3, <2>6 DEF Stays
  <2> QED BY <2>1, <2>2, <2>4, <2>5, <2>6
<1> QED BY <1>2, <1>3, <1>4 DEF ModsInv, SameByName

(* What a batch installs is numbered by the loads it takes.                *)
LEMMA InstalledTogether ==
  ASSUME game \in Games, loads \in Nat, NEW batch \in game.batches
  PROVE  Together(Installed(batch)) /\ \A b \in Installed(batch) : b.loadedAt <= loads + Len(batch)
<1> DEFINE B(i) == [name |-> batch[i].name, loadedAt |-> loads + i, layouts |-> LayoutsOf(batch[i]),
                    flows |-> FlowsOf(batch[i].systems)]
<1>1. \A b \in Installed(batch) : \E i \in DOMAIN batch : b = B(i)
  BY DEF Installed
<1>2. ASSUME NEW i \in DOMAIN batch
      PROVE  /\ B(i).name = batch[i].name /\ B(i).name \in ModNames
             /\ B(i).loadedAt \in Nat /\ B(i).loadedAt <= loads + Len(batch)
             /\ B(i).layouts \in [Kinds -> Nat]
  <2>1. IsBuild(batch[i]) /\ i \in 1..Len(batch) /\ Len(batch) \in Nat
    BY BatchIs, BuildIs
  <2>2. LayoutsOf(batch[i]) \in [Kinds -> Nat]
    BY <2>1 DEF LayoutsOf, IsBuild, NoLayout
  <2>3. batch[i].name \in ModNames
    BY <2>1 DEF IsBuild
  <2> QED BY <2>1, <2>2, <2>3
<1>3. \A i, j \in DOMAIN batch : B(i).name = B(j).name => i = j
  BY <1>2, BatchIs
<1> HIDE DEF B
<1>4. ASSUME NEW a \in Installed(batch), NEW b \in Installed(batch), a.name = b.name PROVE a = b
  <2>1. PICK i \in DOMAIN batch : a = B(i)
    BY <1>1
  <2>2. PICK j \in DOMAIN batch : b = B(j)
    BY <1>1
  <2> QED BY <1>3, <1>4, <2>1, <2>2
<1> QED BY <1>1, <1>2, <1>4 DEF Together

(* After a load, the code of each mod that is loaded is mapped for its     *)
(* flows.                                                                  *)
LEMMA HeldKeep ==
  ASSUME game \in Games, loads \in Nat, SlotsOk, ModsInv(mods, loads), AllKeep,
         NEW batch \in game.batches, NEW m \in Held(batch), InstallFlows(Installed(batch))
  PROVE  FlowsKeep(m)'
<1> DEFINE builds == Installed(batch)
<1>1. /\ \A b \in builds : \A f \in b.flows \intersect FlowNames : slots'[f].keepalives[b.name] = b.loadedAt
      /\ \A f \in FlowNames : \A n \in ModNames :
           (\A b \in builds : b.name # n) => slots'[f].keepalives[n] = slots[f].keepalives[n]
  BY InstalledTogether, InstallFlowsStep
<1>2. CASE Stays(m, batch)
  <2>1. FlowsKeep(m)
    BY <1>2 DEF Stays, AllKeep
  <2>2. \A b \in builds : b.name # m.build.name
    BY <1>2 DEF Stays, Installed
  <2>3. m.build.name \in ModNames
    <3>1. m.build \in Builds
      BY DEF Held, Mod
    <3> QED BY <3>1, BuildIs DEF IsBuild
  <2> HIDE DEF builds
  <2> QED BY <1>1, <2>1, <2>2, <2>3 DEF FlowsKeep
<1>3. CASE Comes(m, batch)
  <2>1. PICK i \in DOMAIN batch : m = NewMod(batch, i)
    BY <1>3 DEF Comes
  <2> DEFINE b == [name |-> batch[i].name, loadedAt |-> loads + i, layouts |-> LayoutsOf(batch[i]),
                   flows |-> FlowsOf(batch[i].systems)]
  <2>2. b \in builds
    BY DEF Installed
  <2>3. b.name = m.build.name /\ b.loadedAt = m.loadedAt /\ b.flows = FlowsOf(m.build.systems)
    BY <2>1 DEF NewMod
  <2> HIDE DEF b, builds
  <2> QED BY <1>1, <2>2, <2>3 DEF FlowsKeep
<1> QED BY <1>2, <1>3 DEF Held

(* A mod that fails is the same build, loaded when it was.                 *)
LEMMA FailIs ==
  ASSUME NEW n, ModsInv(mods, n), NEW name
  PROVE  /\ ModsInv(Fail(name), n) /\ Decls(Fail(name)) = Decls(mods) /\ DOMAIN Fail(name) = DOMAIN mods
         /\ \A i \in DOMAIN mods : Fail(name)[i].build = mods[i].build /\ Fail(name)[i].loadedAt = mods[i].loadedAt
<1> DEFINE ms == Fail(name)
           F(j) == IF mods[j].build.name = name THEN [mods[j] EXCEPT !.failed = TRUE] ELSE mods[j]
<1>1. ms = [j \in DOMAIN mods |-> F(j)]
  BY DEF Fail
<1>2. DOMAIN mods = 1..Len(mods) /\ Len(mods) \in Nat /\ \A j \in DOMAIN mods : mods[j] \in Mod
  BY DEF ModsInv
<1>3. \A j \in DOMAIN mods : F(j) \in Mod /\ F(j).build = mods[j].build /\ F(j).loadedAt = mods[j].loadedAt
  BY <1>2 DEF Mod
<1>4. \A i, j \in DOMAIN mods : mods[i] = mods[j] => F(i) = F(j)
  OBVIOUS
<1> HIDE DEF F, ms
<1>5. ms \in Seq(Mod) /\ DOMAIN ms = DOMAIN mods
  BY <1>1, <1>2, <1>3
<1>6. \A i \in DOMAIN mods : ms[i] = F(i)
  BY <1>1
<1>7. SameByName(ms)
  BY <1>3, <1>4, <1>5, <1>6 DEF SameByName, ModsInv
<1>8. ModsInv(ms, n)
  BY <1>3, <1>5, <1>6, <1>7 DEF ModsInv
<1>9. Decls(ms) = Decls(mods)
  BY <1>3, <1>5, <1>6 DEF Decls
<1> QED BY <1>3, <1>5, <1>6, <1>8, <1>9 DEF ms

(* What is left when one goes.                                             *)
LEMMA RemoveAtIs ==
  ASSUME NEW n, ModsInv(mods, n), NEW i \in DOMAIN mods
  PROVE  /\ ModsInv(RemoveAt(mods, i), n)
         /\ \A k \in DOMAIN RemoveAt(mods, i) : \E j \in DOMAIN mods : RemoveAt(mods, i)[k] = mods[j]
<1> DEFINE ms == RemoveAt(mods, i)
           S == {mods[j] : j \in DOMAIN mods}
<1>1. mods \in Seq(S) /\ i \in 1..Len(mods)
  BY DEF ModsInv
<1> HIDE DEF S
<1>2. ms \in Seq(S)
  <2>1. ms = SubSeq(mods, 1, i - 1) \o SubSeq(mods, i + 1, Len(mods))
    BY DEF RemoveAt
  <2> QED BY <1>1, <2>1
<1> HIDE DEF ms
<1>3. \A k \in DOMAIN ms : \E j \in DOMAIN mods : ms[k] = mods[j]
  BY <1>2 DEF S
<1>4. ms \in Seq(Mod) /\ \A k \in DOMAIN ms : ms[k].loadedAt <= n
  <2>1. S \subseteq Mod
    BY DEF S, ModsInv
  <2> QED BY <1>2, <1>3, <2>1 DEF ModsInv
<1>5. SameByName(ms)
  BY <1>3 DEF SameByName, ModsInv
<1> QED BY <1>3, <1>4, <1>5 DEF ModsInv, ms

NodeIn(S) == [system : S, step : Nat, apply : BOOLEAN]

(* A group's nodes, over its steps, are of its systems.                    *)
LEMMA StepsAre ==
  ASSUME NEW S, NEW g, g.systems \in Seq(S), NEW n \in Nat
  PROVE  Steps(g, n) \in Seq(NodeIn(S))
<1> DEFINE N == NodeIn(S)
           One(m, i) == NodesOf(g.systems[i], m)
           All(m) == [i \in DOMAIN g.systems |-> One(m, i)]
           ss == [m \in 1..n |-> FlattenSeq(All(m))]
<1>1. DOMAIN g.systems = 1..Len(g.systems) /\ Len(g.systems) \in Nat /\ \A i \in DOMAIN g.systems : g.systems[i] \in S
  OBVIOUS
<1>2. ASSUME NEW m \in 1..n, NEW i \in DOMAIN g.systems PROVE One(m, i) \in Seq(N)
  <2> DEFINE s == g.systems[i]
             a == [system |-> s, step |-> m, apply |-> FALSE]
             b == [system |-> s, step |-> m, apply |-> TRUE]
  <2>1. a \in N /\ b \in N
    BY <1>1 DEF NodeIn
  <2>2. One(m, i) = <<a>> \o <<b>> \/ One(m, i) = <<a>> \o <<>>
    BY Zenon DEF NodesOf
  <2> HIDE DEF One, a, b, N
  <2>3. <<a>> \o <<b>> \in Seq(N) /\ <<a>> \o <<>> \in Seq(N)
    BY <2>1
  <2> QED BY <2>2, <2>3
<1> HIDE DEF One, N
<1>3. ASSUME NEW m \in 1..n PROVE FlattenSeq(All(m)) \in Seq(N)
  <2>1. All(m) \in Seq(Seq(N))
    BY <1>1, <1>2
  <2> HIDE DEF All
  <2> QED BY <2>1, FlattenedSeq
<1>4. ss \in Seq(Seq(N))
  <2> HIDE DEF All
  <2> QED BY <1>3
<1>5. FlattenSeq(ss) \in Seq(N)
  <2> HIDE DEF ss
  <2> QED BY <1>4, FlattenedSeq
<1>6. Steps(g, n) = FlattenSeq(ss)
  BY DEF Steps, One
<1> QED BY <1>5, <1>6 DEF N

GameInv  == game \in Games /\ loads \in 0..game.maxLoads
PlanInv  == plan.groups \in Seq(Group(Decls(mods)))
NodesInv == /\ nodes \in Seq(NodeIn(SystemsOf(Decls(mods))))
            /\ at \in 0..Len(nodes) + 1 /\ (Open \/ nodes = <<>>)
RunInv   == /\ log \subseteq Kinds /\ logged \in BOOLEAN
            /\ busy \subseteq ModNames /\ out \subseteq ModNames
TimeInv  == acc \in [GroupPhases -> Nat] /\ owed \in [GroupPhases -> Int]
FrameInv ==
  /\ GameInv /\ ModsInv(mods, loads) /\ PlanInv /\ NodesInv /\ RunInv /\ TimeInv
  /\ SlotsOk /\ AllKeep
  /\ EventsInv /\ EventsTyped

KeepalivesKept == \A f \in FlowNames : slots'[f].keepalives = slots[f].keepalives

(* The parts of the invariant.                                             *)
LEMMA FrameHolds ==
  ASSUME FrameInv
  PROVE  /\ GameInv /\ ModsInv(mods, loads) /\ PlanInv /\ NodesInv /\ RunInv /\ TimeInv
         /\ SlotsOk /\ AllKeep /\ EventsInv /\ EventsTyped
         /\ game \in Games /\ loads \in Nat /\ Inv
<1>1. game \in Games /\ loads \in Nat
  BY GamesAssumption DEF FrameInv, GameInv
<1> QED BY <1>1 DEF FrameInv, Inv

(* A step in which at most a mod fails keeps the mods, what they declare,  *)
(* and their code mapped.                                                  *)
LEMMA ModsStep ==
  ASSUME FrameInv, mods' = mods \/ \E name : mods' = Fail(name), loads' = loads, KeepalivesKept
  PROVE  ModsInv(mods, loads)' /\ Decls(mods)' = Decls(mods) /\ AllKeep'
<1>1. ModsInv(mods, loads) /\ AllKeep
  BY FrameHolds
<1>2. CASE mods' = mods
  <2>1. ModsInv(mods, loads)'
    BY <1>1, <1>2 DEF ModsInv, SameByName
  <2>2. AllKeep'
    BY <1>1, <1>2 DEF AllKeep, FlowsKeep, KeepalivesKept
  <2> QED BY <1>2, <2>1, <2>2 DEF Decls
<1>3. CASE \E name : mods' = Fail(name)
  <2>1. PICK name : mods' = Fail(name)
    BY <1>3
  <2>2. /\ ModsInv(mods', loads) /\ Decls(mods') = Decls(mods) /\ DOMAIN mods' = DOMAIN mods
        /\ \A i \in DOMAIN mods : mods'[i].build = mods[i].build /\ mods'[i].loadedAt = mods[i].loadedAt
    BY <1>1, <2>1, FailIs
  <2>3. ModsInv(mods, loads)'
    BY <2>2 DEF ModsInv, SameByName
  <2>4. AllKeep'
    BY <1>1, <2>2 DEF AllKeep, FlowsKeep, KeepalivesKept
  <2> QED BY <2>2, <2>3, <2>4 DEF Decls
<1> QED BY <1>2, <1>3

(* The mod of a system in the frame's nodes.                               *)
LEMMA NodeIs ==
  ASSUME FrameInv, Open, at <= Len(nodes)
  PROVE  LET s == Node.system
             m == ModOf(s)
         IN  /\ s \in SystemsOf(Decls(mods)) /\ Node.step \in Nat /\ at + 1 \in 0..Len(nodes) + 1 /\ at + 1 # 0
             /\ m \in Mod /\ FlowsKeep(m) /\ OfBuild(s, m.build) /\ s.mod \in ModNames
<1> DEFINE s == Node.system
           m == ModOf(s)
           decls == Decls(mods)
<1>1. NodesInv /\ ModsInv(mods, loads) /\ AllKeep
  BY FrameHolds
<1>2. at \in 1..Len(nodes) /\ Len(nodes) \in Nat
  BY <1>1 DEF NodesInv, Open
<1>3. nodes[at] \in NodeIn(SystemsOf(decls))
  BY <1>1, <1>2 DEF NodesInv
<1>4. s \in SystemsOf(decls) /\ Node.step \in Nat
  BY <1>3 DEF NodeIn, Node
<1>5. mods \in Seq(Mod) /\ \A i \in DOMAIN mods : mods[i] \in Mod /\ mods[i].build \in Builds
  <2>1. \A x \in Mod : x.build \in Builds
    BY DEF Mod
  <2> QED BY <1>1, <2>1 DEF ModsInv
<1>6. decls \in Seq(Builds) /\ DOMAIN decls = DOMAIN mods /\ \A i \in DOMAIN mods : decls[i] = mods[i].build
  BY <1>5 DEF Decls
<1>7. PICK i \in DOMAIN mods : OfBuild(s, mods[i].build)
  <2> HIDE DEF decls, s
  <2>1. \E i \in DOMAIN decls : OfBuild(s, decls[i])
    BY <1>4, <1>6, OwnedIs
  <2> QED BY <1>6, <2>1
<1>8. mods[i].build.name = s.mod
  BY <1>7 DEF OfBuild
<1>9. m = mods[i]
  <2> DEFINE j == CHOOSE j \in Loaded(s.mod) : TRUE
  <2>1. j \in Loaded(s.mod)
    BY <1>8 DEF Loaded
  <2>2. m = mods[j] /\ j \in DOMAIN mods /\ mods[j].build.name = s.mod
    BY <2>1 DEF ModOf, Loaded
  <2> HIDE DEF j
  <2> QED BY <1>1, <1>8, <2>2 DEF ModsInv, SameByName
<1>10. m \in Mod /\ FlowsKeep(m) /\ OfBuild(s, m.build)
  BY <1>1, <1>5, <1>7, <1>9 DEF AllKeep
<1>11. s.mod \in ModNames
  <2>1. IsBuild(mods[i].build)
    BY <1>5, BuildIs
  <2> QED BY <1>8, <2>1 DEF IsBuild
<1> QED BY <1>2, <1>4, <1>10, <1>11

(* A plan of loaded mods has systems of theirs.                            *)
LEMMA PlanOf ==
  ASSUME NEW ms \in Seq(Mod)
  PROVE  Plan(Decls(ms)).groups \in Seq(Group(Decls(ms)))
<1>1. DOMAIN ms = 1..Len(ms) /\ Len(ms) \in Nat /\ \A i \in DOMAIN ms : ms[i].build \in Builds
  <2>1. \A m \in Mod : m.build \in Builds
    BY DEF Mod
  <2> QED BY <2>1
<1>2. Decls(ms) \in Seq(Builds)
  BY <1>1 DEF Decls
<1> QED BY <1>2, PlanIs

(* A load keeps the invariant (Engine::load_batch),                        *)
LEMMA LoadKeeps ==
  ASSUME FrameInv, NEW batch \in game.batches, Load(batch), EventsInv'
  PROVE  FrameInv'
<1>1. /\ GameInv /\ ModsInv(mods, loads) /\ PlanInv /\ NodesInv /\ RunInv /\ TimeInv
      /\ SlotsOk /\ AllKeep /\ EventsInv /\ EventsTyped
      /\ game \in Games /\ loads \in Nat
  BY FrameHolds
<1>2. Len(batch) \in Nat /\ loads + Len(batch) <= game.maxLoads /\ loads' = loads + Len(batch) /\ game' = game
  BY <1>1, BatchIs DEF Load
<1>3. GameInv'
  BY <1>1, <1>2, GamesAssumption DEF GameInv
<1>4. mods' \in Seq(Held(batch)) /\ plan' = Plan(Decls(mods'))
  BY <1>1, AfterIs DEF Load, Replan, Commit
<1>5. ModsInv(mods', loads + Len(batch))
  BY <1>1, <1>4, HeldMods
<1>6. ModsInv(mods, loads)'
  BY <1>2, <1>5 DEF ModsInv, SameByName
<1>7. PlanInv'
  BY <1>4, <1>5, PlanOf DEF PlanInv, ModsInv, Decls
<1>8. NodesInv'
  BY <1>1 DEF Load, Open, NodesInv
<1>9. InstallFlows(Installed(batch)) /\ InstallEvents(Installed(batch))
  BY DEF Load
<1>10. SlotsOk'
  BY <1>1, <1>9, InstalledTogether, InstallFlowsStep
<1>11. AllKeep'
  <2>1. \A i \in DOMAIN mods' : mods'[i] \in Held(batch)
    BY <1>4
  <2>2. \A m \in Held(batch) : FlowsKeep(m)'
    BY <1>1, <1>9, HeldKeep
  <2> QED BY <2>1, <2>2 DEF AllKeep, FlowsKeep
<1>12. EventsTyped'
  BY <1>1, <1>2, <1>9, InstalledTogether, InstallTyped
<1>13. RunInv' /\ TimeInv'
  BY <1>1 DEF Load, RunInv, TimeInv
<1> QED BY <1>3, <1>6, <1>7, <1>8, <1>10, <1>11, <1>12, <1>13 DEF FrameInv

(* an unload does (Engine::unload): what is mapped stays so,               *)
LEMMA UnloadKeeps ==
  ASSUME FrameInv, NEW i \in DOMAIN mods, Unload(i), EventsInv'
  PROVE  FrameInv'
<1>1. /\ GameInv /\ ModsInv(mods, loads) /\ PlanInv /\ NodesInv /\ RunInv /\ TimeInv
      /\ SlotsOk /\ AllKeep /\ EventsInv /\ EventsTyped
  BY FrameHolds
<1>2. mods' = RemoveAt(mods, i) /\ plan' = Plan(Decls(mods')) /\ UNCHANGED <<game, loads, nodes, at, slots>>
  BY DEF Unload, Replan, Commit
<1>3. ModsInv(mods', loads) /\ \A k \in DOMAIN mods' : \E j \in DOMAIN mods : mods'[k] = mods[j]
  BY <1>1, <1>2, RemoveAtIs
<1>4. ModsInv(mods, loads)'
  BY <1>2, <1>3 DEF ModsInv, SameByName
<1>5. PlanInv'
  BY <1>2, <1>3, PlanOf DEF PlanInv, ModsInv, Decls
<1>6. NodesInv'
  BY <1>1 DEF Unload, Open, NodesInv
<1>7. AllKeep'
  BY <1>1, <1>2, <1>3 DEF AllKeep, FlowsKeep
<1>8. EventsTyped'
  BY <1>1, StillTyped DEF Unload
<1>9. GameInv' /\ RunInv' /\ TimeInv' /\ SlotsOk'
  BY <1>1, <1>2 DEF Unload, GameInv, RunInv, TimeInv, SlotsOk, ValuesMapped, Mapped
<1> QED BY <1>4, <1>5, <1>6, <1>7, <1>8, <1>9 DEF FrameInv

(* and so does an event that a hook sends, between frames.                 *)
LEMMA SendKeeps ==
  ASSUME FrameInv, NEW i \in DOMAIN mods, NEW k \in Kinds, Send(i, k), EventsInv'
  PROVE  FrameInv'
<1>1. /\ GameInv /\ ModsInv(mods, loads) /\ PlanInv /\ NodesInv /\ RunInv /\ TimeInv
      /\ SlotsOk /\ AllKeep /\ EventsInv /\ EventsTyped
  BY FrameHolds
<1>2. mods' = mods \/ \E name : mods' = Fail(name)
  BY DEF Send
<1>3. UNCHANGED <<game, plan, loads, nodes, at, log, logged, busy, out, acc, owed, slots>>
  BY DEF Send
<1>4. ModsInv(mods, loads)' /\ Decls(mods)' = Decls(mods) /\ AllKeep'
  BY <1>2, <1>3, ModsStep DEF KeepalivesKept
<1>5. PlanInv' /\ NodesInv'
  BY <1>1, <1>3, <1>4 DEF PlanInv, NodesInv, Open
<1>6. EventsTyped'
  <2>1. mods[i].build.layouts[k] \in Nat /\ mods[i].loadedAt \in Nat
    <3>1. mods[i] \in Mod
      BY <1>1 DEF ModsInv
    <3>2. mods[i].build \in Builds /\ mods[i].loadedAt \in Nat
      BY <3>1 DEF Mod
    <3> QED BY <3>2, BuildIs DEF IsBuild
  <2>2. EventsStill \/ SendEvent(k, mods[i].build.layouts[k], mods[i].loadedAt)
    BY DEF Send
  <2> QED BY <1>1, <2>1, <2>2, StillTyped, SendTyped
<1>7. GameInv' /\ RunInv' /\ TimeInv' /\ SlotsOk'
  BY <1>1, <1>3 DEF GameInv, RunInv, TimeInv, SlotsOk, ValuesMapped, Mapped
<1> QED BY <1>4, <1>5, <1>6, <1>7 DEF FrameInv

(* What a step leaves alone.                                               *)
LEMMA RestKeeps ==
  ASSUME FrameInv, UNCHANGED <<game, plan, loads>>,
         mods' = mods \/ \E name : mods' = Fail(name),
         SlotsOk', KeepalivesKept, EventsInv', EventsTyped', NodesInv', RunInv', TimeInv'
  PROVE  FrameInv'
<1>1. GameInv /\ PlanInv
  BY FrameHolds
<1>2. ModsInv(mods, loads)' /\ Decls(mods)' = Decls(mods) /\ AllKeep'
  BY ModsStep
<1>3. GameInv' /\ PlanInv'
  BY <1>1, <1>2 DEF GameInv, PlanInv
<1> QED BY <1>2, <1>3 DEF FrameInv

(* Slots that nothing used are as they were.                               *)
LEMMA SameSlots ==
  ASSUME SlotsOk, slots' = slots
  PROVE  SlotsOk' /\ KeepalivesKept
BY DEF SlotsOk, ValuesMapped, Mapped, KeepalivesKept

(* A system that is skipped keeps the invariant (Engine::run_node),        *)
LEMMA SkipKeeps ==
  ASSUME FrameInv, Skip, EventsInv'
  PROVE  FrameInv'
<1>1. NodesInv /\ RunInv /\ TimeInv /\ SlotsOk /\ EventsTyped
  BY FrameHolds
<1>2. Open /\ at <= Len(nodes)
  BY DEF Skip
<1>3. Node.system.mod \in ModNames /\ at + 1 \in 0..Len(nodes) + 1 /\ at + 1 # 0
  BY <1>2, NodeIs
<1>4. NodesInv'
  BY <1>1, <1>3 DEF Skip, NodesInv, Open
<1>5. RunInv'
  BY <1>1, <1>3 DEF Skip, RunInv
<1>6. TimeInv' /\ slots' = slots /\ EventsStill /\ UNCHANGED <<game, plan, loads, mods>>
  BY <1>1 DEF Skip, TimeInv
<1> QED BY <1>1, <1>4, <1>5, <1>6, StillTyped, SameSlots, RestKeeps

(* one that runs does, and uses flows its mod's code is mapped for,        *)
LEMMA RunKeeps ==
  ASSUME FrameInv, NEW kinds \in SUBSET Kinds, NEW panics \in BOOLEAN, NEW kept \in BOOLEAN,
         RunSystem(kinds, panics, kept), EventsInv'
  PROVE  FrameInv'
<1> DEFINE s == Node.system
           m == ModOf(s)
<1>1. NodesInv /\ RunInv /\ TimeInv /\ SlotsOk /\ EventsInv /\ EventsTyped /\ frame \in Nat
  BY FrameHolds DEF EventsInv
<1>2. Open /\ at <= Len(nodes)
  BY DEF RunSystem
<1>3. /\ Node.step \in Nat /\ at + 1 \in 0..Len(nodes) + 1 /\ at + 1 # 0
      /\ m \in Mod /\ FlowsKeep(m) /\ OfBuild(s, m.build) /\ s.mod \in ModNames
  BY <1>2, NodeIs
<1>4. UseFlows(s.uses, StepNow, m.loadedAt, kept)
  BY DEF RunSystem
<1>5. /\ mods' = mods \/ mods' = Fail(s.mod)
      /\ out' = out \/ out' = out \union {s.mod}
      /\ log' = {} \/ log' = s.sends
      /\ logged' \in BOOLEAN /\ at' = at + 1
      /\ UNCHANGED <<game, plan, loads, nodes, busy, acc, owed>>
  BY DEF RunSystem
<1>6. EventsStill \/ \E r \in Readers : ReadEvents(r, kinds)
  BY DEF RunSystem
<1> HIDE DEF s, m
<1>7. SlotsOk' /\ KeepalivesKept
  <2>1. StepNow \in Nat \X Nat
    BY <1>1, <1>3 DEF StepNow
  <2>2. m.loadedAt \in Nat \ {0} /\ m.build.name = s.mod
    BY <1>3 DEF Mod, OfBuild
  <2>3. \A f \in FlowsOf(m.build.systems) \intersect FlowNames : slots[f].keepalives[m.build.name] = m.loadedAt
    BY <1>3 DEF FlowsKeep
  <2> HIDE DEF StepNow
  <2>4. SlotsOk' /\ \A f \in FlowNames : slots'[f].keepalives = slots[f].keepalives
    BY <1>1, <1>3, <1>4, <2>1, <2>2, <2>3, UseFlowsStep
  <2> QED BY <2>4 DEF KeepalivesKept
<1>8. NodesInv'
  <2>1. Decls(mods)' = Decls(mods)
    BY <1>5, <1>7, ModsStep
  <2> QED BY <1>1, <1>3, <1>5, <2>1 DEF NodesInv, Open
<1>9. RunInv' /\ TimeInv'
  BY <1>1, <1>3, <1>5 DEF RunInv, TimeInv, OfBuild
<1>10. EventsTyped'
  BY <1>1, <1>6, StillTyped, ReadTyped
<1> QED BY <1>5, <1>7, <1>8, <1>9, <1>10, RestKeeps

(* and so does an apply, which publishes what its system sent.             *)
LEMMA ApplyKeeps ==
  ASSUME FrameInv, NEW published \in SUBSET Kinds, Apply(published), EventsInv'
  PROVE  FrameInv'
<1> DEFINE s == Node.system
<1>1. NodesInv /\ RunInv /\ TimeInv /\ SlotsOk /\ EventsInv /\ EventsTyped
  BY FrameHolds
<1>2. Open /\ at <= Len(nodes)
  BY DEF Apply
<1>3. at + 1 \in 0..Len(nodes) + 1 /\ at + 1 # 0 /\ s.mod \in ModNames
  BY <1>2, NodeIs
<1>4. /\ mods' = mods \/ mods' = Fail(s.mod)
      /\ out' = out \/ out' = out \union {s.mod}
      /\ log' = {} /\ logged' = FALSE /\ at' = at + 1
      /\ UNCHANGED <<game, plan, loads, nodes, busy, acc, owed, slots>> /\ PublishEvents(published)
  BY DEF Apply
<1> HIDE DEF s
<1>5. SlotsOk' /\ KeepalivesKept
  BY <1>1, <1>4, SameSlots
<1>6. NodesInv'
  <2>1. Decls(mods)' = Decls(mods)
    BY <1>4, <1>5, ModsStep
  <2> QED BY <1>1, <1>3, <1>4, <2>1 DEF NodesInv, Open
<1>7. RunInv' /\ TimeInv'
  BY <1>1, <1>3, <1>4 DEF RunInv, TimeInv
<1>8. EventsTyped'
  BY <1>1, <1>4, PublishTyped
<1> QED BY <1>4, <1>5, <1>6, <1>7, <1>8, RestKeeps

(* The end of a frame keeps it: slots are emptied into bins.               *)
LEMMA EndFrameKeeps ==
  ASSUME FrameInv, EndFrame, EventsInv'
  PROVE  FrameInv'
<1>1. NodesInv /\ RunInv /\ TimeInv /\ SlotsOk /\ EventsInv /\ EventsTyped
  BY FrameHolds
<1>2. SlotsOk' /\ KeepalivesKept
  BY <1>1, ExpireFlowsStep DEF EndFrame, KeepalivesKept
<1>3. NodesInv'
  BY DEF EndFrame, NodesInv, Open
<1>4. RunInv' /\ TimeInv' /\ UNCHANGED <<game, plan, loads, mods>>
  BY <1>1 DEF EndFrame, RunInv, TimeInv
<1>5. EventsTyped'
  BY <1>1, EndTyped DEF EndFrame
<1> QED BY <1>2, <1>3, <1>4, <1>5, RestKeeps

(* The begin of a frame keeps it (Engine::begin_frame, steps): its nodes are *)
(* of the plan, and the time left is never negative.                       *)
LEMMA BeginKeeps ==
  ASSUME FrameInv, NEW time \in game.times, NEW running \in game.running, BeginFrame(time, running), EventsInv'
  PROVE  FrameInv'
<1> DEFINE Time(p) == acc[p] + time.got
           The(p)  == CHOOSE i \in GroupOf(p) : TRUE
           Hz(p)   == plan.groups[The(p)].hz
           Times(i) == IF plan.groups[i].hz = 0 THEN 1 ELSE StepsOf(Time(plan.groups[i].name), plan.groups[i].hz)
           S == SystemsOf(Decls(mods))
           Of(i) == Steps(plan.groups[i], Times(i))
           ss == [i \in DOMAIN plan.groups |-> Of(i)]
           Acc(p) == IF GroupOf(p) = {} THEN acc[p] ELSE LeftOf(Time(p), Hz(p))
           Owed(p) == IF GroupOf(p) = {} THEN owed[p]
                      ELSE IF Due(Time(p), Hz(p)) > MaxSteps THEN acc'[p]
                      ELSE owed[p] + time.is - StepsOf(Time(p), Hz(p)) * StepTime(Hz(p))
<1>1. /\ PlanInv /\ NodesInv /\ RunInv /\ TimeInv /\ SlotsOk /\ EventsInv /\ EventsTyped /\ game \in Games
  BY FrameHolds
<1>2. time.is \in Nat /\ time.got \in Nat /\ running \subseteq ModNames
  BY <1>1, GamesAssumption
<1>3. /\ nodes' = FlattenSeq(ss) /\ at' = 1
      /\ acc' = [p \in GroupPhases |-> Acc(p)] /\ owed' = [p \in GroupPhases |-> Owed(p)]
      /\ busy' = running /\ out' = {} /\ log' = {} /\ logged' = FALSE
      /\ BeginEvents /\ UNCHANGED <<game, mods, plan, loads, slots>>
  BY DEF BeginFrame
<1>4. /\ DOMAIN plan.groups = 1..Len(plan.groups) /\ Len(plan.groups) \in Nat
      /\ \A i \in DOMAIN plan.groups :
           /\ plan.groups[i].name \in GroupPhases /\ plan.groups[i].hz \in 0..Second
           /\ plan.groups[i].systems \in Seq(S)
  <2>1. \A g \in Group(Decls(mods)) : g.name \in GroupPhases /\ g.hz \in 0..Second /\ g.systems \in Seq(S)
    BY DEF Group
  <2> HIDE DEF S
  <2>2. plan.groups \in Seq(Group(Decls(mods)))
    BY <1>1 DEF PlanInv
  <2> QED BY <2>1, <2>2
<1>5. ASSUME NEW p \in GroupPhases PROVE Time(p) \in Nat /\ acc[p] \in Nat /\ owed[p] \in Int
  BY <1>1, <1>2 DEF TimeInv
<1>6. ASSUME NEW p \in GroupPhases, GroupOf(p) # {} PROVE Hz(p) \in 1..Second
  <2>1. The(p) \in GroupOf(p)
    BY <1>6
  <2> HIDE DEF The
  <2>2. The(p) \in DOMAIN plan.groups /\ Hz(p) # 0
    BY <2>1 DEF GroupOf, Rated
  <2>3. Hz(p) \in 0..Second
    BY <1>4, <2>2
  <2> HIDE DEF Hz
  <2> QED BY <2>2, <2>3, TimeAssumption
<1>7. ASSUME NEW i \in DOMAIN plan.groups PROVE Times(i) \in Nat
  <2> DEFINE g == plan.groups[i]
  <2>1. g.name \in GroupPhases /\ g.hz \in 0..Second
    BY <1>4
  <2>2. Times(i) = IF g.hz = 0 THEN 1 ELSE StepsOf(Time(g.name), g.hz)
    OBVIOUS
  <2>3. Time(g.name) \in Nat
    BY <1>5, <2>1
  <2> HIDE DEF g, Time, Times
  <2>4. CASE g.hz = 0
    BY <2>2, <2>4
  <2>5. CASE g.hz # 0
    <3>1. g.hz \in 1..Second
      BY <2>1, <2>5, TimeAssumption
    <3> QED BY <2>2, <2>3, <2>5, <3>1, TimeIs
  <2> QED BY <2>4, <2>5
<1> HIDE DEF Times, S
<1>8. nodes' \in Seq(NodeIn(S))
  <2>1. ASSUME NEW i \in DOMAIN plan.groups PROVE Of(i) \in Seq(NodeIn(S))
    BY <1>4, <1>7, StepsAre
  <2> HIDE DEF Of
  <2>2. ss \in Seq(Seq(NodeIn(S)))
    BY <1>4, <2>1
  <2> HIDE DEF ss
  <2>3. FlattenSeq(ss) \in Seq(NodeIn(S))
    BY <2>2, FlattenedSeq
  <2> QED BY <1>3, <2>3
<1>9. NodesInv'
  <2>1. Len(nodes') \in Nat /\ at' = 1
    BY <1>3, <1>8
  <2>2. Decls(mods)' = Decls(mods)
    BY <1>3 DEF Decls
  <2> QED BY <1>8, <2>1, <2>2 DEF NodesInv, Open, S
<1>10. ASSUME NEW p \in GroupPhases PROVE Acc(p) \in Nat
  <2>1. CASE GroupOf(p) = {}
    BY <1>5, <2>1
  <2>2. CASE GroupOf(p) # {}
    <3>1. Acc(p) = LeftOf(Time(p), Hz(p))
      BY <2>2
    <3> HIDE DEF Acc, Time, Hz
    <3> QED BY <1>5, <1>6, <2>2, <3>1, TimeIs
  <2> QED BY <2>1, <2>2
<1> HIDE DEF Acc
<1>11. acc' \in [GroupPhases -> Nat]
  BY <1>3, <1>10
<1>12. ASSUME NEW p \in GroupPhases PROVE Owed(p) \in Int
  <2>1. CASE GroupOf(p) = {}
    BY <1>5, <2>1
  <2>2. CASE GroupOf(p) # {}
    <3> DEFINE n == StepsOf(Time(p), Hz(p))
               step == StepTime(Hz(p))
               x == n * step
    <3>1. Owed(p) = acc'[p] \/ Owed(p) = owed[p] + time.is - x
      BY <2>2
    <3>2. n \in Nat /\ step \in Nat
      <4> HIDE DEF Time, Hz
      <4> QED BY <1>5, <1>6, <2>2, TimeIs
    <3>3. x \in Int
      <4> HIDE DEF n, step
      <4> QED BY <3>2
    <3> HIDE DEF x, Owed
    <3>4. acc'[p] \in Nat
      BY <1>11
    <3> QED BY <1>2, <1>5, <3>1, <3>3, <3>4
  <2> QED BY <2>1, <2>2
<1> HIDE DEF Owed
<1>13. owed' \in [GroupPhases -> Int]
  BY <1>3, <1>12
<1>14. RunInv' /\ TimeInv'
  BY <1>2, <1>3, <1>11, <1>13 DEF RunInv, TimeInv
<1>15. EventsTyped'
  BY <1>1, <1>3, BeginTyped
<1>16. SlotsOk' /\ KeepalivesKept
  BY <1>1, <1>3, SameSlots
<1> QED BY <1>3, <1>9, <1>14, <1>15, <1>16, RestKeeps

(* At first nothing is loaded.                                             *)
LEMMA InitHolds ==
  ASSUME Init
  PROVE  FrameInv
<1>1. EventsInv
  BY InitOk DEF Inv
<1>2. GameInv
  BY GamesAssumption DEF Init, GameInv
<1>3. mods = <<>> /\ plan = Plan(<<>>)
  BY DEF Init
<1>4. ModsInv(mods, loads) /\ AllKeep
  BY <1>3 DEF ModsInv, SameByName, AllKeep
<1>5. PlanInv
  <2>1. Decls(<<>>) = <<>> /\ <<>> \in Seq(Mod)
    BY DEF Decls
  <2> QED BY <1>3, <2>1, PlanOf DEF PlanInv
<1>6. NodesInv /\ RunInv /\ TimeInv
  <2>1. NodesInv
    BY DEF Init, NodesInv, Open
  <2>2. RunInv
    BY DEF Init, RunInv
  <2>3. acc = [p \in GroupPhases |-> 0] /\ owed = acc
    BY DEF Init
  <2>4. TimeInv
    BY <2>3 DEF TimeInv
  <2> QED BY <2>1, <2>2, <2>4
<1>7. SlotsOk
  <2> DEFINE s == [value |-> NoValue, bin |-> NoValue, keepalives |-> [m \in ModNames |-> 0]]
  <2>1. s \in Slot(ModNames) /\ s.value = NoValue /\ s.bin = NoValue
    BY DEF Slot
  <2>2. slots = [f \in FlowNames |-> s]
    BY DEF Init, FlowsInit
  <2> HIDE DEF s
  <2> QED BY <2>1, <2>2 DEF SlotsOk, ValuesMapped, Mapped
<1>8. EventsTyped
  <2>1. queues = [k \in Kinds |-> NewQueue] /\ heard = HeardNothing
    BY DEF Init, EventsInit
  <2>2. Whole(NewQueue) /\ NewQueue.layout \in Nat /\ NewQueue.loadedAt \in Nat
    BY DEF NewQueue, Whole, Fields, NoLayout
  <2> QED BY <2>1, <2>2 DEF EventsTyped, HeardNothing
<1> QED BY <1>1, <1>2, <1>4, <1>5, <1>6, <1>7, <1>8 DEF FrameInv

(* Every step of the loader keeps the invariant.                           *)
LEMMA NextHolds ==
  ASSUME FrameInv, Next
  PROVE  FrameInv'
<1>1. EventsInv'
  <2>1. Inv'
    BY FrameHolds, NextStep
  <2> QED BY <2>1 DEF Inv
<1>2. ASSUME NEW batch \in game.batches, Load(batch) PROVE FrameInv'
  BY <1>1, <1>2, LoadKeeps
<1>3. ASSUME NEW i \in DOMAIN mods, Unload(i) PROVE FrameInv'
  BY <1>1, <1>3, UnloadKeeps
<1>4. ASSUME NEW i \in DOMAIN mods, NEW k \in Kinds, Send(i, k) PROVE FrameInv'
  BY <1>1, <1>4, SendKeeps
<1>5. ASSUME NEW time \in game.times, NEW running \in game.running, BeginFrame(time, running) PROVE FrameInv'
  BY <1>1, <1>5, BeginKeeps
<1>6. ASSUME Skip PROVE FrameInv'
  BY <1>1, <1>6, SkipKeeps
<1>7. ASSUME NEW kinds \in SUBSET Kinds, NEW panics \in BOOLEAN, NEW kept \in BOOLEAN, RunSystem(kinds, panics, kept)
      PROVE  FrameInv'
  BY <1>1, <1>7, RunKeeps
<1>8. ASSUME NEW published \in SUBSET Kinds, Apply(published) PROVE FrameInv'
  BY <1>1, <1>8, ApplyKeeps
<1>9. ASSUME EndFrame PROVE FrameInv'
  BY <1>1, <1>9, EndFrameKeeps
<1> QED BY <1>2, <1>3, <1>4, <1>5, <1>6, <1>7, <1>8, <1>9 DEF Next

(* A step that changes nothing.                                            *)
LEMMA StutterHolds ==
  ASSUME FrameInv, UNCHANGED vars
  PROVE  FrameInv'
<1>1. /\ GameInv /\ ModsInv(mods, loads) /\ PlanInv /\ NodesInv /\ RunInv /\ TimeInv
      /\ SlotsOk /\ AllKeep /\ EventsInv /\ EventsTyped
  BY FrameHolds
<1>2. UNCHANGED <<game, mods, plan, loads, nodes, at, log, logged, busy, out, acc, owed, used>>
  BY DEF vars, frameVars
<1>3. UNCHANGED <<frame, queues, heard, slots>>
  BY DEF vars, eventVars
<1>4. GameInv' /\ PlanInv' /\ NodesInv' /\ RunInv' /\ TimeInv'
  BY <1>1, <1>2 DEF GameInv, PlanInv, NodesInv, Open, RunInv, TimeInv, Decls
<1>5. ModsInv(mods, loads)'
  BY <1>1, <1>2 DEF ModsInv, SameByName
<1>6. SlotsOk' /\ AllKeep'
  BY <1>1, <1>2, <1>3, SameSlots DEF AllKeep, FlowsKeep
<1>7. EventsInv' /\ EventsTyped'
  BY <1>1, <1>3 DEF EventsInv, EventsTyped
<1> QED BY <1>4, <1>5, <1>6, <1>7 DEF FrameInv

(* With the invariant, every variable has its type.                        *)
LEMMA InvTypes ==
  ASSUME FrameInv
  PROVE  TypeOK
<1>1. /\ GameInv /\ ModsInv(mods, loads) /\ NodesInv /\ RunInv /\ TimeInv
      /\ SlotsOk /\ EventsInv /\ EventsTyped /\ loads \in Nat
  BY FrameHolds
<1>2. ASSUME NEW i \in DOMAIN mods PROVE mods[i].loadedAt \in 1..loads /\ mods[i].failed \in BOOLEAN
  <2>1. mods[i] \in Mod /\ mods[i].loadedAt <= loads
    BY <1>1 DEF ModsInv
  <2> QED BY <1>1, <2>1 DEF Mod
<1> QED BY <1>1, <1>2, EventsTypeIs DEF TypeOK, GameInv, NodesInv, RunInv, TimeInv, SlotsOk

(* The invariant holds in every state that any games, rates and frame      *)
(* lengths reach.                                                          *)
THEOREM FrameInvAlways == Spec => []FrameInv
<1>1. FrameInv /\ [Next]_vars => FrameInv'
  BY NextHolds, StutterHolds
<1> QED BY <1>1, InitHolds, PTL DEF Spec

(* Every variable of Frames has its type, always: no group's time ever falls *)
(* below none, a plan's nodes are of loaded mods, and loads are numbered in*)
(* order.                                                                  *)
THEOREM FramesTypes == Spec => []TypeOK
BY FrameInvAlways, InvTypes, PTL

(* What a flow's slot or its bin holds was left by code that stays mapped: *)
(* whatever is loaded, replaced or unloaded, a value is dropped by code that *)
(* is there (FlowSlot's keepalives).                                       *)
THEOREM FramesValuesMapped == Spec => []ValuesMapped
<1>1. FrameInv => ValuesMapped
  BY DEF FrameInv, SlotsOk
<1> QED BY <1>1, FrameInvAlways, PTL

-----------------------------------------------------------------------------
(* Induction from one up to a number.                                      *)
LEMMA CountUp ==
  ASSUME NEW n \in Nat \ {0}, NEW T, 1 \in T, \A i \in 2..n : i - 1 \in T => i \in T
  PROVE  \A i \in 1..n : i \in T
<1> DEFINE U == {k \in Nat : k + 1 <= n => k + 1 \in T}
<1>1. 0 \in U
  OBVIOUS
<1>2. ASSUME NEW k \in Nat, k \in U PROVE k + 1 \in U
  <2> SUFFICES ASSUME k + 1 + 1 <= n PROVE k + 1 + 1 \in T
    OBVIOUS
  <2> DEFINE i == k + 1 + 1
  <2>1. i \in 2..n /\ i - 1 = k + 1 /\ k + 1 <= n
    OBVIOUS
  <2> HIDE DEF i
  <2>2. i \in T
    BY <1>2, <2>1
  <2> QED BY <2>2 DEF i
<1>3. Nat \subseteq U
  <2> HIDE DEF U
  <2> QED BY <1>1, <1>2, ByInduction
<1>4. ASSUME NEW i \in 1..n PROVE i \in T
  <2> DEFINE k == i - 1
  <2>1. k \in Nat /\ k + 1 = i /\ i <= n
    OBVIOUS
  <2> HIDE DEF k
  <2> QED BY <1>3, <2>1
<1> QED BY <1>4

(* The steps in which parts of one kind are put together.                  *)
LEMMA SeqSteps ==
  ASSUME NEW S, NEW ss \in Seq(Seq(S)), ss # <<>>
  PROVE  /\ \E g \in [1..Len(ss) -> Seq(S)] : Flattens(g, ss)
         /\ Len(ss) \in Nat \ {0} /\ DOMAIN ss = 1..Len(ss) /\ \A i \in 1..Len(ss) : ss[i] \in Seq(S)
<1> DEFINE Q == Seq(S)
<1>1. \A s, t \in Q : s \o t \in Q
  OBVIOUS
<1> HIDE DEF Q
<1>2. ss \in Seq(Q)
  BY DEF Q
<1>3. \E g \in [1..Len(ss) -> Q] : Flattens(g, ss)
  BY <1>1, <1>2, FlattenSteps
<1>4. Len(ss) \in Nat \ {0} /\ DOMAIN ss = 1..Len(ss) /\ \A i \in 1..Len(ss) : ss[i] \in Q
  BY <1>2
<1> QED BY <1>3, <1>4 DEF Q

(* What two lists of sequences have in common, part by part, and keep as   *)
(* they are put together.                                                  *)
Joins(R) == \A p, q \in R : <<p[1] \o q[1], p[2] \o q[2]>> \in R
(* What every two parts of two lists have in common, and what is put       *)
(* together keeps, the two wholes have.                                    *)
LEMMA FlattenTogether ==
  ASSUME NEW S, NEW S2, NEW ss \in Seq(Seq(S)), NEW tt \in Seq(Seq(S2)), Len(ss) = Len(tt), ss # <<>>,
         NEW R, Joins(R), \A i \in DOMAIN ss : <<ss[i], tt[i]>> \in R
  PROVE  <<FlattenSeq(ss), FlattenSeq(tt)>> \in R
<1>0. tt # <<>>
  OBVIOUS
<1>1. Len(ss) \in Nat \ {0} /\ DOMAIN ss = 1..Len(ss)
  BY SeqSteps
<1>2. PICK g \in [1..Len(ss) -> Seq(S)] : Flattens(g, ss)
  BY SeqSteps
<1>3. PICK h \in [1..Len(tt) -> Seq(S2)] : Flattens(h, tt)
  BY <1>0, SeqSteps
<1> DEFINE T == {i \in 1..Len(ss) : <<g[i], h[i]>> \in R}
<1>4. 1 \in T
  <2>1. g[1] = ss[1] /\ h[1] = tt[1]
    BY <1>2, <1>3 DEF Flattens
  <2>2. 1 \in DOMAIN ss
    BY <1>1
  <2> QED BY <1>1, <2>1, <2>2
<1>5. ASSUME NEW i \in 2..Len(ss), i - 1 \in T PROVE i \in T
  <2>1. i \in 1..Len(ss) /\ <<g[i - 1], h[i - 1]>> \in R /\ <<ss[i], tt[i]>> \in R
    <3>1. i \in 1..Len(ss) /\ i \in DOMAIN ss
      BY <1>1
    <3>2. <<g[i - 1], h[i - 1]>> \in R
      BY <1>5
    <3> QED BY <3>1, <3>2
  <2>2. g[i] = g[i - 1] \o ss[i]
    BY <1>2 DEF Flattens
  <2>4. h[i] = h[i - 1] \o tt[i]
    BY <1>3 DEF Flattens
  <2>3. <<g[i - 1] \o ss[i], h[i - 1] \o tt[i]>> \in R
    BY <2>1 DEF Joins
  <2> QED BY <2>1, <2>2, <2>3, <2>4
<1>6. Len(ss) \in T
  <2> HIDE DEF T
  <2>1. \A i \in 1..Len(ss) : i \in T
    BY <1>1, <1>4, <1>5, CountUp
  <2> QED BY <1>1, <2>1
<1> QED BY <1>2, <1>3, <1>6 DEF Flattens

(* If one part is all there is, it is what they make.                      *)
LEMMA FlattenOne ==
  ASSUME NEW S, NEW ss \in Seq(Seq(S)), NEW k \in DOMAIN ss, \A i \in DOMAIN ss : i # k => ss[i] = <<>>
  PROVE  FlattenSeq(ss) = ss[k]
<1>1. ss # <<>> /\ Len(ss) \in Nat \ {0} /\ DOMAIN ss = 1..Len(ss) /\ \A i \in 1..Len(ss) : ss[i] \in Seq(S)
  BY SeqSteps
<1>2. PICK g \in [1..Len(ss) -> Seq(S)] : Flattens(g, ss)
  BY <1>1, SeqSteps
<1> DEFINE T == {i \in 1..Len(ss) : g[i] = IF i < k THEN <<>> ELSE ss[k]}
<1>3. 1 \in T
  <2>1. g[1] = ss[1] /\ 1 \in DOMAIN ss /\ 1 \in 1..Len(ss)
    BY <1>1, <1>2 DEF Flattens
  <2>2. CASE k = 1
    BY <2>1, <2>2
  <2>3. CASE k # 1
    <3>1. 1 < k
      BY <1>1, <2>3
    <3>2. ss[1] = <<>>
      BY <2>1, <2>3
    <3> QED BY <2>1, <3>1, <3>2
  <2> QED BY <2>2, <2>3
<1>4. ASSUME NEW i \in 2..Len(ss), i - 1 \in T PROVE i \in T
  <2>1. g[i] = g[i - 1] \o ss[i] /\ i \in DOMAIN ss
    <3>1. i \in DOMAIN ss
      BY <1>1
    <3>2. g[i] = g[i - 1] \o ss[i]
      BY <1>2 DEF Flattens
    <3> QED BY <3>1, <3>2
  <2>2. g[i - 1] = IF i - 1 < k THEN <<>> ELSE ss[k]
    BY <1>4
  <2>3. \A q \in Seq(S) : q \o <<>> = q /\ <<>> \o q = q
    OBVIOUS
  <2>4. ss[k] \in Seq(S) /\ <<>> \in Seq(S)
    BY <1>1
  <2>5. CASE i = k
    <3>1. g[i] = <<>> \o ss[k]
      BY <1>1, <2>1, <2>2, <2>5
    <3>2. g[i] = ss[k]
      BY <2>3, <2>4, <3>1
    <3> QED BY <3>2, <2>5
  <2>6. CASE i < k
    <3>1. g[i] = <<>> \o <<>>
      BY <1>1, <2>1, <2>2, <2>6
    <3>2. g[i] = <<>>
      BY <2>3, <2>4, <3>1
    <3> QED BY <3>2, <2>6
  <2>7. CASE i > k
    <3>1. g[i] = ss[k] \o <<>>
      <4>1. ~(i - 1 < k) /\ i # k
        BY <1>1, <2>7
      <4>2. ss[i] = <<>>
        BY <2>1, <4>1
      <4> QED BY <2>1, <2>2, <4>1, <4>2
    <3>2. g[i] = ss[k]
      BY <2>3, <2>4, <3>1
    <3> QED BY <1>1, <3>2, <2>7
  <2> QED BY <1>1, <2>5, <2>6, <2>7
<1>5. Len(ss) \in T
  <2> HIDE DEF T
  <2>1. \A i \in 1..Len(ss) : i \in T
    BY <1>1, <1>3, <1>4, CountUp
  <2> QED BY <1>1, <2>1
<1> QED BY <1>1, <1>2, <1>5 DEF Flattens

(* If there is nothing in any part, there is nothing in the whole.         *)
LEMMA FlattenNone ==
  ASSUME NEW S, NEW ss \in Seq(Seq(S)), \A i \in DOMAIN ss : ss[i] = <<>>
  PROVE  FlattenSeq(ss) = <<>>
<1>1. CASE ss = <<>>
  BY <1>1 DEF FlattenSeq
<1>2. CASE ss # <<>>
  <2>1. 1 \in DOMAIN ss
    BY <1>2, SeqSteps
  <2> QED BY <2>1, FlattenOne
<1> QED BY <1>1, <1>2

(* What parts hold is what they make holds, and no more; and it holds      *)
(* nothing twice that no part does, and no two.                            *)
Within(q, ss, n) == \A a \in DOMAIN q : \E j \in 1..n : \E b \in DOMAIN ss[j] : q[a] = ss[j][b]
Covers(q, ss, n) == \A j \in 1..n : \A b \in DOMAIN ss[j] : \E a \in DOMAIN q : q[a] = ss[j][b]
KeyDistinct(key, q) == \A a, b \in DOMAIN q : key[q[a]] = key[q[b]] => a = b

Joined(r, p, q) ==
  /\ \A a \in DOMAIN p : a \in DOMAIN r /\ r[a] = p[a]
  /\ \A b \in DOMAIN q : Len(p) + b \in DOMAIN r /\ r[Len(p) + b] = q[b]
  /\ \A c \in DOMAIN r : \/ c \in DOMAIN p /\ r[c] = p[c]
                         \/ c - Len(p) \in DOMAIN q /\ Len(p) + (c - Len(p)) = c /\ r[c] = q[c - Len(p)]
(* Two put together are the one and then the other.                        *)
LEMMA JoinIs ==
  ASSUME NEW S, NEW p \in Seq(S), NEW q \in Seq(S), NEW r, r = p \o q
  PROVE  Joined(r, p, q)
<1>1. /\ Len(p) \in Nat /\ Len(q) \in Nat
      /\ DOMAIN p = 1..Len(p) /\ DOMAIN q = 1..Len(q) /\ DOMAIN r = 1..Len(p) + Len(q)
      /\ \A a \in 1..Len(p) : a \in DOMAIN r /\ r[a] = p[a]
      /\ \A b \in 1..Len(q) : Len(p) + b \in DOMAIN r /\ r[Len(p) + b] = q[b]
      /\ \A c \in DOMAIN r : c \in 1..Len(p) \/ (c - Len(p) \in 1..Len(q) /\ Len(p) + (c - Len(p)) = c /\ r[c] = q[c - Len(p)])
  OBVIOUS
<1> QED BY <1>1 DEF Joined

(* A whole holds what its parts hold,                                      *)
LEMMA FlattenHolds ==
  ASSUME NEW S, NEW ss \in Seq(Seq(S)), ss # <<>>
  PROVE  Within(FlattenSeq(ss), ss, Len(ss)) /\ Covers(FlattenSeq(ss), ss, Len(ss))
<1>1. Len(ss) \in Nat \ {0} /\ DOMAIN ss = 1..Len(ss) /\ \A i \in 1..Len(ss) : ss[i] \in Seq(S)
  BY SeqSteps
<1>2. PICK g \in [1..Len(ss) -> Seq(S)] : Flattens(g, ss)
  BY SeqSteps
<1> DEFINE T == {i \in 1..Len(ss) : Within(g[i], ss, i) /\ Covers(g[i], ss, i)}
<1>3. 1 \in T
  <2>1. g[1] = ss[1]
    BY <1>2 DEF Flattens
  <2> QED BY <1>1, <2>1 DEF Within, Covers
<1>4. ASSUME NEW i \in 2..Len(ss), i - 1 \in T PROVE i \in T
  <2> DEFINE p == g[i - 1]
             q == ss[i]
             r == g[i]
  <2>0. i - 1 \in 1..Len(ss) /\ i \in 1..Len(ss)
    BY <1>1
  <2>1. r = p \o q /\ i - 1 \in 1..Len(ss) /\ i \in 1..Len(ss)
    BY <1>2, <2>0 DEF Flattens
  <2>2. p \in Seq(S) /\ q \in Seq(S)
    BY <1>1, <2>1
  <2>3. Within(p, ss, i - 1) /\ Covers(p, ss, i - 1)
    BY <1>4
  <2>q. q = ss[i]
    OBVIOUS
  <2>4. 1..i - 1 \subseteq 1..i /\ i \in 1..i /\ \A j \in 1..i : j = i \/ j \in 1..i - 1
    OBVIOUS
  <2> HIDE DEF p, q, r
  <2>j. Joined(r, p, q)
    BY <2>1, <2>2, JoinIs
  <2>5. /\ \A a \in DOMAIN p : a \in DOMAIN r /\ r[a] = p[a]
        /\ \A b \in DOMAIN q : \E a \in DOMAIN r : r[a] = q[b]
        /\ \A c \in DOMAIN r : (c \in DOMAIN p /\ r[c] = p[c]) \/ \E b \in DOMAIN q : r[c] = q[b]
    BY <2>j DEF Joined
  <2>6. Within(r, ss, i)
    <3> SUFFICES ASSUME NEW c \in DOMAIN r PROVE \E j \in 1..i : \E b \in DOMAIN ss[j] : r[c] = ss[j][b]
      BY DEF Within
    <3>1. CASE c \in DOMAIN p /\ r[c] = p[c]
      <4>1. PICK j \in 1..i - 1 : \E b \in DOMAIN ss[j] : p[c] = ss[j][b]
        BY <2>3, <3>1 DEF Within
      <4> QED BY <2>4, <3>1, <4>1
    <3>2. CASE \E b \in DOMAIN q : r[c] = q[b]
      BY <2>4, <2>q, <3>2
    <3> QED BY <2>5, <3>1, <3>2
  <2>7. Covers(r, ss, i)
    <3> SUFFICES ASSUME NEW j \in 1..i, NEW b \in DOMAIN ss[j] PROVE \E a \in DOMAIN r : r[a] = ss[j][b]
      BY DEF Covers
    <3>1. CASE j = i
      BY <2>5, <2>q, <3>1
    <3>2. CASE j \in 1..i - 1
      <4>1. PICK a \in DOMAIN p : p[a] = ss[j][b]
        BY <2>3, <3>2 DEF Covers
      <4> QED BY <2>5, <4>1
    <3> QED BY <2>4, <3>1, <3>2
  <2> QED BY <2>1, <2>6, <2>7 DEF r
<1>5. Len(ss) \in T
  <2> HIDE DEF T
  <2>1. \A i \in 1..Len(ss) : i \in T
    BY <1>1, <1>3, <1>4, CountUp
  <2> QED BY <1>1, <2>1
<1> QED BY <1>2, <1>5 DEF Flattens

Apart(key, ss) ==
  \A i, j \in DOMAIN ss : i # j =>
    \A a \in DOMAIN ss[i] : \A b \in DOMAIN ss[j] : key[ss[i][a]] # key[ss[j][b]]
(* and nothing twice, if none of them does and no two hold the same.       *)
LEMMA FlattenDistinct ==
  ASSUME NEW S, NEW ss \in Seq(Seq(S)), NEW key, \A i \in DOMAIN ss : KeyDistinct(key, ss[i]), Apart(key, ss)
  PROVE  KeyDistinct(key, FlattenSeq(ss))
<1>0. CASE ss = <<>>
  BY <1>0 DEF FlattenSeq, KeyDistinct
<1>a. CASE ss # <<>>
  <2>1. Len(ss) \in Nat \ {0} /\ DOMAIN ss = 1..Len(ss) /\ \A i \in 1..Len(ss) : ss[i] \in Seq(S)
    BY <1>a, SeqSteps
  <2>2. PICK g \in [1..Len(ss) -> Seq(S)] : Flattens(g, ss)
    BY <1>a, SeqSteps
  <2> DEFINE T == {i \in 1..Len(ss) : Within(g[i], ss, i) /\ KeyDistinct(key, g[i])}
  <2>3. 1 \in T
    <3>1. g[1] = ss[1] /\ 1 \in DOMAIN ss
      BY <2>1, <2>2 DEF Flattens
    <3>2. Within(g[1], ss, 1)
      BY <3>1 DEF Within
    <3> QED BY <2>1, <3>1, <3>2
  <2>4. ASSUME NEW i \in 2..Len(ss), i - 1 \in T PROVE i \in T
    <3> DEFINE p == g[i - 1]
               q == ss[i]
               r == g[i]
    <3>0. i - 1 \in 1..Len(ss) /\ i \in 1..Len(ss)
      BY <2>1
    <3>1. r = p \o q /\ i - 1 \in 1..Len(ss) /\ i \in 1..Len(ss)
      BY <2>2, <3>0 DEF Flattens
    <3>2. p \in Seq(S) /\ q \in Seq(S)
      BY <2>1, <3>1
    <3>3. Within(p, ss, i - 1) /\ KeyDistinct(key, p) /\ KeyDistinct(key, q)
      BY <2>1, <2>4, <3>1
    <3>4. 1..i - 1 \subseteq 1..i /\ i \in 1..i /\ \A j \in 1..i - 1 : j # i /\ j \in DOMAIN ss
      BY <2>1
    <3>5. \A a \in DOMAIN p : \A b \in DOMAIN q : key[p[a]] # key[q[b]]
      <4> SUFFICES ASSUME NEW a \in DOMAIN p, NEW b \in DOMAIN q PROVE key[p[a]] # key[q[b]]
        OBVIOUS
      <4>1. PICK j \in 1..i - 1 : \E c \in DOMAIN ss[j] : p[a] = ss[j][c]
        <5> HIDE DEF p
        <5> QED BY <3>3 DEF Within
      <4>2. PICK c \in DOMAIN ss[j] : p[a] = ss[j][c]
        BY <4>1
      <4> QED BY <2>1, <3>1, <3>4, <4>2 DEF Apart
    <3>q. q = ss[i]
      OBVIOUS
    <3> HIDE DEF p, q, r
    <3>6. Joined(r, p, q)
      BY <3>1, <3>2, JoinIs
    <3>7. \A c \in DOMAIN r : \/ c \in DOMAIN p /\ r[c] = p[c]
                              \/ c - Len(p) \in DOMAIN q /\ Len(p) + (c - Len(p)) = c /\ r[c] = q[c - Len(p)]
      BY <3>6 DEF Joined
    <3>8. Within(r, ss, i)
      <4> SUFFICES ASSUME NEW c \in DOMAIN r PROVE \E j \in 1..i : \E b \in DOMAIN ss[j] : r[c] = ss[j][b]
        BY DEF Within
      <4>1. CASE c \in DOMAIN p /\ r[c] = p[c]
        <5>1. PICK j \in 1..i - 1 : \E b \in DOMAIN ss[j] : p[c] = ss[j][b]
          BY <3>3, <4>1 DEF Within
        <5> QED BY <3>4, <4>1, <5>1
      <4>2. CASE c - Len(p) \in DOMAIN q /\ r[c] = q[c - Len(p)]
        BY <3>4, <3>q, <4>2
      <4> QED BY <3>7, <4>1, <4>2
    <3>9. ASSUME NEW a \in DOMAIN r, NEW b \in DOMAIN r, key[r[a]] = key[r[b]] PROVE a = b
      <4>1. CASE (a \in DOMAIN p /\ r[a] = p[a]) /\ (b \in DOMAIN p /\ r[b] = p[b])
        BY <3>3, <3>9, <4>1 DEF KeyDistinct
      <4>2. CASE /\ a - Len(p) \in DOMAIN q /\ Len(p) + (a - Len(p)) = a /\ r[a] = q[a - Len(p)]
                 /\ b - Len(p) \in DOMAIN q /\ Len(p) + (b - Len(p)) = b /\ r[b] = q[b - Len(p)]
        <5>1. a - Len(p) = b - Len(p)
          BY <3>3, <3>9, <4>2 DEF KeyDistinct
        <5> QED BY <4>2, <5>1
      <4>3. CASE (a \in DOMAIN p /\ r[a] = p[a]) /\ (b - Len(p) \in DOMAIN q /\ r[b] = q[b - Len(p)])
        BY <3>5, <3>9, <4>3
      <4>4. CASE (b \in DOMAIN p /\ r[b] = p[b]) /\ (a - Len(p) \in DOMAIN q /\ r[a] = q[a - Len(p)])
        BY <3>5, <3>9, <4>4
      <4> QED BY <3>7, <4>1, <4>2, <4>3, <4>4
    <3> QED BY <3>1, <3>8, <3>9 DEF KeyDistinct, r
  <2>5. Len(ss) \in T
    <3> HIDE DEF T
    <3>1. \A i \in 1..Len(ss) : i \in T
      BY <2>1, <2>3, <2>4, CountUp
    <3> QED BY <2>1, <3>1
  <2> QED BY <2>2, <2>5 DEF Flattens
<1> QED BY <1>0, <1>a

(* The names order_phases collects are each of one phase,                  *)
LEMMA NamesDistinct ==
  ASSUME NEW declared \in Seq(PhasesOf)
  PROVE  Distinct(PhaseNames(declared))
<1> DEFINE F(i) == IF declared[i].name \in ToSet(Builtin) \union {declared[j].name : j \in 1..i - 1}
                   THEN <<>> ELSE <<declared[i].name>>
           ss == [i \in DOMAIN declared |-> F(i)]
           key == [x \in GroupPhases |-> x]
           p == Builtin
           q == FlattenSeq(ss)
           r == p \o q
<1>1. Builtin \in Seq(GroupPhases)
  <2>1. Builtin \in Seq(ToSet(Builtin)) /\ ToSet(Builtin) \subseteq GroupPhases
    BY TimeAssumption DEF IsSeq, GroupPhases
  <2> QED BY <2>1
<1>2. DOMAIN declared = 1..Len(declared) /\ Len(declared) \in Nat
  OBVIOUS
<1>3. ASSUME NEW i \in DOMAIN declared, NEW a \in DOMAIN F(i)
      PROVE  /\ F(i) = <<declared[i].name>> /\ a = 1 /\ F(i)[a] = declared[i].name
             /\ declared[i].name \in GroupPhases /\ declared[i].name \notin ToSet(Builtin)
             /\ \A j \in 1..i - 1 : declared[j].name # declared[i].name
  <2>1. declared[i].name \notin ToSet(Builtin) \union {declared[j].name : j \in 1..i - 1}
    BY <1>3
  <2>2. F(i) = <<declared[i].name>>
    BY <2>1
  <2>3. declared[i] \in PhasesOf
    OBVIOUS
  <2>4. a = 1
    BY <1>3, <2>2
  <2> QED BY <2>1, <2>2, <2>3, <2>4, PhaseIs
<1>4. ASSUME NEW i \in DOMAIN declared PROVE F(i) \in Seq(GroupPhases) /\ KeyDistinct(key, F(i))
  <2>1. CASE F(i) = <<>>
    <3> HIDE DEF F, key
    <3> QED BY <2>1 DEF KeyDistinct
  <2>2. CASE F(i) # <<>>
    <3>1. F(i) = <<declared[i].name>> /\ 1 \in DOMAIN F(i)
      BY <2>2
    <3>2. declared[i].name \in GroupPhases
      BY <1>3, <3>1
    <3> HIDE DEF F, key
    <3> QED BY <3>1, <3>2 DEF KeyDistinct
  <2> QED BY <2>1, <2>2
<1>5. ss \in Seq(Seq(GroupPhases)) /\ DOMAIN ss = DOMAIN declared /\ \A i \in DOMAIN ss : ss[i] = F(i)
  <2>1. \A i \in DOMAIN declared : F(i) \in Seq(GroupPhases)
    <3> HIDE DEF F, key
    <3> QED BY <1>4
  <2>2. DOMAIN ss = DOMAIN declared /\ \A i \in DOMAIN ss : ss[i] = F(i)
    <3> HIDE DEF F
    <3> QED OBVIOUS
  <2> HIDE DEF F, key
  <2>3. ss \in Seq(Seq(GroupPhases))
    BY <1>2, <2>1
  <2> HIDE DEF ss
  <2> QED BY <2>2, <2>3
<1>6. Apart(key, ss)
  <2> SUFFICES ASSUME NEW i \in DOMAIN declared, NEW j \in DOMAIN declared, i # j,
                      NEW a \in DOMAIN F(i), NEW b \in DOMAIN F(j)
               PROVE  key[F(i)[a]] # key[F(j)[b]]
    <3> HIDE DEF ss, F, key
    <3> QED BY <1>5 DEF Apart
  <2>1. /\ F(i)[a] = declared[i].name /\ declared[i].name \in GroupPhases
        /\ \A k \in 1..i - 1 : declared[k].name # declared[i].name
    BY <1>3
  <2>2. /\ F(j)[b] = declared[j].name /\ declared[j].name \in GroupPhases
        /\ \A k \in 1..j - 1 : declared[k].name # declared[j].name
    BY <1>3
  <2>3. j \in 1..i - 1 \/ i \in 1..j - 1
    BY <1>2
  <2>4. declared[i].name # declared[j].name
    BY <2>1, <2>2, <2>3
  <2> HIDE DEF F
  <2> QED BY <2>1, <2>2, <2>4
<1>7. KeyDistinct(key, q)
  <2> HIDE DEF ss, key
  <2> QED BY <1>4, <1>5, <1>6, FlattenDistinct
<1>8. q \in Seq(GroupPhases)
  <2> HIDE DEF ss
  <2> QED BY <1>5, FlattenedSeq
<1>9. \A b \in DOMAIN q : q[b] \notin ToSet(Builtin)
  <2>1. CASE ss = <<>>
    <3>1. q = <<>>
      BY <2>1 DEF FlattenSeq
    <3> HIDE DEF q
    <3> QED BY <3>1
  <2>2. CASE ss # <<>>
    <3> SUFFICES ASSUME NEW b \in DOMAIN q PROVE q[b] \notin ToSet(Builtin)
      OBVIOUS
    <3>1. Within(q, ss, Len(ss)) /\ DOMAIN ss = 1..Len(ss)
      <4> HIDE DEF ss
      <4> QED BY <1>5, <2>2, FlattenHolds
    <3>2. PICK j \in DOMAIN ss : \E a \in DOMAIN ss[j] : q[b] = ss[j][a]
      <4> HIDE DEF ss, q
      <4> QED BY <3>1 DEF Within
    <3>3. PICK a \in DOMAIN ss[j] : q[b] = ss[j][a]
      BY <3>2
    <3>4. j \in DOMAIN declared /\ ss[j] = F(j)
      <4> HIDE DEF ss, F
      <4> QED BY <1>5, <3>2
    <3>5. F(j)[a] = declared[j].name /\ declared[j].name \notin ToSet(Builtin)
      BY <1>3, <3>3, <3>4
    <3> HIDE DEF ss, F, q
    <3> QED BY <3>3, <3>4, <3>5
  <2> QED BY <2>1, <2>2
<1>10. \A a \in DOMAIN p : p[a] \in ToSet(Builtin)
  BY DEF ToSet
<1>11. Joined(r, p, q)
  <2> HIDE DEF q
  <2> QED BY <1>1, <1>8, JoinIs
<1>12. \A i, j \in DOMAIN p : p[i] = p[j] => i = j
  BY TimeAssumption
<1>13. \A i, j \in DOMAIN q : q[i] = q[j] => i = j
  <2>1. \A i \in DOMAIN q : key[q[i]] = q[i]
    <3> HIDE DEF q
    <3> QED BY <1>8
  <2> HIDE DEF key, q
  <2> QED BY <1>7, <2>1 DEF KeyDistinct
<1>14. Distinct(r)
  <2> HIDE DEF p, q, r
  <2>1. \A c \in DOMAIN r : \/ c \in DOMAIN p /\ r[c] = p[c]
                            \/ c - Len(p) \in DOMAIN q /\ Len(p) + (c - Len(p)) = c /\ r[c] = q[c - Len(p)]
    BY <1>11 DEF Joined
  <2>2. \A a \in DOMAIN p : \A b \in DOMAIN q : p[a] # q[b]
    BY <1>9, <1>10
  <2> SUFFICES ASSUME NEW c \in DOMAIN r, NEW d \in DOMAIN r, r[c] = r[d] PROVE c = d
    BY DEF Distinct
  <2>3. CASE c \in DOMAIN p /\ r[c] = p[c] /\ d \in DOMAIN p /\ r[d] = p[d]
    BY <1>12, <2>3
  <2>4. CASE /\ c - Len(p) \in DOMAIN q /\ Len(p) + (c - Len(p)) = c /\ r[c] = q[c - Len(p)]
             /\ d - Len(p) \in DOMAIN q /\ Len(p) + (d - Len(p)) = d /\ r[d] = q[d - Len(p)]
    <3>1. c - Len(p) = d - Len(p)
      BY <1>13, <2>4
    <3> QED BY <2>4, <3>1
  <2> QED BY <2>1, <2>2, <2>3, <2>4
<1>15. PhaseNames(declared) = r
  BY DEF PhaseNames
<1> HIDE DEF r
<1> QED BY <1>14, <1>15

(* and so are those it returns.                                            *)
LEMMA OrderDistinct ==
  ASSUME NEW names \in Seq(GroupPhases), Distinct(names), NEW declared
  PROVE  Distinct(PhaseOrder(names, declared))
<1> DEFINE rank == [i \in DOMAIN names |-> i]
           order == Topological(DOMAIN names, PhaseEdges(names, declared), rank)
<1>1. IsFiniteSet(DOMAIN names) /\ \A i \in DOMAIN names : rank[i] \in Nat
  <2>1. DOMAIN names = 1..Len(names) /\ Len(names) \in Nat
    OBVIOUS
  <2>2. IsFiniteSet(1..Len(names))
    BY <2>1, FS_Interval
  <2> QED BY <2>1, <2>2
<1>2. order \in Seq(DOMAIN names) /\ Distinct(order)
  <2> HIDE DEF rank
  <2> QED BY <1>1, TopologicalIs
<1>3. PhaseOrder(names, declared) = Picked(names, order)
  BY DEF PhaseOrder
<1> HIDE DEF order
<1>4. \A k \in DOMAIN order : order[k] \in DOMAIN names
  BY <1>2
<1> QED BY <1>2, <1>3, <1>4 DEF Picked, Distinct

(* Groups are named by phases, each by one.                                *)
NamesApart(groups) == \A a, b \in DOMAIN groups : groups[a].name = groups[b].name => a = b

(* A group opens at a phase of its own (Engine::steps).                    *)
LEMMA GroupsApart ==
  ASSUME NEW S, NEW phases \in Seq(PhasesIn(S)), NamesApart(phases)
  PROVE  NamesApart(Groups(phases))
<1> DEFINE opens == Opens(phases)
           F(i) == IF i \in opens THEN <<GroupFrom(phases, i, opens)>> ELSE <<>>
           ss == [i \in DOMAIN phases |-> F(i)]
           G == {GroupFrom(phases, i, opens) : i \in DOMAIN phases}
           key == [g \in G |-> g.name]
           q == FlattenSeq(ss)
<1>1. DOMAIN phases = 1..Len(phases) /\ Len(phases) \in Nat
  OBVIOUS
<1>2. ASSUME NEW i \in DOMAIN phases
      PROVE  GroupFrom(phases, i, opens) \in G /\ GroupFrom(phases, i, opens).name = phases[i].name
  BY DEF GroupFrom
<1> HIDE DEF G, opens
<1>3. ASSUME NEW i \in DOMAIN phases
      PROVE  /\ F(i) \in Seq(G) /\ KeyDistinct(key, F(i))
             /\ \A a \in DOMAIN F(i) : F(i)[a] \in G /\ key[F(i)[a]] = phases[i].name
  <2> DEFINE g == GroupFrom(phases, i, opens)
  <2>1. F(i) = <<g>> \/ F(i) = <<>>
    BY Zenon
  <2>2. g \in G /\ g.name = phases[i].name
    BY <1>2
  <2> HIDE DEF F, g
  <2>3. key[g] = phases[i].name
    BY <2>2
  <2> HIDE DEF key
  <2>4. CASE F(i) = <<g>>
    BY <2>2, <2>3, <2>4 DEF KeyDistinct
  <2>5. CASE F(i) = <<>>
    BY <2>5 DEF KeyDistinct
  <2> QED BY <2>1, <2>4, <2>5
<1> HIDE DEF key
<1>4. ss \in Seq(Seq(G)) /\ DOMAIN ss = DOMAIN phases /\ \A i \in DOMAIN ss : ss[i] = F(i)
  <2> HIDE DEF F
  <2> QED BY <1>1, <1>3
<1> HIDE DEF F
<1>5. Apart(key, ss)
  <2> HIDE DEF ss
  <2> QED BY <1>3, <1>4 DEF Apart, NamesApart
<1>6. KeyDistinct(key, q) /\ q \in Seq(G)
  <2> HIDE DEF ss
  <2> QED BY <1>3, <1>4, <1>5, FlattenDistinct, FlattenedSeq
<1>7. Groups(phases) = q
  BY DEF Groups, GroupsAt, F, opens
<1> HIDE DEF q
<1>8. \A a \in DOMAIN q : key[q[a]] = q[a].name
  BY <1>6 DEF key
<1> QED BY <1>6, <1>7, <1>8 DEF KeyDistinct, NamesApart

(* So a plan's groups are apart.                                           *)
LEMMA PlanApart ==
  ASSUME NEW decls \in Seq(Builds)
  PROVE  NamesApart(Plan(decls).groups)
<1> DEFINE S == SystemsOf(decls)
           declared == DeclaredPhases(decls)
           systems == Declared(decls)
           names == PhaseNames(declared)
           phases == PhaseOrder(names, declared)
           order == SystemOrder(systems, Ranks(systems, phases))
           planned == Ordered(decls)
<1>1. declared \in Seq(PhasesOf) /\ systems \in Seq(S)
  BY DeclaredPhasesAre, DeclaredAre
<1>2. names \in Seq(GroupPhases) /\ Distinct(names)
  <2> HIDE DEF declared
  <2> QED BY <1>1, PhaseNamesAre, NamesDistinct
<1>3. phases \in Seq(GroupPhases) /\ Distinct(phases)
  <2> HIDE DEF names
  <2> QED BY <1>2, PhaseOrderIs, OrderDistinct
<1> HIDE DEF S, declared, systems, names, phases
<1>4. NamesApart(NoPlan.groups)
  BY DEF NoPlan, NamesApart
<1>5. NamesApart(planned.groups)
  <2>1. planned = IF Len(phases) = Len(names) /\ InPhases(systems, phases)
                  THEN InGroups(declared, systems, phases, order) ELSE NoPlan
    BY DEF Ordered, PlanIn, Phased, declared, systems, names, phases
  <2>2. CASE Len(phases) = Len(names) /\ InPhases(systems, phases)
    <3>1. order \in Seq(S)
      BY <1>1, <1>3, <2>2, SystemOrderIs DEF InPhases
    <3> HIDE DEF order
    <3> DEFINE sorted == Sorted(declared, order, phases)
    <3>2. sorted \in Seq(PhasesIn(S))
      BY <1>1, <1>3, <3>1, SortedIs
    <3>3. DOMAIN sorted = DOMAIN phases /\ \A k \in DOMAIN phases : sorted[k].name = phases[k]
      BY DEF Sorted
    <3> HIDE DEF sorted
    <3>4. NamesApart(sorted)
      BY <1>3, <3>3 DEF NamesApart, Distinct
    <3>5. NamesApart(Groups(sorted))
      BY <3>2, <3>4, GroupsApart
    <3>6. planned = NoPlan \/ planned = [ok |-> TRUE, groups |-> Groups(Sorted(declared, order, phases))]
      BY <2>1, <2>2, Zenon DEF InGroups
    <3>7. planned = NoPlan \/ planned.groups = Groups(sorted)
      BY <3>6 DEF sorted
    <3> HIDE DEF planned
    <3> QED BY <1>4, <3>5, <3>7
  <2>3. CASE ~(Len(phases) = Len(names) /\ InPhases(systems, phases))
    BY <1>4, <2>1, <2>3
  <2> QED BY <2>2, <2>3
<1>6. Plan(decls) = planned \/ Plan(decls) = NoPlan
  BY Zenon DEF Plan, CheckFlows
<1> HIDE DEF planned
<1> QED BY <1>4, <1>5, <1>6

-----------------------------------------------------------------------------
(* What a node does with a flow; that a node of a list that finds a flow   *)
(* comes after one that makes it, in the same step, and that none between  *)
(* them makes or takes it; and the same of a flow's uses in a plan.        *)
Does(x, f, a) == ~x.apply /\ \E u \in ToSet(x.system.uses) : u.flow = f /\ u.access = a
Quiet(f, ns, j, i) == \A k \in j + 1..i - 1 : ~Does(ns[k], f, "Make") /\ ~Does(ns[k], f, "Take")
Serves(f, ns, j, i) ==
  Does(ns[j], f, "Make") /\ ns[j].step = ns[i].step /\ Quiet(f, ns, j, i)
Finds(f, x) == \E a \in {"See", "Pass", "Take"} : Does(x, f, a)
Served(f, ns) == \A i \in DOMAIN ns : Finds(f, ns[i]) => \E j \in 1..i - 1 : Serves(f, ns, j, i)

UseServes(us, j, i) ==
  us[j].access = "Make" /\ \A k \in j + 1..i - 1 : us[k].access # "Make" /\ us[k].access # "Take"
ServedUses(us) ==
  \A i \in DOMAIN us : us[i].access # "Make" => \E j \in 1..i - 1 : UseServes(us, j, i)

(* Nodes of a step that use a flow, and the uses, in order.                *)
Matches(f, c, ns, us, m) ==
  /\ \A k, l \in 1..Len(us) : k < l => m[k] < m[l]
  /\ \A k \in 1..Len(us) : Does(ns[m[k]], f, us[k].access) /\ ns[m[k]].step = c
  /\ \A i \in 1..Len(ns), a \in Accesses : Does(ns[i], f, a) => \E k \in 1..Len(us) : m[k] = i /\ us[k].access = a
Follows(f, c, ns, us) == \E m \in [1..Len(us) -> 1..Len(ns)] : Matches(f, c, ns, us, m)

(* If the uses are served, the nodes that they are of are.                 *)
LEMMA FollowsServed ==
  ASSUME NEW S, NEW S2, NEW f, NEW c, NEW ns \in Seq(S), NEW us \in Seq(S2), Follows(f, c, ns, us), ServedUses(us)
  PROVE  Served(f, ns)
<1>1. PICK m \in [1..Len(us) -> 1..Len(ns)] : Matches(f, c, ns, us, m)
  BY DEF Follows
<1>2. DOMAIN us = 1..Len(us) /\ Len(us) \in Nat /\ DOMAIN ns = 1..Len(ns) /\ Len(ns) \in Nat
  OBVIOUS
<1> SUFFICES ASSUME NEW i \in DOMAIN ns, NEW a \in {"See", "Pass", "Take"}, Does(ns[i], f, a)
             PROVE  \E j \in 1..i - 1 : Serves(f, ns, j, i)
  BY DEF Served, Finds
<1>a. a \in Accesses
  BY DEF Accesses
<1>3. PICK k \in 1..Len(us) : m[k] = i /\ us[k].access = a
  BY <1>1, <1>2, <1>a DEF Matches
<1>4. us[k].access # "Make"
  BY <1>3
<1>5. PICK l \in 1..k - 1 : UseServes(us, l, k)
  BY <1>2, <1>4 DEF ServedUses
<1>6. l \in 1..Len(us) /\ l < k
  BY <1>2
<1>7. m[l] < i /\ m[l] \in 1..Len(ns)
  BY <1>1, <1>3, <1>6 DEF Matches
<1>8. Does(ns[m[l]], f, "Make") /\ ns[m[l]].step = c /\ ns[i].step = c
  BY <1>1, <1>3, <1>5, <1>6 DEF Matches, UseServes
<1>9. ASSUME NEW p \in m[l] + 1..i - 1, NEW b \in {"Make", "Take"}, Does(ns[p], f, b) PROVE FALSE
  <2>1. p \in 1..Len(ns) /\ m[l] < p /\ p < i
    BY <1>2, <1>7
  <2>a. b \in Accesses
    BY DEF Accesses
  <2>b. \A j \in 1..Len(ns), d \in Accesses : Does(ns[j], f, d) => \E q \in 1..Len(us) : m[q] = j /\ us[q].access = d
    BY <1>1 DEF Matches
  <2>c. Does(ns[p], f, b)
    BY <1>9
  <2>d. p \in 1..Len(ns)
    BY <2>1
  <2>2. PICK q \in 1..Len(us) : m[q] = p /\ us[q].access = b
    BY <2>a, <2>b, <2>c, <2>d
  <2>e. \A x, y \in 1..Len(us) : x < y => m[x] < m[y]
    BY <1>1 DEF Matches
  <2>f. \A x \in 1..Len(us) : m[x] \in Int
    BY <1>1, <1>2
  <2>3. ~(q < l) /\ q # l /\ ~(k < q) /\ q # k
    <3> HIDE DEF Matches
    <3>1. m[q] \in Int /\ m[l] \in Int /\ m[k] \in Int /\ m[l] < m[q] /\ m[q] < m[k]
      BY <1>3, <1>6, <2>1, <2>2, <2>f
    <3>2. ~(m[q] < m[l]) /\ ~(m[k] < m[q]) /\ m[q] # m[l] /\ m[q] # m[k]
      BY <3>1
    <3> QED BY <1>6, <2>2, <2>e, <3>2
  <2>4. q \in l + 1..k - 1
    BY <1>2, <1>6, <2>3
  <2> QED BY <1>5, <2>2, <2>4 DEF UseServes
<1>10. Quiet(f, ns, m[l], i)
  BY <1>9 DEF Quiet
<1>11. m[l] \in 1..i - 1
  BY <1>2, <1>7
<1> QED BY <1>8, <1>10, <1>11 DEF Serves

(* Lists put together.                                                     *)
LEMMA FollowsJoin ==
  ASSUME NEW S, NEW S2, NEW f, NEW c, NEW p \in Seq(S), NEW q \in Seq(S), NEW us \in Seq(S2), NEW vs \in Seq(S2),
         Follows(f, c, p, us), Follows(f, c, q, vs)
  PROVE  Follows(f, c, p \o q, us \o vs)
<1> DEFINE r == p \o q
           ws == us \o vs
<1>1. PICK m \in [1..Len(us) -> 1..Len(p)] : Matches(f, c, p, us, m)
  BY DEF Follows
<1>2. PICK n \in [1..Len(vs) -> 1..Len(q)] : Matches(f, c, q, vs, n)
  BY DEF Follows
<1>3. /\ Len(r) = Len(p) + Len(q) /\ Len(p) \in Nat /\ Len(q) \in Nat
      /\ DOMAIN p = 1..Len(p) /\ DOMAIN q = 1..Len(q) /\ DOMAIN r = 1..Len(r)
      /\ Len(ws) = Len(us) + Len(vs) /\ Len(us) \in Nat /\ Len(vs) \in Nat
      /\ DOMAIN us = 1..Len(us) /\ DOMAIN vs = 1..Len(vs) /\ DOMAIN ws = 1..Len(ws)
  OBVIOUS
<1>4. Joined(r, p, q) /\ Joined(ws, us, vs)
  <2>1. Joined(r, p, q)
    BY JoinIs
  <2>2. Joined(ws, us, vs)
    BY JoinIs
  <2> QED BY <2>1, <2>2
<1> HIDE DEF r, ws
<1> DEFINE o == [k \in 1..Len(ws) |-> IF k <= Len(us) THEN m[k] ELSE Len(p) + n[k - Len(us)]]
<1>5. ASSUME NEW k \in 1..Len(ws), k <= Len(us)
      PROVE  /\ k \in 1..Len(us) /\ o[k] = m[k] /\ o[k] \in 1..Len(p) /\ o[k] \in 1..Len(r)
             /\ ws[k] = us[k] /\ r[o[k]] = p[m[k]]
  <2>1. k \in 1..Len(us)
    BY <1>3, <1>5
  <2>2. o[k] = m[k] /\ m[k] \in 1..Len(p)
    BY <1>5, <2>1
  <2> HIDE DEF o
  <2>3. ws[k] = us[k] /\ r[m[k]] = p[m[k]]
    BY <1>3, <1>4, <2>1, <2>2 DEF Joined
  <2>4. o[k] \in 1..Len(r)
    BY <1>3, <2>2
  <2> QED BY <2>1, <2>2, <2>3, <2>4
<1>6. ASSUME NEW k \in 1..Len(ws), ~(k <= Len(us))
      PROVE  LET l == k - Len(us)
             IN  /\ l \in 1..Len(vs) /\ o[k] = Len(p) + n[l] /\ n[l] \in 1..Len(q) /\ o[k] \in 1..Len(r)
                 /\ ws[k] = vs[l] /\ r[o[k]] = q[n[l]]
  <2> DEFINE l == k - Len(us)
  <2>1. l \in 1..Len(vs) /\ Len(us) + l = k
    BY <1>3, <1>6
  <2>2. o[k] = Len(p) + n[l]
    BY <1>6
  <2> HIDE DEF o, l
  <2>3. n[l] \in 1..Len(q)
    BY <2>1
  <2>4. ws[k] = vs[l] /\ r[Len(p) + n[l]] = q[n[l]]
    BY <1>3, <1>4, <2>1, <2>3 DEF Joined
  <2>5. o[k] \in 1..Len(r)
    BY <1>3, <2>2, <2>3
  <2> QED BY <2>1, <2>2, <2>3, <2>4, <2>5 DEF l
<1> HIDE DEF o
<1>7. \A k, l \in 1..Len(ws) : k < l => o[k] < o[l]
  <2> SUFFICES ASSUME NEW k \in 1..Len(ws), NEW l \in 1..Len(ws), k < l PROVE o[k] < o[l]
    OBVIOUS
  <2>1. CASE l <= Len(us)
    <3>1. k <= Len(us)
      BY <1>3, <2>1
    <3> QED BY <1>1, <1>5, <2>1, <3>1 DEF Matches
  <2>2. CASE k <= Len(us) /\ ~(l <= Len(us))
    <3>1. o[k] \in 1..Len(p)
      BY <1>5, <2>2
    <3>2. o[l] = Len(p) + n[l - Len(us)] /\ n[l - Len(us)] \in 1..Len(q)
      BY <1>6, <2>2
    <3> QED BY <1>3, <3>1, <3>2
  <2>3. CASE ~(k <= Len(us)) /\ ~(l <= Len(us))
    <3> DEFINE a == k - Len(us)
               b == l - Len(us)
    <3>1. a \in 1..Len(vs) /\ b \in 1..Len(vs) /\ o[k] = Len(p) + n[a] /\ o[l] = Len(p) + n[b]
      BY <1>6, <2>3
    <3>2. a < b
      BY <1>3
    <3> HIDE DEF a, b
    <3>3. n[a] < n[b] /\ n[a] \in 1..Len(q) /\ n[b] \in 1..Len(q)
      BY <1>2, <3>1, <3>2 DEF Matches
    <3> QED BY <1>3, <3>1, <3>3
  <2> QED BY <1>3, <2>1, <2>2, <2>3
<1>8. ASSUME NEW k \in 1..Len(ws) PROVE Does(r[o[k]], f, ws[k].access) /\ r[o[k]].step = c
  <2>1. CASE k <= Len(us)
    BY <1>1, <1>5, <2>1 DEF Matches
  <2>2. CASE ~(k <= Len(us))
    <3> DEFINE l == k - Len(us)
    <3>1. l \in 1..Len(vs) /\ ws[k] = vs[l] /\ r[o[k]] = q[n[l]]
      BY <1>6, <2>2
    <3> HIDE DEF l
    <3> QED BY <1>2, <3>1 DEF Matches
  <2> QED BY <2>1, <2>2
<1>9. ASSUME NEW i \in 1..Len(r), NEW a \in Accesses, Does(r[i], f, a)
      PROVE  \E k \in 1..Len(ws) : o[k] = i /\ ws[k].access = a
  <2>1. \/ i \in 1..Len(p) /\ r[i] = p[i]
        \/ i - Len(p) \in 1..Len(q) /\ Len(p) + (i - Len(p)) = i /\ r[i] = q[i - Len(p)]
    BY <1>3, <1>4 DEF Joined
  <2>2. CASE i \in 1..Len(p) /\ r[i] = p[i]
    <3>1. PICK k \in 1..Len(us) : m[k] = i /\ us[k].access = a
      <4>1. Does(p[i], f, a)
        BY <1>9, <2>2
      <4>2. \A j \in 1..Len(p), d \in Accesses : Does(p[j], f, d) => \E k \in 1..Len(us) : m[k] = j /\ us[k].access = d
        BY <1>1 DEF Matches
      <4> QED BY <2>2, <4>1, <4>2
    <3>2. k \in 1..Len(ws) /\ k <= Len(us)
      BY <1>3
    <3>3. o[k] = i /\ ws[k].access = a
      BY <1>5, <3>1, <3>2
    <3> QED BY <3>2, <3>3
  <2>3. CASE i - Len(p) \in 1..Len(q) /\ Len(p) + (i - Len(p)) = i /\ r[i] = q[i - Len(p)]
    <3>1. PICK l \in 1..Len(vs) : n[l] = i - Len(p) /\ vs[l].access = a
      <4>1. Does(q[i - Len(p)], f, a)
        BY <1>9, <2>3
      <4>2. \A j \in 1..Len(q), d \in Accesses : Does(q[j], f, d) => \E k \in 1..Len(vs) : n[k] = j /\ vs[k].access = d
        BY <1>2 DEF Matches
      <4> QED BY <2>3, <4>1, <4>2
    <3> DEFINE k == Len(us) + l
    <3>2. k \in 1..Len(ws) /\ ~(k <= Len(us)) /\ k - Len(us) = l
      BY <1>3
    <3> HIDE DEF k
    <3>3. o[k] = Len(p) + n[l] /\ ws[k] = vs[l]
      BY <1>6, <3>2
    <3> QED BY <2>3, <3>1, <3>2, <3>3
  <2> QED BY <2>1, <2>2, <2>3
<1>10. o \in [1..Len(ws) -> 1..Len(r)]
  <2>1. \A k \in 1..Len(ws) : o[k] \in 1..Len(r)
    BY <1>5, <1>6
  <2>2. o = [k \in 1..Len(ws) |-> o[k]]
    BY DEF o
  <2> QED BY <2>1, <2>2
<1>11. Matches(f, c, r, ws, o)
  BY <1>7, <1>8, <1>9 DEF Matches
<1> QED BY <1>10, <1>11 DEF Follows, r, ws

(* What two lists serve, both together do.                                 *)
LEMMA ServedJoin ==
  ASSUME NEW S, NEW f, NEW p \in Seq(S), NEW q \in Seq(S), Served(f, p), Served(f, q)
  PROVE  Served(f, p \o q)
<1> DEFINE r == p \o q
<1>1. /\ Len(p) \in Nat /\ Len(q) \in Nat
      /\ DOMAIN p = 1..Len(p) /\ DOMAIN q = 1..Len(q) /\ DOMAIN r = 1..Len(p) + Len(q)
  OBVIOUS
<1>2. Joined(r, p, q)
  BY JoinIs
<1> HIDE DEF r
<1>3. \A a \in 1..Len(p) : r[a] = p[a]
  BY <1>1, <1>2 DEF Joined
<1>4. \A b \in 1..Len(q) : r[Len(p) + b] = q[b]
  BY <1>1, <1>2 DEF Joined
<1>5. ASSUME NEW i \in DOMAIN r, Finds(f, r[i]) PROVE \E j \in 1..i - 1 : Serves(f, r, j, i)
  <2>1. CASE i \in 1..Len(p)
    <3>1. PICK j \in 1..i - 1 : Serves(f, p, j, i)
      BY <1>1, <1>3, <1>5, <2>1 DEF Served
    <3>2. j \in 1..Len(p) /\ \A k \in j + 1..i - 1 : k \in 1..Len(p)
      BY <1>1, <2>1
    <3> QED BY <1>3, <2>1, <3>1, <3>2 DEF Serves, Quiet
  <2>2. CASE i - Len(p) \in 1..Len(q) /\ Len(p) + (i - Len(p)) = i
    <3> DEFINE d == i - Len(p)
    <3>1. d \in 1..Len(q) /\ Len(p) + d = i /\ r[i] = q[d]
      BY <1>4, <2>2
    <3> HIDE DEF d
    <3>2. PICK j \in 1..d - 1 : Serves(f, q, j, d)
      BY <1>1, <1>5, <3>1 DEF Served
    <3> DEFINE e == Len(p) + j
    <3>3. j \in 1..Len(q) /\ e \in 1..i - 1 /\ r[e] = q[j]
      BY <1>1, <1>4, <3>1
    <3>4. ASSUME NEW k \in e + 1..i - 1 PROVE ~Does(r[k], f, "Make") /\ ~Does(r[k], f, "Take")
      <4> DEFINE l == k - Len(p)
      <4>1. l \in j + 1..d - 1 /\ l \in 1..Len(q) /\ Len(p) + l = k
        BY <1>1, <3>1
      <4> HIDE DEF l
      <4>2. r[k] = q[l]
        BY <1>4, <4>1
      <4> QED BY <3>2, <4>1, <4>2 DEF Serves, Quiet
    <3> HIDE DEF e
    <3>5. Serves(f, r, e, i)
      BY <3>1, <3>2, <3>3, <3>4 DEF Serves, Quiet
    <3> QED BY <3>3, <3>5
  <2>3. i \in 1..Len(p) \/ (i - Len(p) \in 1..Len(q) /\ Len(p) + (i - Len(p)) = i)
    BY <1>1
  <2> QED BY <2>1, <2>2, <2>3
<1> QED BY <1>5 DEF Served, r

States == {"unmade", "made", "taken", "refused"}
Accessed(us) == \A i \in DOMAIN us : us[i].access \in Accesses

(* What check_flow goes through.                                           *)
LEMMA TurnIs ==
  ASSUME NEW is \in States, NEW a \in Accesses
  PROVE  /\ Turn(is, a) \in States
         /\ is = "refused" => Turn(is, a) = "refused"
         /\ Turn(is, a) # "refused" /\ a # "Make" => is = "made"
         /\ Turn(is, a) = "made" => a = "Make" \/ (a # "Take" /\ is = "made")
<1>1. Turn(is, a) = IF is = "refused" \/ (a = "Make") = (is = "made") THEN "refused"
                    ELSE IF a = "Take" THEN "taken" ELSE "made"
  BY Zenon DEF Turn
<1> QED BY <1>1 DEF States, Accesses

TurnsBy(us, h) ==
  h[0] = "unmade" /\ \A i \in 1..Len(us) : h[i] = Turn(h[i - 1], us[i].access)

(* Each turn is of the one before and the use between.                     *)
LEMMA TurnsAre ==
  ASSUME NEW S, NEW us \in Seq(S), Accessed(us)
  PROVE  Turns(us) \in [0..Len(us) -> States] /\ TurnsBy(us, Turns(us))
<1> DEFINE n == Len(us)
           Body(f) == [i \in 0..Len(us) |-> IF i = 0 THEN "unmade" ELSE Turn(f[i - 1], us[i].access)]
           is == CHOOSE is : is = Body(is)
           step == [p \in Nat \X States |-> IF p[1] \in 1..n THEN Turn(p[2], us[p[1]].access) ELSE p[2]]
<1>1. n \in Nat /\ DOMAIN us = 1..n
  OBVIOUS
<1>2. Turns(us) = is
  BY DEF Turns
<1>3. step \in [Nat \X States -> States]
  <2>1. \A p \in Nat \X States : p[1] \in 1..n => Turn(p[2], us[p[1]].access) \in States
    <3> SUFFICES ASSUME NEW p \in Nat \X States, p[1] \in 1..n PROVE Turn(p[2], us[p[1]].access) \in States
      OBVIOUS
    <3>1. p[2] \in States /\ us[p[1]].access \in Accesses
      BY <1>1 DEF Accessed
    <3> QED BY <3>1, TurnIs
  <2> HIDE DEF n
  <2> QED BY <2>1
<1>4. "unmade" \in States
  BY DEF States
<1>5. PICK h \in [0..n -> States] : Recurs(h, "unmade", step, n)
  <2> HIDE DEF step, n
  <2> QED BY <1>1, <1>3, <1>4, Recursion
<1>6. \A i \in 1..n : h[i] = Turn(h[i - 1], us[i].access)
  <2> SUFFICES ASSUME NEW i \in 1..n PROVE h[i] = Turn(h[i - 1], us[i].access)
    OBVIOUS
  <2>1. h[i] = step[<<i, h[i - 1]>>]
    <3> HIDE DEF step, n
    <3> QED BY <1>5 DEF Recurs
  <2>2. i - 1 \in 0..n /\ i \in Nat
    BY <1>1
  <2>3. <<i, h[i - 1]>> \in Nat \X States
    BY <2>2
  <2>4. step[<<i, h[i - 1]>>] = Turn(h[i - 1], us[i].access)
    <3> DEFINE s == h[i - 1]
    <3>1. <<i, s>> \in Nat \X States
      BY <2>3
    <3> HIDE DEF s, n
    <3>2. step[<<i, s>>] = Turn(s, us[i].access)
      BY <3>1
    <3> HIDE DEF step
    <3> QED BY <3>2 DEF s
  <2> QED BY <2>1, <2>4
<1>7. h[0] = "unmade"
  BY <1>5 DEF Recurs
<1>8. h = Body(h)
  <2>1. \A i \in 0..Len(us) : h[i] = IF i = 0 THEN "unmade" ELSE Turn(h[i - 1], us[i].access)
    <3> SUFFICES ASSUME NEW i \in 0..Len(us) PROVE h[i] = IF i = 0 THEN "unmade" ELSE Turn(h[i - 1], us[i].access)
      OBVIOUS
    <3>1. CASE i = 0
      BY <1>7, <3>1
    <3>2. CASE i # 0
      <4>1. i \in 1..n
        BY <1>1, <3>2
      <4> QED BY <1>6, <3>2, <4>1
    <3> QED BY <3>1, <3>2
  <2>2. h = [i \in 0..Len(us) |-> h[i]]
    BY <1>5
  <2> QED BY <2>1, <2>2
<1>9. is = Body(is)
  <2> HIDE DEF Body
  <2> QED BY <1>8
<1> HIDE DEF is
<1> DEFINE T == {k \in Nat : k \in 0..n => is[k] \in States}
<1>10. is[0] = "unmade" /\ \A i \in 1..n : is[i] = Turn(is[i - 1], us[i].access)
  <2>1. \A i \in 0..Len(us) : is[i] = IF i = 0 THEN "unmade" ELSE Turn(is[i - 1], us[i].access)
    BY <1>9
  <2>2. 0 \in 0..Len(us) /\ \A i \in 1..n : i \in 0..Len(us) /\ i # 0
    BY <1>1
  <2>3. is[0] = "unmade"
    BY <2>1, <2>2
  <2>4. ASSUME NEW i \in 1..n PROVE is[i] = Turn(is[i - 1], us[i].access)
    <3>1. i \in 0..Len(us) /\ i # 0
      BY <2>2
    <3> HIDE DEF n
    <3> QED BY <2>1, <3>1
  <2> QED BY <2>3, <2>4
<1>11. Nat \subseteq T
  <2>1. 0 \in T
    BY <1>4, <1>10
  <2>2. ASSUME NEW k \in Nat, k \in T PROVE k + 1 \in T
    <3> SUFFICES ASSUME k + 1 \in 0..n PROVE is[k + 1] \in States
      OBVIOUS
    <3> DEFINE j == k + 1
    <3>1. j \in 1..n /\ j - 1 = k /\ k \in 0..n
      BY <1>1
    <3>2. is[k] \in States
      BY <2>2, <3>1
    <3> HIDE DEF j, n
    <3>3. is[j] = Turn(is[k], us[j].access)
      BY <1>10, <3>1
    <3>4. us[j].access \in Accesses
      BY <1>1, <3>1 DEF Accessed
    <3> QED BY <3>2, <3>3, <3>4, TurnIs DEF j
  <2> HIDE DEF T
  <2> QED BY <2>1, <2>2, ByInduction
<1>12. is \in [0..Len(us) -> States]
  <2>1. \A i \in 0..Len(us) : is[i] \in States
    BY <1>1, <1>11
  <2>2. is = [i \in 0..Len(us) |-> is[i]]
    <3>1. is = [i \in 0..Len(us) |-> IF i = 0 THEN "unmade" ELSE Turn(is[i - 1], us[i].access)]
      BY <1>9
    <3> QED BY <3>1
  <2> QED BY <2>1, <2>2
<1> QED BY <1>2, <1>10, <1>12 DEF TurnsBy

(* In turn, a use finds what a use before it made and none since took.     *)
LEMMA InTurnServed ==
  ASSUME NEW S, NEW us \in Seq(S), Accessed(us), FlowInTurn(us)
  PROVE  ServedUses(us)
<1> DEFINE n == Len(us)
           is == Turns(us)
           MadeAt(i) == \E j \in 1..i : UseServes(us, j, i + 1)
           T == {k \in Nat : k <= n => is[n - k] # "refused"}
           U == {k \in Nat : k \in 0..n /\ is[k] = "made" => MadeAt(k)}
<1>1. n \in Nat /\ DOMAIN us = 1..n /\ \A i \in 1..n : us[i].access \in Accesses
  BY DEF Accessed
<1>2. is \in [0..n -> States] /\ is[0] = "unmade" /\ \A i \in 1..n : is[i] = Turn(is[i - 1], us[i].access)
  BY TurnsAre DEF TurnsBy
<1>3. is[n] # "refused"
  BY DEF FlowInTurn
<1> HIDE DEF n, is
<1>4. ASSUME NEW i \in 1..n
      PROVE  /\ is[i - 1] = "refused" => is[i] = "refused"
             /\ is[i] # "refused" /\ us[i].access # "Make" => is[i - 1] = "made"
             /\ is[i] = "made" => us[i].access = "Make" \/ (us[i].access # "Take" /\ is[i - 1] = "made")
  <2>1. i - 1 \in 0..n
    BY <1>1
  <2>2. is[i - 1] \in States /\ us[i].access \in Accesses /\ is[i] = Turn(is[i - 1], us[i].access)
    BY <1>1, <1>2, <2>1
  <2> QED BY <2>2, TurnIs
<1>5. Nat \subseteq T
  <2>1. 0 \in T
    BY <1>1, <1>3
  <2>2. ASSUME NEW k \in Nat, k \in T PROVE k + 1 \in T
    <3> SUFFICES ASSUME k + 1 <= n PROVE is[n - (k + 1)] # "refused"
      OBVIOUS
    <3> DEFINE i == n - k
    <3>1. i \in 1..n /\ i - 1 = n - (k + 1) /\ k <= n
      BY <1>1
    <3>2. is[i] # "refused"
      BY <2>2, <3>1
    <3> HIDE DEF i
    <3> QED BY <1>4, <3>1, <3>2
  <2> HIDE DEF T
  <2> QED BY <2>1, <2>2, ByInduction
<1>6. ASSUME NEW i \in 0..n PROVE is[i] # "refused"
  <2> DEFINE k == n - i
  <2>1. k \in Nat /\ k <= n /\ n - k = i
    BY <1>1
  <2> HIDE DEF k
  <2>2. k \in T
    BY <1>5, <2>1
  <2> QED BY <2>1, <2>2
<1>7. Nat \subseteq U
  <2>1. 0 \in U
    BY <1>2
  <2>2. ASSUME NEW k \in Nat, k \in U PROVE k + 1 \in U
    <3> DEFINE i == k + 1
    <3> SUFFICES ASSUME i \in 0..n, is[i] = "made" PROVE MadeAt(i)
      OBVIOUS
    <3>1. i \in 1..n /\ i - 1 = k /\ k \in 0..n /\ i \in Nat
      BY <1>1
    <3>2. is[k] = "made" => MadeAt(k)
      BY <2>2, <3>1
    <3>3. \A l \in k + 1..i + 1 - 1 : l = i
      BY <3>1
    <3> HIDE DEF i
    <3>4. us[i].access = "Make" \/ (us[i].access # "Take" /\ is[k] = "made")
      BY <1>4, <3>1
    <3>5. CASE us[i].access = "Make"
      <4>1. i \in 1..i /\ \A l \in i + 1..i + 1 - 1 : FALSE
        BY <3>1
      <4>2. UseServes(us, i, i + 1)
        BY <3>5, <4>1 DEF UseServes
      <4> QED BY <4>1, <4>2
    <3>6. CASE us[i].access # "Make" /\ us[i].access # "Take" /\ is[k] = "made"
      <4>1. PICK j \in 1..k : UseServes(us, j, k + 1)
        BY <3>2, <3>6
      <4>2. j \in 1..i /\ \A l \in j + 1..i + 1 - 1 : l = i \/ l \in j + 1..k + 1 - 1
        BY <3>1
      <4>3. UseServes(us, j, i + 1)
        BY <3>6, <4>1, <4>2 DEF UseServes
      <4> QED BY <4>2, <4>3
    <3> QED BY <3>4, <3>5, <3>6
  <2> HIDE DEF U
  <2> QED BY <2>1, <2>2, ByInduction
<1>8. ASSUME NEW i \in 1..n, us[i].access # "Make" PROVE \E j \in 1..i - 1 : UseServes(us, j, i)
  <2> DEFINE k == i - 1
  <2>1. k \in Nat /\ k \in 0..n /\ k + 1 = i /\ i \in 0..n
    BY <1>1
  <2>2. is[k] = "made"
    BY <1>4, <1>6, <1>8, <2>1
  <2> HIDE DEF k, MadeAt
  <2>3. MadeAt(k)
    BY <1>7, <2>1, <2>2
  <2>4. \E j \in 1..k : UseServes(us, j, k + 1)
    BY <2>3 DEF MadeAt
  <2> QED BY <2>1, <2>4 DEF k
<1> QED BY <1>1, <1>8 DEF ServedUses

(* A system's nodes, and its use of a flow if it has one.                  *)
LEMMA NodesFollow ==
  ASSUME NEW S, NEW s \in S, NEW c \in Nat, NEW f, NEW U, s.uses \in Seq(U),
         \A i, j \in DOMAIN s.uses : i # j => s.uses[i].flow # s.uses[j].flow
  PROVE  /\ NodesOf(s, c) \in Seq(NodeIn(S)) /\ UsesIn(s, f) \in Seq(U)
         /\ Follows(f, c, NodesOf(s, c), UsesIn(s, f))
<1> DEFINE N == NodeIn(S)
           uses == s.uses
           F(i) == IF uses[i].flow = f THEN <<uses[i]>> ELSE <<>>
           ss == [i \in DOMAIN uses |-> F(i)]
           a == [system |-> s, step |-> c, apply |-> FALSE]
           b == [system |-> s, step |-> c, apply |-> TRUE]
           ns == NodesOf(s, c)
           us == UsesIn(s, f)
<1>1. /\ ns = <<a>> \o <<b>> \/ ns = <<a>> \o <<>>
      /\ a \in NodeIn(S) /\ b \in NodeIn(S)
  <2>1. ns = <<a>> \o <<b>> \/ ns = <<a>> \o <<>>
    BY Zenon DEF NodesOf
  <2>2. a \in NodeIn(S) /\ b \in NodeIn(S)
    BY DEF NodeIn
  <2> HIDE DEF ns, a, b
  <2> QED BY <2>1, <2>2
<1>2. /\ \A d : Does(a, f, d) <=> \E i \in DOMAIN uses : uses[i].flow = f /\ uses[i].access = d
      /\ \A d : ~Does(b, f, d)
      /\ a.step = c
  BY DEF Does, ToSet
<1> HIDE DEF a, b
<1>3. /\ <<a>> \o <<b>> \in Seq(N) /\ Len(<<a>> \o <<b>>) = 2 /\ (<<a>> \o <<b>>)[1] = a /\ (<<a>> \o <<b>>)[2] = b
      /\ <<a>> \o <<>> \in Seq(N) /\ Len(<<a>> \o <<>>) = 1 /\ (<<a>> \o <<>>)[1] = a
  <2>1. a \in N /\ b \in N
    BY <1>1
  <2> HIDE DEF N
  <2> QED BY <2>1
<1>t. /\ ns \in Seq(N) /\ Len(ns) \in {1, 2} /\ ns[1] = a /\ (Len(ns) = 2 => ns[2] = b)
  <2> DEFINE v == <<a>> \o <<b>>
             w == <<a>> \o <<>>
  <2>1. ns = v \/ ns = w
    BY <1>1
  <2>2. v \in Seq(N) /\ Len(v) = 2 /\ v[1] = a /\ v[2] = b /\ w \in Seq(N) /\ Len(w) = 1 /\ w[1] = a
    BY <1>3
  <2> HIDE DEF ns, v, w, N
  <2>3. CASE ns = v
    BY <2>2, <2>3
  <2>4. CASE ns = w
    BY <2>2, <2>4
  <2> QED BY <2>1, <2>3, <2>4
<1>4. /\ DOMAIN uses = 1..Len(uses) /\ Len(uses) \in Nat /\ \A i \in DOMAIN uses : uses[i] \in U
  OBVIOUS
<1>5. ASSUME NEW i \in DOMAIN uses PROVE F(i) \in Seq(U)
  <2>1. <<uses[i]>> \in Seq(U) /\ <<>> \in Seq(U)
    BY <1>4
  <2>2. F(i) = <<uses[i]>> \/ F(i) = <<>>
    BY Zenon
  <2> HIDE DEF F
  <2> QED BY <2>1, <2>2
<1>6. ss \in Seq(Seq(U)) /\ DOMAIN ss = DOMAIN uses /\ \A i \in DOMAIN ss : ss[i] = F(i)
  <2> HIDE DEF F, uses
  <2> QED BY <1>4, <1>5
<1>7. us = FlattenSeq(ss)
  BY DEF UsesIn
<1>8. us \in Seq(U)
  <2> HIDE DEF ss, us
  <2> QED BY <1>6, <1>7, FlattenedSeq
<1>9. 1 \in DOMAIN ns /\ ns[1] = a /\ DOMAIN ns = 1..Len(ns) /\ \A i \in 1..Len(ns) : i = 1 \/ ns[i] = b
  <2>1. DOMAIN ns = 1..Len(ns) /\ Len(ns) \in Nat
    BY <1>t
  <2> HIDE DEF ns, N
  <2> QED BY <1>t, <2>1
<1>10. CASE \E i \in DOMAIN uses : uses[i].flow = f
  <2>1. PICK i \in DOMAIN uses : uses[i].flow = f
    BY <1>10
  <2>2. \A j \in DOMAIN uses : uses[j].flow = f => j = i
    BY <2>1
  <2>3. F(i) = <<uses[i]>> /\ \A j \in DOMAIN uses : j # i => F(j) = <<>>
    BY <2>1, <2>2
  <2> HIDE DEF F, ss
  <2>4. us = <<uses[i]>>
    <3>1. i \in DOMAIN ss /\ ss[i] = <<uses[i]>> /\ \A j \in DOMAIN ss : j # i => ss[j] = <<>>
      BY <1>6, <2>1, <2>3
    <3>2. FlattenSeq(ss) = ss[i]
      BY <1>6, <3>1, FlattenOne
    <3> QED BY <1>7, <3>1, <3>2
  <2> DEFINE u == uses[i]
             m == [k \in 1..1 |-> 1]
  <2>5. \A d : Does(a, f, d) <=> d = u.access
    BY <1>2, <2>1, <2>2
  <2> HIDE DEF u, us, ns, uses
  <2>6. us = <<u>> /\ Len(us) = 1 /\ us[1] = u
    BY <2>4 DEF u
  <2>7. m \in [1..Len(us) -> 1..Len(ns)] /\ \A k \in 1..Len(us) : k = 1 /\ m[k] = 1
    BY <1>9, <2>6
  <2> HIDE DEF m
  <2>8. Matches(f, c, ns, us, m)
    <3>1. \A k, l \in 1..Len(us) : ~(k < l)
      BY <2>7
    <3>2. \A k \in 1..Len(us) : Does(ns[m[k]], f, us[k].access) /\ ns[m[k]].step = c
      BY <1>2, <1>9, <2>5, <2>6, <2>7
    <3>3. ASSUME NEW j \in 1..Len(ns), NEW d \in Accesses, Does(ns[j], f, d)
          PROVE  \E k \in 1..Len(us) : m[k] = j /\ us[k].access = d
      <4>1. j = 1 /\ Does(a, f, d)
        BY <1>2, <1>9, <3>3
      <4>2. d = u.access /\ 1 \in 1..Len(us) /\ m[1] = j
        BY <2>5, <2>6, <2>7, <4>1
      <4> QED BY <2>6, <4>2
    <3> QED BY <3>1, <3>2, <3>3 DEF Matches
  <2>9. Follows(f, c, ns, us)
    BY <2>7, <2>8 DEF Follows
  <2> QED BY <1>t, <1>8, <2>9 DEF ns, us
<1>11. CASE ~ \E i \in DOMAIN uses : uses[i].flow = f
  <2>1. \A i \in DOMAIN ss : ss[i] = <<>>
    BY <1>11
  <2> HIDE DEF ss, us, ns, uses
  <2>2. us = <<>>
    BY <1>6, <1>7, <2>1, FlattenNone
  <2> DEFINE m == [k \in 1..0 |-> 1]
  <2>3. m \in [1..Len(us) -> 1..Len(ns)] /\ \A k \in 1..Len(us) : FALSE
    BY <2>2
  <2> HIDE DEF m
  <2>4. \A j \in 1..Len(ns) : \A d : ~Does(ns[j], f, d)
    <3> SUFFICES ASSUME NEW j \in 1..Len(ns), NEW d PROVE ~Does(ns[j], f, d)
      OBVIOUS
    <3>1. ns[j] = a \/ ns[j] = b
      BY <1>9
    <3>2. ~Does(a, f, d) /\ ~Does(b, f, d)
      BY <1>2, <1>11
    <3> QED BY <3>1, <3>2
  <2>5. Matches(f, c, ns, us, m)
    BY <2>3, <2>4 DEF Matches
  <2>6. Follows(f, c, ns, us)
    BY <2>3, <2>5 DEF Follows
  <2> QED BY <1>t, <1>8, <2>6 DEF ns, us
<1> QED BY <1>10, <1>11

(* Nodes none of which does anything with a flow.                          *)
Idle(f, ns) == \A i \in DOMAIN ns, a \in Accesses : ~Does(ns[i], f, a)

(* Nodes follow no uses if none does anything with the flow;               *)
LEMMA FollowsNone ==
  ASSUME NEW S, NEW f, NEW c, NEW ns \in Seq(S)
  PROVE  Follows(f, c, ns, <<>>) <=> Idle(f, ns)
<1> DEFINE us == <<>>
<1>1. Len(us) = 0 /\ DOMAIN ns = 1..Len(ns)
  OBVIOUS
<1>2. ASSUME Follows(f, c, ns, us) PROVE Idle(f, ns)
  <2>1. PICK m \in [1..Len(us) -> 1..Len(ns)] : Matches(f, c, ns, us, m)
    BY <1>2 DEF Follows
  <2>2. \A i \in 1..Len(ns), a \in Accesses : Does(ns[i], f, a) => \E k \in 1..Len(us) : m[k] = i /\ us[k].access = a
    BY <2>1 DEF Matches
  <2> HIDE DEF us
  <2>3. \A k \in 1..Len(us) : FALSE
    BY <1>1
  <2> QED BY <1>1, <2>2, <2>3 DEF Idle
<1>3. ASSUME Idle(f, ns) PROVE Follows(f, c, ns, us)
  <2> DEFINE m == [k \in 1..0 |-> 1]
  <2>1. \A k \in 1..Len(us) : FALSE
    BY <1>1
  <2>2. m \in [1..Len(us) -> 1..Len(ns)]
    BY <1>1
  <2> HIDE DEF m, us
  <2>3. Matches(f, c, ns, us, m)
    BY <1>1, <1>3, <2>1 DEF Matches, Idle
  <2> QED BY <2>2, <2>3 DEF Follows
<1> QED BY <1>2, <1>3

(* then there is nothing to serve.                                         *)
LEMMA IdleServed ==
  ASSUME NEW S, NEW f, NEW ns \in Seq(S), Idle(f, ns)
  PROVE  Served(f, ns)
BY DEF Idle, Served, Finds, Accesses

(* What all the parts are, what is made of them is.                        *)
LEMMA ServedFlat ==
  ASSUME NEW S, NEW f, NEW ss \in Seq(Seq(S)), \A i \in DOMAIN ss : Served(f, ss[i])
  PROVE  Served(f, FlattenSeq(ss))
<1> DEFINE Q == {q \in Seq(S) : Served(f, q)}
<1>1. Served(f, <<>>)
  BY DEF Served
<1>2. CASE ss = <<>>
  BY <1>1, <1>2 DEF FlattenSeq
<1>3. CASE ss # <<>>
  <2>1. \A s, t \in Q : s \o t \in Q
    <3> SUFFICES ASSUME NEW s \in Q, NEW t \in Q PROVE s \o t \in Q
      OBVIOUS
    <3>1. Served(f, s \o t)
      BY ServedJoin
    <3> QED BY <3>1
  <2>2. \A i \in DOMAIN ss : ss[i] \in Q
    OBVIOUS
  <2> HIDE DEF Q
  <2>3. ss \in Seq(Q)
    BY <2>2
  <2>4. FlattenSeq(ss) \in Q
    BY <1>3, <2>1, <2>3, Flattened
  <2> QED BY <2>4 DEF Q
<1> QED BY <1>2, <1>3

(* And none that is put together of such does either.                      *)
LEMMA IdleFlat ==
  ASSUME NEW S, NEW f, NEW ss \in Seq(Seq(S)), \A i \in DOMAIN ss : Idle(f, ss[i])
  PROVE  Idle(f, FlattenSeq(ss))
<1> DEFINE q == FlattenSeq(ss)
<1>1. CASE ss = <<>>
  <2>1. q = <<>>
    BY <1>1 DEF FlattenSeq
  <2> QED BY <2>1 DEF Idle
<1>2. CASE ss # <<>>
  <2>1. Within(q, ss, Len(ss)) /\ DOMAIN ss = 1..Len(ss)
    BY <1>2, FlattenHolds
  <2> HIDE DEF q
  <2> SUFFICES ASSUME NEW a \in DOMAIN q, NEW d \in Accesses PROVE ~Does(q[a], f, d)
    BY DEF Idle, q
  <2>2. PICK j \in DOMAIN ss : \E b \in DOMAIN ss[j] : q[a] = ss[j][b]
    BY <2>1 DEF Within
  <2> QED BY <2>2 DEF Idle
<1> QED BY <1>1, <1>2

(* Systems each of which uses a flow once at most.                         *)
WellUsed(S, U) ==
  \A s \in S : s.uses \in Seq(U) /\ \A i, j \in DOMAIN s.uses : i # j => s.uses[i].flow # s.uses[j].flow
Piece(g, c) == FlattenSeq([i \in DOMAIN g.systems |-> NodesOf(g.systems[i], c)])

(* What follows what, put together.                                        *)
LEMMA FollowsFlat ==
  ASSUME NEW S, NEW U, NEW ss \in Seq(Seq(S)), NEW tt \in Seq(Seq(U)), DOMAIN ss = DOMAIN tt,
         NEW f, NEW c, \A i \in DOMAIN ss : Follows(f, c, ss[i], tt[i])
  PROVE  Follows(f, c, FlattenSeq(ss), FlattenSeq(tt))
<1> DEFINE R == {r \in Seq(S) \X Seq(U) : Follows(f, c, r[1], r[2])}
<1>1. Len(ss) = Len(tt)
  <2>1. Len(ss) \in Nat /\ Len(tt) \in Nat /\ DOMAIN ss = 1..Len(ss) /\ DOMAIN tt = 1..Len(tt)
    OBVIOUS
  <2> DEFINE n == Len(ss)
             m == Len(tt)
  <2>2. n \in Nat /\ m \in Nat /\ 1..n = 1..m
    BY <2>1
  <2> HIDE DEF n, m
  <2>3. (n \in 1..n <=> n \in 1..m) /\ (m \in 1..n <=> m \in 1..m)
    BY <2>2
  <2>4. n = m
    BY <2>2, <2>3
  <2> QED BY <2>4 DEF n, m
<1>2. CASE ss = <<>>
  <2>1. tt = <<>>
    BY <1>1, <1>2
  <2>2. FlattenSeq(ss) = <<>> /\ FlattenSeq(tt) = <<>>
    BY <1>2, <2>1 DEF FlattenSeq
  <2>3. Idle(f, <<>>)
    BY DEF Idle
  <2>4. <<>> \in Seq(S)
    OBVIOUS
  <2>5. Follows(f, c, <<>>, <<>>)
    BY <2>3, <2>4, FollowsNone
  <2> QED BY <2>2, <2>5
<1>3. CASE ss # <<>>
  <2>1. ASSUME NEW p \in R, NEW q \in R PROVE <<p[1] \o q[1], p[2] \o q[2]>> \in R
    <3>1. p[1] \in Seq(S) /\ q[1] \in Seq(S) /\ p[2] \in Seq(U) /\ q[2] \in Seq(U)
      OBVIOUS
    <3>2. Follows(f, c, p[1], p[2]) /\ Follows(f, c, q[1], q[2])
      OBVIOUS
    <3>3. Follows(f, c, p[1] \o q[1], p[2] \o q[2])
      BY <3>1, <3>2, FollowsJoin
    <3>4. p[1] \o q[1] \in Seq(S) /\ p[2] \o q[2] \in Seq(U)
      BY <3>1
    <3> DEFINE u == p[1] \o q[1]
               v == p[2] \o q[2]
    <3>5. u \in Seq(S) /\ v \in Seq(U) /\ Follows(f, c, u, v)
      BY <3>3, <3>4
    <3> HIDE DEF u, v
    <3>6. <<u, v>>[1] = u /\ <<u, v>>[2] = v /\ <<u, v>> \in Seq(S) \X Seq(U)
      BY <3>5
    <3>7. <<u, v>> \in R
      BY <3>5, <3>6
    <3> QED BY <3>7 DEF u, v
  <2>2. ASSUME NEW i \in DOMAIN ss PROVE <<ss[i], tt[i]>> \in R
    <3>1. ss[i] \in Seq(S) /\ tt[i] \in Seq(U) /\ Follows(f, c, ss[i], tt[i])
      OBVIOUS
    <3> QED BY <3>1
  <2> HIDE DEF R
  <2>3. Joins(R)
    BY <2>1 DEF Joins
  <2>4. <<FlattenSeq(ss), FlattenSeq(tt)>> \in R
    BY <1>1, <1>3, <2>2, <2>3, FlattenTogether
  <2> QED BY <2>4 DEF R
<1> QED BY <1>2, <1>3

(* A group's nodes in a step follow its uses of a flow.                    *)
LEMMA GroupFollows ==
  ASSUME NEW S, NEW U, WellUsed(S, U), NEW g, g.systems \in Seq(S), NEW c \in Nat, NEW f
  PROVE  /\ Piece(g, c) \in Seq(NodeIn(S)) /\ UsesOfGroup(g, f) \in Seq(U)
         /\ Follows(f, c, Piece(g, c), UsesOfGroup(g, f))
<1> DEFINE N == NodeIn(S)
           sys == g.systems
           One(i) == NodesOf(sys[i], c)
           Use(i) == UsesIn(sys[i], f)
           ss == [i \in DOMAIN sys |-> One(i)]
           tt == [i \in DOMAIN sys |-> Use(i)]
<1>1. DOMAIN sys = 1..Len(sys) /\ Len(sys) \in Nat /\ \A i \in DOMAIN sys : sys[i] \in S
  OBVIOUS
<1>2. ASSUME NEW i \in DOMAIN sys
      PROVE  One(i) \in Seq(N) /\ Use(i) \in Seq(U) /\ Follows(f, c, One(i), Use(i))
  <2> DEFINE s == sys[i]
  <2>1. s \in S
    BY <1>1
  <2> HIDE DEF s
  <2>2. s.uses \in Seq(U) /\ \A k, l \in DOMAIN s.uses : k # l => s.uses[k].flow # s.uses[l].flow
    BY <2>1 DEF WellUsed
  <2> QED BY <2>1, <2>2, NodesFollow DEF s
<1>3. Piece(g, c) = FlattenSeq(ss) /\ UsesOfGroup(g, f) = FlattenSeq(tt)
  BY DEF Piece, UsesOfGroup
<1> HIDE DEF One, Use, N, sys
<1>4. /\ ss \in Seq(Seq(N)) /\ tt \in Seq(Seq(U)) /\ DOMAIN ss = DOMAIN tt
      /\ \A i \in DOMAIN ss : Follows(f, c, ss[i], tt[i])
  BY <1>1, <1>2
<1> HIDE DEF ss, tt
<1>5. Follows(f, c, FlattenSeq(ss), FlattenSeq(tt))
  BY <1>4, FollowsFlat
<1> QED BY <1>3, <1>4, <1>5, FlattenedSeq DEF N

(* Steps of a group, of what is known of one.                              *)
LEMMA StepsPieces ==
  ASSUME NEW S, NEW g, g.systems \in Seq(S), NEW n \in Nat
  PROVE  LET ss == [m \in 1..n |-> Piece(g, m)]
         IN  /\ ss \in Seq(Seq(NodeIn(S))) /\ DOMAIN ss = 1..n /\ Steps(g, n) = FlattenSeq(ss)
             /\ \A m \in 1..n : ss[m] = Piece(g, m)
<1> DEFINE N == NodeIn(S)
           One(m, i) == NodesOf(g.systems[i], m)
           All(m) == [i \in DOMAIN g.systems |-> One(m, i)]
           ss == [m \in 1..n |-> Piece(g, m)]
<1>1. DOMAIN g.systems = 1..Len(g.systems) /\ Len(g.systems) \in Nat /\ \A i \in DOMAIN g.systems : g.systems[i] \in S
  OBVIOUS
<1>2. ASSUME NEW m \in 1..n, NEW i \in DOMAIN g.systems PROVE One(m, i) \in Seq(N)
  <2> DEFINE s == g.systems[i]
             a == [system |-> s, step |-> m, apply |-> FALSE]
             b == [system |-> s, step |-> m, apply |-> TRUE]
  <2>1. a \in N /\ b \in N
    BY <1>1 DEF NodeIn
  <2>2. One(m, i) = <<a>> \o <<b>> \/ One(m, i) = <<a>> \o <<>>
    BY Zenon DEF NodesOf
  <2> HIDE DEF One, a, b, N
  <2>3. <<a>> \o <<b>> \in Seq(N) /\ <<a>> \o <<>> \in Seq(N)
    BY <2>1
  <2> QED BY <2>2, <2>3
<1>3. ASSUME NEW m \in 1..n PROVE Piece(g, m) \in Seq(N)
  <2>1. Piece(g, m) = FlattenSeq(All(m))
    BY DEF Piece
  <2> HIDE DEF One, N
  <2>2. All(m) \in Seq(Seq(N))
    BY <1>1, <1>2
  <2> HIDE DEF All
  <2> QED BY <2>1, <2>2, FlattenedSeq
<1>4. ss \in Seq(Seq(N)) /\ DOMAIN ss = 1..n
  <2> HIDE DEF N
  <2> QED BY <1>3
<1>5. Steps(g, n) = FlattenSeq(ss)
  BY DEF Steps, Piece
<1> QED BY <1>4, <1>5

(* If a group's uses are served, its nodes are, however many steps it      *)
(* takes;                                                                  *)
LEMMA StepsServed ==
  ASSUME NEW S, NEW U, WellUsed(S, U), NEW g, g.systems \in Seq(S), NEW n \in Nat, NEW f,
         ServedUses(UsesOfGroup(g, f))
  PROVE  Served(f, Steps(g, n))
<1> DEFINE N == NodeIn(S)
           ss == [m \in 1..n |-> Piece(g, m)]
<1>1. /\ ss \in Seq(Seq(N)) /\ DOMAIN ss = 1..n /\ Steps(g, n) = FlattenSeq(ss)
      /\ \A m \in 1..n : ss[m] = Piece(g, m)
  BY StepsPieces
<1> HIDE DEF ss
<1>2. ASSUME NEW m \in DOMAIN ss PROVE Served(f, ss[m])
  <2>1. m \in Nat
    BY <1>1
  <2>2. /\ Piece(g, m) \in Seq(N) /\ UsesOfGroup(g, f) \in Seq(U)
        /\ Follows(f, m, Piece(g, m), UsesOfGroup(g, f))
    BY <2>1, GroupFollows
  <2>3. Served(f, Piece(g, m))
    BY <2>2, FollowsServed
  <2> QED BY <1>1, <2>3
<1>3. Served(f, FlattenSeq(ss))
  <2> HIDE DEF N
  <2> QED BY <1>1, <1>2, ServedFlat
<1> QED BY <1>1, <1>3

(* if it does not use the flow, none of them touches it;                   *)
LEMMA StepsIdle ==
  ASSUME NEW S, NEW U, WellUsed(S, U), NEW g, g.systems \in Seq(S), NEW n \in Nat, NEW f,
         UsesOfGroup(g, f) = <<>>
  PROVE  Idle(f, Steps(g, n))
<1> DEFINE N == NodeIn(S)
           ss == [m \in 1..n |-> Piece(g, m)]
<1>1. /\ ss \in Seq(Seq(N)) /\ DOMAIN ss = 1..n /\ Steps(g, n) = FlattenSeq(ss)
      /\ \A m \in 1..n : ss[m] = Piece(g, m)
  BY StepsPieces
<1> HIDE DEF ss
<1>2. ASSUME NEW m \in DOMAIN ss PROVE Idle(f, ss[m])
  <2>1. m \in Nat
    BY <1>1
  <2>2. Piece(g, m) \in Seq(N) /\ Follows(f, m, Piece(g, m), <<>>)
    BY <2>1, GroupFollows
  <2>3. Idle(f, Piece(g, m))
    BY <2>2, FollowsNone
  <2> QED BY <1>1, <2>3
<1>3. Idle(f, FlattenSeq(ss))
  <2> HIDE DEF N
  <2> QED BY <1>1, <1>2, IdleFlat
<1> QED BY <1>1, <1>3

(* and a group that runs once a frame has the nodes of one step.           *)
LEMMA StepsOnce ==
  ASSUME NEW S, NEW g, g.systems \in Seq(S)
  PROVE  Steps(g, 1) = Piece(g, 1)
<1> DEFINE N == NodeIn(S)
           n == 1
           ss == [m \in 1..n |-> Piece(g, m)]
<1>0. n \in Nat
  OBVIOUS
<1>1. /\ ss \in Seq(Seq(N)) /\ DOMAIN ss = 1..n /\ Steps(g, n) = FlattenSeq(ss)
      /\ \A m \in 1..n : ss[m] = Piece(g, m)
  <2> HIDE DEF n
  <2> QED BY <1>0, StepsPieces
<1> HIDE DEF ss, N
<1>2. 1 \in DOMAIN ss /\ ss[1] = Piece(g, 1) /\ \A i \in DOMAIN ss : i # 1 => ss[i] = <<>>
  BY <1>1
<1>3. FlattenSeq(ss) = ss[1]
  BY <1>1, <1>2, FlattenOne
<1> QED BY <1>1, <1>2, <1>3

(* Uses that only differ in more than their access.                        *)
Alike(us, vs) == DOMAIN us = DOMAIN vs /\ Len(us) = Len(vs) /\ \A i \in DOMAIN us : us[i].access = vs[i].access

(* What holds of one of two such holds of the other.                       *)
LEMMA AlikeFollows ==
  ASSUME NEW U, NEW V, NEW us \in Seq(U), NEW vs \in Seq(V), Alike(us, vs), NEW f, NEW c, NEW ns
  PROVE  /\ Follows(f, c, ns, us) => Follows(f, c, ns, vs)
         /\ ServedUses(vs) => ServedUses(us)
<1>1. DOMAIN us = 1..Len(us) /\ Len(us) \in Nat /\ Len(vs) = Len(us) /\ DOMAIN vs = DOMAIN us
  BY DEF Alike
<1>2. \A i \in 1..Len(us) : us[i].access = vs[i].access
  BY <1>1 DEF Alike
<1>3. ASSUME Follows(f, c, ns, us) PROVE Follows(f, c, ns, vs)
  <2>1. PICK m \in [1..Len(us) -> 1..Len(ns)] : Matches(f, c, ns, us, m)
    BY <1>3 DEF Follows
  <2>2. \A i \in 1..Len(ns), a \in Accesses : Does(ns[i], f, a) => \E k \in 1..Len(us) : m[k] = i /\ us[k].access = a
    BY <2>1 DEF Matches
  <2>3. \A i \in 1..Len(ns), a \in Accesses : Does(ns[i], f, a) => \E k \in 1..Len(vs) : m[k] = i /\ vs[k].access = a
    BY <1>1, <1>2, <2>2
  <2>4. Matches(f, c, ns, vs, m)
    BY <1>1, <1>2, <2>1, <2>3 DEF Matches
  <2>5. m \in [1..Len(vs) -> 1..Len(ns)]
    BY <1>1
  <2> QED BY <2>4, <2>5 DEF Follows
<1>4. ASSUME ServedUses(vs) PROVE ServedUses(us)
  <2> SUFFICES ASSUME NEW i \in DOMAIN us, us[i].access # "Make"
               PROVE  \E j \in 1..i - 1 : UseServes(us, j, i)
    BY DEF ServedUses
  <2>1. i \in DOMAIN vs /\ vs[i].access # "Make"
    BY <1>1, <1>2
  <2>2. PICK j \in 1..i - 1 : UseServes(vs, j, i)
    BY <1>4, <2>1 DEF ServedUses
  <2>3. j \in 1..Len(us) /\ \A k \in j + 1..i - 1 : k \in 1..Len(us)
    BY <1>1
  <2>4. UseServes(us, j, i)
    BY <1>2, <2>2, <2>3 DEF UseServes
  <2> QED BY <2>4
<1> QED BY <1>3, <1>4

Label(g) == IF g.hz = 0 THEN <<>> ELSE <<g.name>>
Labelled(u, g) == [access |-> u.access, ty |-> u.ty, group |-> Label(g)]

(* Uses, told apart by their group, are otherwise as they were.            *)
LEMMA GroupedIs ==
  ASSUME NEW U, NEW us \in Seq(U), NEW g
  PROVE  /\ Grouped(us, g) \in Seq({Labelled(u, g) : u \in U}) /\ Alike(us, Grouped(us, g)) /\ Alike(Grouped(us, g), us)
         /\ \A i \in DOMAIN us : Grouped(us, g)[i].group = Label(g)
<1> DEFINE V == {Labelled(u, g) : u \in U}
           W(i) == [access |-> us[i].access, ty |-> us[i].ty, group |-> Label(g)]
           vs == [i \in DOMAIN us |-> W(i)]
<1>1. Grouped(us, g) = vs
  BY DEF Grouped, Label
<1>2. DOMAIN us = 1..Len(us) /\ Len(us) \in Nat
  OBVIOUS
<1>3. ASSUME NEW i \in DOMAIN us PROVE W(i) \in V /\ W(i).access = us[i].access /\ W(i).group = Label(g)
  <2>1. us[i] \in U /\ W(i) = Labelled(us[i], g)
    BY DEF Labelled
  <2>2. W(i) \in V
    BY <2>1
  <2> QED BY <2>2
<1> HIDE DEF V, W
<1>4. vs \in Seq(V) /\ DOMAIN vs = DOMAIN us /\ Len(vs) = Len(us) /\ \A i \in DOMAIN us : vs[i] = W(i)
  BY <1>2, <1>3
<1> HIDE DEF vs
<1>5. Alike(us, vs) /\ Alike(vs, us)
  BY <1>3, <1>4 DEF Alike
<1>6. \A i \in DOMAIN us : vs[i].group = Label(g)
  BY <1>3, <1>4
<1> QED BY <1>1, <1>4, <1>5, <1>6 DEF V

(* Groups apart whose uses of a flow are in turn serve it, whatever steps  *)
(* those that have a rate take.                                            *)
Apiece(groups, times) == FlattenSeq([k \in DOMAIN groups |-> Steps(groups[k], times[k])])

(* Groups that are apart serve a flow that is used in turn (check_flows),  *)
(* whatever steps those take that have a rate: if one of them uses it, no  *)
(* other does; and those that have none take the same step.                *)
LEMMA GroupsServe ==
  ASSUME NEW S, NEW U, WellUsed(S, U), \A u \in U : u.access \in Accesses,
         NEW G, NEW groups \in Seq(G), NamesApart(groups), \A g \in G : g.systems \in Seq(S),
         NEW times \in [DOMAIN groups -> Nat], \A k \in DOMAIN groups : groups[k].hz = 0 => times[k] = 1,
         NEW f, FlowInTurn(UsesOf(groups, f))
  PROVE  Served(f, Apiece(groups, times))
<1> DEFINE N == NodeIn(S)
           V == UNION {{Labelled(u, g) : u \in U} : g \in G}
           St(k) == Steps(groups[k], times[k])
           Us(k) == UsesOfGroup(groups[k], f)
           Gs(k) == Grouped(Us(k), groups[k])
           ss == [k \in DOMAIN groups |-> St(k)]
           tt == [k \in DOMAIN groups |-> Gs(k)]
           uses == UsesOf(groups, f)
<1>1. DOMAIN groups = 1..Len(groups) /\ Len(groups) \in Nat
  OBVIOUS
<1>2. ASSUME NEW k \in DOMAIN groups
      PROVE  /\ groups[k] \in G /\ groups[k].systems \in Seq(S) /\ times[k] \in Nat
             /\ Us(k) \in Seq(U) /\ St(k) \in Seq(N)
  <2> DEFINE g == groups[k]
  <2>1. g \in G /\ g.systems \in Seq(S) /\ times[k] \in Nat
    OBVIOUS
  <2> HIDE DEF g
  <2>2. UsesOfGroup(g, f) \in Seq(U)
    <3>1. 1 \in Nat
      OBVIOUS
    <3> QED BY <2>1, <3>1, GroupFollows
  <2>3. Steps(g, times[k]) \in Seq(N)
    BY <2>1, StepsAre
  <2> QED BY <2>1, <2>2, <2>3 DEF g
<1>3. ASSUME NEW k \in DOMAIN groups
      PROVE  /\ Gs(k) \in Seq(V) /\ Alike(Us(k), Gs(k)) /\ Alike(Gs(k), Us(k))
             /\ \A i \in DOMAIN Us(k) : Gs(k)[i].group = Label(groups[k])
  <2> DEFINE g == groups[k]
             us == Us(k)
             T == {Labelled(u, g) : u \in U}
  <2>1. g \in G /\ us \in Seq(U)
    BY <1>2
  <2>a. T \subseteq V
    BY <2>1, Zenon
  <2> HIDE DEF us, g
  <2>2. /\ Grouped(us, g) \in Seq(T) /\ Alike(us, Grouped(us, g)) /\ Alike(Grouped(us, g), us)
        /\ \A i \in DOMAIN us : Grouped(us, g)[i].group = Label(g)
    BY <2>1, GroupedIs
  <2> DEFINE gs == Grouped(us, g)
  <2> HIDE DEF T, V, gs
  <2>3. gs \in Seq(V)
    <3>1. gs \in Seq(T)
      BY <2>2 DEF gs
    <3> QED BY <2>a, <3>1
  <2> QED BY <2>2, <2>3 DEF us, g, gs
<1>4. uses = FlattenSeq(tt) /\ Apiece(groups, times) = FlattenSeq(ss)
  BY DEF UsesOf, Apiece
<1> HIDE DEF N, V, St, Us, Gs, uses
<1>5. /\ ss \in Seq(Seq(N)) /\ tt \in Seq(Seq(V)) /\ DOMAIN ss = DOMAIN groups /\ DOMAIN tt = DOMAIN groups
      /\ \A k \in DOMAIN groups : ss[k] = St(k) /\ tt[k] = Gs(k)
  BY <1>1, <1>2, <1>3
<1>6. uses \in Seq(V)
  <2> HIDE DEF tt
  <2> QED BY <1>4, <1>5, FlattenedSeq
<1> HIDE DEF ss, tt
<1>7. ServedUses(uses)
  <2>1. \A v \in V : v.access \in Accesses
    BY DEF V, Labelled
  <2>2. Accessed(uses)
    BY <1>6, <2>1 DEF Accessed
  <2>3. FlowInTurn(uses)
    BY DEF uses
  <2> QED BY <1>6, <2>2, <2>3, InTurnServed
<1>8. \A i, j \in DOMAIN uses : uses[i].group = uses[j].group
  <2>1. \A i \in DOMAIN uses : uses[i].group = uses[1].group
    BY DEF FlowInTurn, uses
  <2> QED BY <2>1
<1>9. SUFFICES Served(f, FlattenSeq(ss))
  BY <1>4
<1>10. CASE \A k \in DOMAIN groups : ServedUses(Us(k))
  <2>1. ASSUME NEW k \in DOMAIN ss PROVE Served(f, ss[k])
    <3> DEFINE g == groups[k]
    <3>1. k \in DOMAIN groups /\ g.systems \in Seq(S) /\ times[k] \in Nat
      BY <1>2, <1>5
    <3>2. ServedUses(UsesOfGroup(g, f))
      BY <1>10, <3>1 DEF Us
    <3> HIDE DEF g
    <3>3. Served(f, Steps(g, times[k]))
      BY <3>1, <3>2, StepsServed
    <3> QED BY <1>5, <3>1, <3>3 DEF g, St
  <2> QED BY <1>5, <2>1, ServedFlat
<1>11. CASE \E k \in DOMAIN groups : ~ServedUses(Us(k))
  <2>1. PICK k \in DOMAIN groups : ~ServedUses(Us(k))
    BY <1>11
  <2>2. Us(k) \in Seq(U) /\ Gs(k) \in Seq(V) /\ Alike(Us(k), Gs(k))
    BY <1>2, <1>3
  <2>3. ~ServedUses(Gs(k))
    BY <2>1, <2>2, AlikeFollows
  <2>4. Us(k) # <<>>
    BY <2>1 DEF ServedUses
  <2>5. ASSUME NEW j \in DOMAIN groups, Us(j) # <<>> PROVE Label(groups[j]) = Label(groups[k])
    <3>1. ASSUME NEW i \in DOMAIN groups, Us(i) # <<>>
          PROVE  \E a \in DOMAIN uses : uses[a].group = Label(groups[i])
      <4>1. Us(i) \in Seq(U)
        BY <1>2
      <4>2. 1 \in DOMAIN Us(i)
        BY <3>1, <4>1
      <4>3. 1 \in DOMAIN Gs(i) /\ Gs(i)[1].group = Label(groups[i])
        BY <1>3, <4>2 DEF Alike
      <4>4. tt # <<>>
        BY <1>5
      <4>5. Covers(uses, tt, Len(tt)) /\ DOMAIN tt = 1..Len(tt)
        <5>1. Covers(FlattenSeq(tt), tt, Len(tt)) /\ DOMAIN tt = 1..Len(tt)
          BY <1>5, <4>4, FlattenHolds
        <5> QED BY <1>4, <5>1
      <4>6. i \in 1..Len(tt) /\ tt[i] = Gs(i)
        BY <1>5, <4>5
      <4>7. \E a \in DOMAIN uses : uses[a] = tt[i][1]
        BY <4>3, <4>5, <4>6 DEF Covers
      <4> QED BY <4>3, <4>6, <4>7
    <3>2. PICK a \in DOMAIN uses : uses[a].group = Label(groups[j])
      BY <2>5, <3>1
    <3>3. PICK b \in DOMAIN uses : uses[b].group = Label(groups[k])
      BY <2>4, <3>1
    <3> QED BY <1>8, <3>2, <3>3
  <2>6. groups[k].hz = 0
    <3> SUFFICES ASSUME groups[k].hz # 0 PROVE FALSE
      OBVIOUS
    <3>1. ASSUME NEW j \in DOMAIN groups, Us(j) # <<>> PROVE j = k
      <4>1. Label(groups[j]) = Label(groups[k])
        BY <2>5, <3>1
      <4>2. groups[j].name = groups[k].name
        <5>1. Label(groups[k]) = <<groups[k].name>>
          BY DEF Label
        <5>2. Label(groups[j]) = <<groups[j].name>> \/ Label(groups[j]) = <<>>
          BY DEF Label
        <5> QED BY <4>1, <5>1, <5>2
      <4> QED BY <4>2 DEF NamesApart
    <3>2. ASSUME NEW j \in DOMAIN tt, j # k PROVE tt[j] = <<>>
      <4>1. j \in DOMAIN groups /\ Us(j) = <<>>
        BY <1>5, <3>1, <3>2
      <4>2. Gs(j) \in Seq(V) /\ Len(Gs(j)) = 0
        BY <1>3, <4>1 DEF Alike
      <4>3. Gs(j) = <<>>
        BY <4>2
      <4> QED BY <1>5, <4>1, <4>3
    <3>3. FlattenSeq(tt) = tt[k]
      BY <1>5, <3>2, FlattenOne
    <3>4. uses = Gs(k)
      BY <1>4, <1>5, <3>3
    <3> QED BY <1>7, <2>3, <3>4
  <2>7. ASSUME NEW j \in DOMAIN groups PROVE Follows(f, 1, ss[j], tt[j])
    <3> DEFINE g == groups[j]
    <3>1. /\ g.systems \in Seq(S) /\ times[j] \in Nat /\ Us(j) \in Seq(U) /\ St(j) \in Seq(N)
          /\ Gs(j) \in Seq(V) /\ Alike(Us(j), Gs(j))
      BY <1>2, <1>3
    <3>2. St(j) = Steps(g, times[j]) /\ Us(j) = UsesOfGroup(g, f)
      BY DEF St, Us
    <3>3. CASE Us(j) = <<>>
      <4>1. Gs(j) = <<>>
        <5>1. Len(Gs(j)) = 0
          BY <3>1, <3>3 DEF Alike
        <5> QED BY <3>1, <5>1
      <4> HIDE DEF g
      <4>2. Idle(f, St(j))
        BY <3>1, <3>2, <3>3, StepsIdle
      <4>3. Follows(f, 1, St(j), <<>>)
        BY <3>1, <4>2, FollowsNone
      <4> QED BY <1>5, <4>1, <4>3
    <3>4. CASE Us(j) # <<>>
      <4>1. g.hz = 0
        <5>1. Label(groups[j]) = Label(groups[k])
          BY <2>5, <3>4
        <5>2. Label(groups[k]) = <<>>
          BY <2>6 DEF Label
        <5>3. <<groups[j].name>> # <<>>
          OBVIOUS
        <5>4. g.hz # 0 => Label(groups[j]) = <<groups[j].name>>
          BY DEF Label
        <5> QED BY <5>1, <5>2, <5>3, <5>4
      <4>2. times[j] = 1
        BY <4>1
      <4> HIDE DEF g
      <4>3. St(j) = Piece(g, 1)
        BY <3>1, <3>2, <4>2, StepsOnce
      <4>4. 1 \in Nat
        OBVIOUS
      <4>5. Follows(f, 1, Piece(g, 1), UsesOfGroup(g, f))
        BY <3>1, <4>4, GroupFollows
      <4>6. Follows(f, 1, St(j), Us(j))
        BY <3>2, <4>3, <4>5
      <4>7. Follows(f, 1, St(j), Gs(j))
        BY <3>1, <4>6, AlikeFollows
      <4> QED BY <1>5, <4>7
    <3> QED BY <3>3, <3>4
  <2>8. Follows(f, 1, FlattenSeq(ss), FlattenSeq(tt))
    BY <1>5, <2>7, FollowsFlat
  <2>9. FlattenSeq(ss) \in Seq(N)
    BY <1>5, FlattenedSeq
  <2>10. Follows(f, 1, FlattenSeq(ss), uses)
    BY <1>4, <2>8
  <2> QED BY <1>6, <1>7, <2>9, <2>10, FollowsServed
<1> QED BY <1>10, <1>11

UsesAmong(S) == UNION {ToSet(s.uses) : s \in S}

(* Systems that are planned use a flow once, as check_conflicts has it,    *)
(* and only flows that check_flows is given.                               *)
LEMMA DeclaredUses ==
  ASSUME NEW decls \in Seq(Builds)
  PROVE  /\ WellUsed(SystemsOf(decls), UsesAmong(SystemsOf(decls)))
         /\ \A u \in UsesAmong(SystemsOf(decls)) : u.access \in Accesses
         /\ \A s \in SystemsOf(decls) : \A u \in ToSet(s.uses) : u.flow \in FlowsOf(Declared(decls))
<1> DEFINE S == SystemsOf(decls)
           U == UsesAmong(S)
<1>1. ASSUME NEW s \in S
      PROVE  /\ s.uses \in Seq(U) /\ \A u \in ToSet(s.uses) : u.access \in Accesses
             /\ \A i, j \in DOMAIN s.uses : i # j => s.uses[i].flow # s.uses[j].flow
  <2>1. PICK i \in DOMAIN decls : OfBuild(s, decls[i])
    BY OwnedIs
  <2>2. /\ IsSeq(s.uses) /\ \A u \in ToSet(s.uses) : u.access \in Accesses
        /\ \A k, j \in DOMAIN s.uses : k # j => s.uses[k].flow # s.uses[j].flow
    BY <2>1 DEF OfBuild
  <2>3. ToSet(s.uses) \subseteq U
    BY Zenon DEF UsesAmong
  <2>4. s.uses \in Seq(ToSet(s.uses))
    BY <2>2 DEF IsSeq
  <2> DEFINE q == s.uses
             T == ToSet(s.uses)
  <2>5. q \in Seq(T) /\ T \subseteq U
    BY <2>3, <2>4
  <2> HIDE DEF q, T, U
  <2>6. q \in Seq(U)
    BY <2>5
  <2> QED BY <2>2, <2>6 DEF q
<1>2. ASSUME NEW u \in U PROVE u.access \in Accesses
  <2>1. PICK s \in S : u \in ToSet(s.uses)
    BY Zenon DEF UsesAmong
  <2> QED BY <1>1, <2>1
<1>3. ASSUME NEW s \in S, NEW u \in ToSet(s.uses) PROVE u.flow \in FlowsOf(Declared(decls))
  <2> DEFINE list == Declared(decls)
  <2>1. PICK i \in DOMAIN list : list[i] = s
    BY DEF SystemsOf, ToSet
  <2> HIDE DEF list
  <2>2. u.flow \in {v.flow : v \in ToSet(list[i].uses)}
    BY <1>3, <2>1
  <2>3. u.flow \in FlowsOf(list)
    BY <2>1, <2>2 DEF FlowsOf
  <2> QED BY <2>3 DEF list
<1> QED BY <1>1, <1>2, <1>3 DEF WellUsed

(* A frame's nodes are of its groups' systems.                             *)
LEMMA ApieceAre ==
  ASSUME NEW S, NEW groups, NEW n \in Nat, DOMAIN groups = 1..n,
         \A k \in DOMAIN groups : groups[k].systems \in Seq(S),
         NEW times \in [DOMAIN groups -> Nat]
  PROVE  Apiece(groups, times) \in Seq(NodeIn(S))
<1> DEFINE N == NodeIn(S)
           St(k) == Steps(groups[k], times[k])
           ss == [k \in DOMAIN groups |-> St(k)]
<1>1. ASSUME NEW k \in DOMAIN groups PROVE St(k) \in Seq(N)
  <2> DEFINE g == groups[k]
  <2>1. g.systems \in Seq(S) /\ times[k] \in Nat
    OBVIOUS
  <2> HIDE DEF g
  <2>2. Steps(g, times[k]) \in Seq(N)
    BY <2>1, StepsAre
  <2> QED BY <2>2 DEF g
<1>2. Apiece(groups, times) = FlattenSeq(ss)
  BY DEF Apiece
<1> HIDE DEF N, St
<1>3. ss \in Seq(Seq(N))
  BY <1>1
<1> HIDE DEF ss
<1>4. FlattenSeq(ss) \in Seq(N)
  BY <1>3, FlattenedSeq
<1> QED BY <1>2, <1>4 DEF N

(* So a plan that check_flows lets pass serves every flow, whatever number *)
(* of steps its groups take of the time that has come up (Engine::steps).  *)
THEOREM PlanServes ==
  ASSUME NEW decls \in Seq(Builds), NEW times \in [DOMAIN Plan(decls).groups -> Nat],
         \A k \in DOMAIN Plan(decls).groups : Plan(decls).groups[k].hz = 0 => times[k] = 1, NEW f
  PROVE  Served(f, Apiece(Plan(decls).groups, times))
<1> DEFINE S == SystemsOf(decls)
           U == UsesAmong(S)
           G == Group(decls)
           groups == Plan(decls).groups
           flows == FlowsOf(Declared(decls))
           planned == Ordered(decls)
<1>1. groups \in Seq(G) /\ NamesApart(groups)
  BY PlanIs, PlanApart
<1>2. \A g \in G : g.systems \in Seq(S)
  BY DEF Group
<1>3. /\ WellUsed(S, U) /\ \A u \in U : u.access \in Accesses
      /\ \A s \in S : \A u \in ToSet(s.uses) : u.flow \in flows
  BY DeclaredUses
<1>4. (FlowsInTurn(planned.groups, flows) /\ groups = planned.groups) \/ groups = <<>>
  <2>1. Plan(decls) = IF FlowsInTurn(planned.groups, flows) THEN planned ELSE NoPlan
    BY Zenon DEF Plan, CheckFlows
  <2>2. NoPlan.groups = <<>>
    BY DEF NoPlan
  <2> HIDE DEF planned, flows
  <2> QED BY <2>1, <2>2
<1> HIDE DEF S, U, G, groups, flows, planned
<1>5. CASE f \in flows /\ FlowsInTurn(planned.groups, flows) /\ groups = planned.groups
  <2>1. FlowInTurn(UsesOf(groups, f))
    BY <1>5 DEF FlowsInTurn
  <2>2. times \in [DOMAIN groups -> Nat] /\ \A k \in DOMAIN groups : groups[k].hz = 0 => times[k] = 1
    BY DEF groups
  <2>3. Served(f, Apiece(groups, times))
    BY <1>1, <1>2, <1>3, <2>1, <2>2, GroupsServe
  <2> QED BY <2>3 DEF groups
<1>6. CASE groups = <<>>
  <2>1. Apiece(groups, times) = <<>>
    BY <1>6 DEF Apiece, FlattenSeq
  <2>2. Served(f, Apiece(groups, times))
    BY <2>1 DEF Served
  <2> QED BY <2>2 DEF groups
<1>7. CASE f \notin flows
  <2> DEFINE q == Apiece(groups, times)
  <2>1. q \in Seq(NodeIn(S))
    <3>1. DOMAIN groups = 1..Len(groups) /\ Len(groups) \in Nat /\ \A k \in DOMAIN groups : groups[k].systems \in Seq(S)
      BY <1>1, <1>2
    <3>2. times \in [DOMAIN groups -> Nat]
      BY DEF groups
    <3> DEFINE n == Len(groups)
    <3>3. n \in Nat /\ DOMAIN groups = 1..n
      BY <3>1
    <3> HIDE DEF n
    <3> QED BY <3>1, <3>2, <3>3, ApieceAre
  <2> HIDE DEF q
  <2>2. ASSUME NEW i \in DOMAIN q, NEW a PROVE ~Does(q[i], f, a)
    <3>a. \A x \in NodeIn(S) : x.system \in S
      BY DEF NodeIn
    <3>b. q[i] \in NodeIn(S)
      BY <2>1
    <3>1. q[i].system \in S
      BY <3>a, <3>b
    <3> QED BY <1>3, <1>7, <3>1 DEF Does
  <2>3. Served(f, q)
    BY <2>2 DEF Served, Finds
  <2> QED BY <2>3 DEF q, groups
<1> QED BY <1>4, <1>5, <1>6, <1>7

-----------------------------------------------------------------------------
(* What a system's uses leave in a flow.                                   *)
LEMMA UsesOnce ==
  ASSUME NEW s, NEW b, OfBuild(s, b)
  PROVE  /\ \A u, v \in ToSet(s.uses) : u.flow = v.flow => u = v
         /\ \A u \in ToSet(s.uses) : u.access \in Accesses /\ u.flow \in FlowNames
<1>1. \A i, j \in DOMAIN s.uses : i # j => s.uses[i].flow # s.uses[j].flow
  BY DEF OfBuild
<1>2. \A u \in ToSet(s.uses) : \E i \in DOMAIN s.uses : u = s.uses[i]
  BY DEF ToSet
<1>3. \A u \in ToSet(s.uses) : u.access \in Accesses /\ u.flow \in FlowNames
  BY DEF OfBuild
<1>4. ASSUME NEW u \in ToSet(s.uses), NEW v \in ToSet(s.uses), u.flow = v.flow PROVE u = v
  <2>1. PICK i \in DOMAIN s.uses : u = s.uses[i]
    BY <1>2
  <2>2. PICK j \in DOMAIN s.uses : v = s.uses[j]
    BY <1>2
  <2>3. i = j
    BY <1>1, <1>4, <2>1, <2>2
  <2> QED BY <2>1, <2>2, <2>3
<1> QED BY <1>3, <1>4

(* What is made is of now; what is seen or passed stays of when it was     *)
(* made.                                                                   *)
LEMMA UseMade ==
  ASSUME SlotsOk, NEW s, NEW b, OfBuild(s, b), NEW now \in Nat \X Nat, NEW build \in Nat \ {0}, NEW kept,
         UseFlows(s.uses, now, build, kept), NEW f \in FlowNames
  PROVE  /\ (\A u \in ToSet(s.uses) : u.flow # f) => slots'[f] = slots[f]
         /\ \A u \in ToSet(s.uses) :
              u.flow = f => /\ u.access \in {"See", "Pass"} => slots'[f].value.made = slots[f].value.made
                            /\ u.access = "Make" /\ AllFound(s.uses) => slots'[f].value.made = now
<1> DEFINE Of(g) == CHOOSE u \in Fetched(s.uses) : u.flow = g
           New(g) == IF \E u \in Fetched(s.uses) : u.flow = g
                     THEN Used(slots[g], Of(g).access, now, build, kept) ELSE slots[g]
           old == slots[f]
<1>1. slots' = [g \in FlowNames |-> New(g)]
  BY DEF UseFlows
<1>2. slots'[f] = New(f)
  <2> HIDE DEF New
  <2> QED BY <1>1
<1>3. \A u \in Fetched(s.uses) : u \in ToSet(s.uses) /\ Found(slots[u.flow], u.access)
  <2> SUFFICES ASSUME NEW u \in Fetched(s.uses) PROVE u \in ToSet(s.uses) /\ Found(slots[u.flow], u.access)
    OBVIOUS
  <2>1. PICK i \in DOMAIN s.uses : u = s.uses[i] /\ \A j \in 1..i : FoundAt(s.uses, j)
    BY DEF Fetched
  <2>2. i \in 1..i
    BY DEF OfBuild, IsSeq
  <2> QED BY <2>1, <2>2 DEF FoundAt, ToSet
<1>4. SlotOk(old)
  BY SlotsAre
<1>5. CASE ~ \E u \in Fetched(s.uses) : u.flow = f
  <2>1. slots'[f] = old
    BY <1>2, <1>5
  <2>2. ASSUME NEW u \in ToSet(s.uses), u.flow = f, AllFound(s.uses) PROVE FALSE
    <3>1. PICK i \in DOMAIN s.uses : u = s.uses[i]
      BY DEF ToSet
    <3>2. \A j \in 1..i : j \in DOMAIN s.uses
      BY DEF OfBuild, IsSeq
    <3>3. u \in Fetched(s.uses)
      BY <2>2, <3>1, <3>2 DEF Fetched, AllFound
    <3> QED BY <1>5, <2>2, <3>3
  <2> QED BY <2>1, <2>2
<1>6. CASE \E u \in Fetched(s.uses) : u.flow = f
  <2> DEFINE v == Of(f)
  <2>1. v \in Fetched(s.uses) /\ v.flow = f
    BY <1>6
  <2>2. New(f) = Used(old, v.access, now, build, kept)
    BY <1>6
  <2> HIDE DEF Of, New, v, old
  <2>3. v \in ToSet(s.uses) /\ Found(old, v.access)
    BY <1>3, <2>1 DEF old
  <2>4. \A u \in ToSet(s.uses) : u.flow = f => u = v
    BY <2>1, <2>3, UsesOnce
  <2>5. old = [value |-> old.value, bin |-> old.bin, keepalives |-> old.keepalives]
        /\ old.value \in Value \union {NoValue}
    BY <1>4 DEF SlotOk, Slot
  <2>6. v.access = "See" => New(f) = old
    BY <2>2 DEF Used
  <2>7. v.access = "Make" => New(f).value.made = now
    <3> SUFFICES ASSUME v.access = "Make" PROVE New(f).value.made = now
      OBVIOUS
    <3> DEFINE c == IF old.value = NoValue THEN NoValue ELSE old.bin
    <3>1. New(f) = [old EXCEPT !.value = [made |-> now, by |-> build], !.bin = c]
      BY <2>2 DEF Used
    <3> HIDE DEF c
    <3>2. New(f).value = [made |-> now, by |-> build]
      BY <2>5, <3>1
    <3> QED BY <3>2
  <2>8. v.access = "Pass" => New(f).value.made = old.value.made
    <3> SUFFICES ASSUME v.access = "Pass" PROVE New(f).value.made = old.value.made
      OBVIOUS
    <3>1. old.value \in Value
      BY <2>3, <2>5 DEF Found
    <3>2. New(f) = [old EXCEPT !.value.by = build]
      BY <2>2 DEF Used
    <3>3. old.value = [made |-> old.value.made, by |-> old.value.by]
      BY <3>1 DEF Value
    <3> QED BY <2>5, <3>2, <3>3
  <2> QED BY <1>2, <2>1, <2>3, <2>4, <2>6, <2>7, <2>8 DEF old
<1> QED BY <1>5, <1>6

(* Who makes a flow, and that the build of one who does is loaded.         *)
LEMMA MakerIs ==
  ASSUME FrameInv, Open, at <= Len(nodes), NEW f, Does(Node, f, "Make")
  PROVE  Node.system.mod \in MadeBy(f)
<1> DEFINE s == Node.system
           decls == Decls(mods)
<1>1. ModsInv(mods, loads)
  BY FrameHolds
<1>2. s \in SystemsOf(decls) /\ s.mod \in ModNames
  BY NodeIs
<1>3. decls \in Seq(Builds) /\ DOMAIN decls = DOMAIN mods /\ \A i \in DOMAIN mods : decls[i] = mods[i].build
  <2>1. \A x \in Mod : x.build \in Builds
    BY DEF Mod
  <2> QED BY <1>1, <2>1 DEF ModsInv, Decls
<1>4. \E u \in ToSet(s.uses) : u.flow = f /\ u.access = "Make"
  BY DEF Does
<1> HIDE DEF s, decls
<1>5. PICK i \in DOMAIN decls : OfBuild(s, decls[i])
  BY <1>2, <1>3, OwnedIs
<1>6. /\ i \in DOMAIN mods /\ mods[i].build.name = s.mod
      /\ \E j \in DOMAIN mods[i].build.systems : s.uses = mods[i].build.systems[j].uses
  BY <1>3, <1>5 DEF OfBuild
<1>7. i \in Loaded(s.mod)
  BY <1>6 DEF Loaded
<1>8. s.mod \in MadeBy(f)
  BY <1>2, <1>4, <1>6, <1>7 DEF MadeBy
<1> QED BY <1>8 DEF s

(* A failure does not change who makes a flow.                             *)
LEMMA SameMakers ==
  ASSUME Decls(mods)' = Decls(mods), NEW f
  PROVE  MadeBy(f)' = MadeBy(f)
<1>1. DOMAIN mods' = DOMAIN mods /\ \A i \in DOMAIN mods : mods'[i].build = mods[i].build
  <2>1. DOMAIN Decls(mods) = DOMAIN mods /\ \A i \in DOMAIN mods : Decls(mods)[i] = mods[i].build
    BY DEF Decls
  <2>2. DOMAIN Decls(mods)' = DOMAIN mods' /\ \A i \in DOMAIN mods' : Decls(mods)'[i] = mods'[i].build
    BY DEF Decls
  <2> QED BY <2>1, <2>2
<1>2. \A m : Loaded(m)' = Loaded(m) /\ Loaded(m) \subseteq DOMAIN mods
  BY <1>1 DEF Loaded
<1>3. \A m : \A i \in Loaded(m) : mods'[i].build = mods[i].build
  BY <1>1, <1>2
<1> QED BY <1>2, <1>3 DEF MadeBy

(* Of an open frame: its nodes serve every flow; and once one that makes a *)
(* flow has run, and none since that makes or takes it, the flow holds a   *)
(* value of that one's step, or a mod that makes it is out.                *)
MakerOut(f) == out \intersect MadeBy(f) # {}
Fresh(f) ==
  \A j \in 1..at - 1 :
    Does(nodes[j], f, "Make") /\ Quiet(f, nodes, j, at) =>
      MakerOut(f) \/ slots[f].value.made = <<frame, nodes[j].step>>
FlowInv == plan = Plan(Decls(mods)) /\ \A f \in FlowNames : Served(f, nodes) /\ Fresh(f)

(* What the node that runs next does to a flow.                            *)
Keeps(f) == ~Does(Node, f, "Make") /\ slots'[f].value.made = slots[f].value.made
Takes(f) == ~Does(Node, f, "Make") /\ Does(Node, f, "Take")
Makes(f) == Does(Node, f, "Make") /\ slots'[f].value.made = <<frame, Node.step>>

(* A node that makes the flow, takes it, leaves it as it is, or fails,     *)
(* keeps the invariant.                                                    *)
LEMMA NodeRuns ==
  ASSUME FrameInv, FlowInv, Open, at <= Len(nodes), at' = at + 1, nodes' = nodes, plan' = plan,
         Decls(mods)' = Decls(mods), frame' = frame, out \subseteq out',
         \A f \in FlowNames : MakerOut(f)' \/ Keeps(f) \/ Takes(f) \/ Makes(f)
  PROVE  FlowInv'
<1>1. /\ plan = Plan(Decls(mods)) /\ \A f \in FlowNames : Served(f, nodes) /\ Fresh(f)
  BY DEF FlowInv
<1>2. at \in 1..Len(nodes) /\ Len(nodes) \in Nat
  BY FrameHolds DEF NodesInv, Open
<1>3. ASSUME NEW f \in FlowNames PROVE Fresh(f)'
  <2> SUFFICES ASSUME NEW j \in 1..at' - 1, Does(nodes[j], f, "Make"), Quiet(f, nodes, j, at'), ~MakerOut(f)'
               PROVE  slots'[f].value.made = <<frame, nodes[j].step>>
    BY DEF Fresh
  <2>1. j \in 1..at
    BY <1>2
  <2>2. ~MakerOut(f)
    <3>1. MadeBy(f)' = MadeBy(f)
      BY SameMakers
    <3> QED BY <3>1 DEF MakerOut
  <2>3. CASE j = at
    <3>1. Does(Node, f, "Make")
      BY <2>3 DEF Node
    <3>2. Makes(f)
      BY <3>1 DEF Keeps, Takes
    <3> QED BY <2>3, <3>2 DEF Makes, Node
  <2>4. CASE j # at
    <3>1. j \in 1..at - 1 /\ at \in j + 1..at' - 1 /\ \A k \in j + 1..at - 1 : k \in j + 1..at' - 1
      BY <1>2, <2>1, <2>4
    <3>2. ~Does(Node, f, "Make") /\ ~Does(Node, f, "Take") /\ Quiet(f, nodes, j, at)
      BY <3>1 DEF Quiet, Node
    <3>3. slots[f].value.made = <<frame, nodes[j].step>>
      BY <1>1, <2>2, <3>1, <3>2 DEF Fresh
    <3>4. Keeps(f)
      BY <3>2 DEF Takes, Makes
    <3> QED BY <3>3, <3>4 DEF Keeps
  <2> QED BY <2>3, <2>4
<1> QED BY <1>1, <1>3 DEF FlowInv

(* A system that ran found in a flow what was made in its step, or a mod   *)
(* that makes it is out.                                                   *)
LEMMA FindsOfItsStep ==
  ASSUME FrameInv, FlowInv, Open, at <= Len(nodes), NEW f \in FlowNames, Finds(f, Node)
  PROVE  MakerOut(f) \/ slots[f].value.made = StepNow
<1>1. at \in 1..Len(nodes) /\ Len(nodes) \in Nat /\ DOMAIN nodes = 1..Len(nodes)
  BY FrameHolds DEF NodesInv, Open
<1>2. Served(f, nodes) /\ Fresh(f)
  BY DEF FlowInv
<1>3. PICK j \in 1..at - 1 : Serves(f, nodes, j, at)
  BY <1>1, <1>2 DEF Served, Node
<1>4. Does(nodes[j], f, "Make") /\ nodes[j].step = nodes[at].step /\ Quiet(f, nodes, j, at)
  BY <1>3 DEF Serves
<1>5. MakerOut(f) \/ slots[f].value.made = <<frame, nodes[j].step>>
  BY <1>2, <1>4 DEF Fresh
<1> QED BY <1>4, <1>5 DEF StepNow, Node

(* A system that is skipped keeps it: if it makes the flow, its mod is     *)
(* out;                                                                    *)
LEMMA SkipFlows ==
  ASSUME FrameInv, FlowInv, Skip
  PROVE  FlowInv' /\ OfItsStep'
<1>1. /\ Open /\ at <= Len(nodes) /\ at' = at + 1 /\ out' = out \union {Node.system.mod} /\ used' = {}
      /\ UNCHANGED <<frame, mods, plan, nodes, slots>>
  BY DEF Skip, EventsStill
<1>2. Decls(mods)' = Decls(mods)
  BY <1>1 DEF Decls
<1>3. ASSUME NEW f \in FlowNames PROVE MakerOut(f)' \/ Keeps(f)
  <2>1. CASE Does(Node, f, "Make")
    <3>1. Node.system.mod \in MadeBy(f)
      BY <1>1, <2>1, MakerIs
    <3>2. MadeBy(f)' = MadeBy(f)
      BY <1>2, SameMakers
    <3> QED BY <1>1, <3>1, <3>2 DEF MakerOut
  <2>2. CASE ~Does(Node, f, "Make")
    BY <1>1, <2>2 DEF Keeps
  <2> QED BY <2>1, <2>2
<1>4. FlowInv'
  BY <1>1, <1>2, <1>3, NodeRuns
<1> QED BY <1>1, <1>4 DEF OfItsStep

(* an apply does, which uses no flow;                                      *)
LEMMA ApplyFlows ==
  ASSUME FrameInv, FlowInv, NEW published \in SUBSET Kinds, Apply(published)
  PROVE  FlowInv' /\ OfItsStep'
<1>1. /\ Open /\ at <= Len(nodes) /\ Node.apply /\ at' = at + 1 /\ out \subseteq out' /\ used' = {}
      /\ mods' = mods \/ \E name : mods' = Fail(name)
      /\ UNCHANGED <<frame, plan, nodes, slots, loads>>
  BY DEF Apply, PublishEvents
<1>2. Decls(mods)' = Decls(mods)
  BY <1>1, ModsStep DEF KeepalivesKept
<1>3. ASSUME NEW f \in FlowNames PROVE Keeps(f)
  BY <1>1 DEF Keeps, Does
<1>4. FlowInv'
  BY <1>1, <1>2, <1>3, NodeRuns
<1> QED BY <1>1, <1>4 DEF OfItsStep

(* and a system that runs does (Engine::run_node), returns or not, and     *)
(* finds what it should.                                                   *)
LEMMA RunFlows ==
  ASSUME FrameInv, FlowInv, NEW kinds \in SUBSET Kinds, NEW panics \in BOOLEAN, NEW kept \in BOOLEAN,
         RunSystem(kinds, panics, kept)
  PROVE  FlowInv' /\ OfItsStep'
<1> DEFINE s == Node.system
           m == ModOf(s)
           failed == ~AllFound(s.uses) \/ panics
           finds == {u \in ToSet(s.uses) : u.access # "Make"}
<1>1. /\ Open /\ at <= Len(nodes) /\ ~Node.apply /\ at' = at + 1
      /\ mods' = IF failed THEN Fail(s.mod) ELSE mods
      /\ out' = IF failed THEN out \union {s.mod} ELSE out
      /\ UNCHANGED <<plan, nodes, loads>> /\ UseFlows(s.uses, StepNow, m.loadedAt, kept)
      /\ used' = {[now |-> StepNow, flow |-> u.flow, found |-> slots[u.flow].value] : u \in finds}
  BY DEF RunSystem
<1>2. frame' = frame
  BY DEF RunSystem, EventsStill, ReadEvents
<1>3. Node.step \in Nat /\ m \in Mod /\ FlowsKeep(m) /\ OfBuild(s, m.build) /\ s.mod \in ModNames
  BY <1>1, NodeIs
<1>4. SlotsOk /\ frame \in Nat
  BY FrameHolds DEF EventsInv
<1>5. StepNow \in Nat \X Nat
  BY <1>3, <1>4 DEF StepNow
<1>6. m.loadedAt \in Nat \ {0} /\ m.build.name = s.mod
  BY <1>3 DEF Mod, OfBuild
<1>7. \A f \in FlowNames : Does(Node, f, "Make") <=> \E u \in ToSet(s.uses) : u.flow = f /\ u.access = "Make"
  BY <1>1 DEF Does
<1>8. \A f \in FlowNames : Does(Node, f, "Take") <=> \E u \in ToSet(s.uses) : u.flow = f /\ u.access = "Take"
  BY <1>1 DEF Does
<1>9. ASSUME NEW f \in FlowNames, Does(Node, f, "Make") PROVE s.mod \in MadeBy(f)
  BY <1>1, <1>9, MakerIs
<1>10. Decls(mods)' = Decls(mods)
  <2>1. KeepalivesKept
    <3>1. \A f \in FlowsOf(m.build.systems) \intersect FlowNames : slots[f].keepalives[m.build.name] = m.loadedAt
      BY <1>3 DEF FlowsKeep
    <3>2. m.build.name \in ModNames
      BY <1>3, <1>6
    <3> HIDE DEF s, m
    <3>3. \A f \in FlowNames : slots'[f].keepalives = slots[f].keepalives
      <4> HIDE DEF StepNow
      <4> QED BY <1>1, <1>3, <1>4, <1>5, <1>6, <3>1, <3>2, UseFlowsStep
    <3> QED BY <3>3 DEF KeepalivesKept
  <2>2. mods' = mods \/ \E name : mods' = Fail(name)
    <3>1. CASE failed
      BY <1>1, <3>1
    <3>2. CASE ~failed
      BY <1>1, <3>2
    <3> QED BY <3>1, <3>2
  <2> QED BY <1>1, <2>1, <2>2, ModsStep
<1>11. out \subseteq out' /\ (failed => s.mod \in out')
  <2> HIDE DEF failed, s
  <2> QED BY <1>1
<1>12. /\ \A u, v \in ToSet(s.uses) : u.flow = v.flow => u = v
       /\ \A u \in ToSet(s.uses) : u.access \in Accesses /\ u.flow \in FlowNames
  BY <1>3, UsesOnce
<1>13. ASSUME NEW f \in FlowNames
       PROVE  /\ (\A u \in ToSet(s.uses) : u.flow # f) => slots'[f] = slots[f]
              /\ \A u \in ToSet(s.uses) :
                   u.flow = f => /\ u.access \in {"See", "Pass"} => slots'[f].value.made = slots[f].value.made
                                 /\ u.access = "Make" /\ AllFound(s.uses) => slots'[f].value.made = StepNow
  <2> HIDE DEF s, m, StepNow
  <2> QED BY <1>1, <1>3, <1>4, <1>5, <1>6, UseMade
<1>14. \A u \in finds : u \in ToSet(s.uses) /\ u.access # "Make"
  OBVIOUS
<1>15. failed <=> ~AllFound(s.uses) \/ panics
  OBVIOUS
<1>16. ASSUME NEW f \in FlowNames PROVE MadeBy(f)' = MadeBy(f)
  BY <1>10, SameMakers
<1>17. ASSUME NEW f \in FlowNames PROVE MakerOut(f)' \/ Keeps(f) \/ Takes(f) \/ Makes(f)
  <2> HIDE DEF s, m, failed, finds
  <2>1. CASE \A u \in ToSet(s.uses) : u.flow # f
    BY <1>7, <1>13, <2>1 DEF Keeps
  <2>2. CASE \E u \in ToSet(s.uses) : u.flow = f
    <3>1. PICK u \in ToSet(s.uses) : u.flow = f
      BY <2>2
    <3>2. \A v \in ToSet(s.uses) : v.flow = f => v = u
      BY <1>12, <3>1
    <3>3. u.access \in {"Make", "See", "Pass", "Take"}
      BY <1>12, <3>1 DEF Accesses
    <3>4. CASE u.access \in {"See", "Pass"}
      <4>1. ~Does(Node, f, "Make")
        BY <1>7, <3>2, <3>4
      <4> QED BY <1>13, <3>1, <3>4, <4>1 DEF Keeps
    <3>5. CASE u.access = "Take"
      BY <1>7, <1>8, <3>1, <3>2, <3>5 DEF Takes
    <3>6. CASE u.access = "Make"
      <4>1. Does(Node, f, "Make")
        BY <1>7, <3>1, <3>6
      <4>2. CASE failed
        BY <1>9, <1>11, <1>16, <4>1, <4>2 DEF MakerOut
      <4>3. CASE ~failed
        <5>1. slots'[f].value.made = StepNow
          BY <1>13, <1>15, <3>1, <3>6, <4>3
        <5> QED BY <4>1, <5>1 DEF Makes, StepNow
      <4> QED BY <4>2, <4>3
    <3> QED BY <3>3, <3>4, <3>5, <3>6
  <2> QED BY <2>1, <2>2
<1>18. FlowInv'
  BY <1>1, <1>2, <1>10, <1>11, <1>17, NodeRuns
<1>19. ASSUME NEW x \in used' PROVE x.found.made = x.now \/ out' \intersect MadeBy(x.flow)' # {}
  <2>1. PICK u \in finds : x = [now |-> StepNow, flow |-> u.flow, found |-> slots[u.flow].value]
    BY <1>1
  <2> DEFINE f == u.flow
  <2>2. x.now = StepNow /\ x.flow = f /\ x.found = slots[f].value
    BY <2>1
  <2>3. u \in ToSet(s.uses) /\ u.access # "Make" /\ f \in FlowNames /\ u.access \in Accesses
    BY <1>12, <1>14
  <2>4. Finds(f, Node)
    BY <1>1, <2>3 DEF Finds, Does, Accesses
  <2> HIDE DEF f
  <2>5. MakerOut(f) \/ slots[f].value.made = StepNow
    BY <1>1, <2>3, <2>4, FindsOfItsStep
  <2> QED BY <1>11, <1>16, <2>2, <2>3, <2>5 DEF MakerOut
<1>20. OfItsStep'
  BY <1>19 DEF OfItsStep
<1> QED BY <1>18, <1>20

(* What is loaded is builds.                                               *)
LEMMA LoadedBuilds ==
  ASSUME FrameInv
  PROVE  Decls(mods) \in Seq(Builds)
<1>1. \A x \in Mod : x.build \in Builds
  BY DEF Mod
<1>2. mods \in Seq(Mod)
  BY FrameHolds DEF ModsInv
<1> QED BY <1>1, <1>2 DEF Decls

(* Between frames there is nothing that runs.                              *)
LEMMA ClosedFlows ==
  ASSUME FrameInv, plan' = Plan(Decls(mods')), at' = 0 \/ (at' = at /\ ~Open),
         nodes' = <<>> \/ (nodes' = nodes /\ ~Open), used' = {}
  PROVE  FlowInv' /\ OfItsStep'
<1>1. at' = 0 /\ nodes' = <<>>
  BY FrameHolds DEF NodesInv, Open
<1>2. plan' = Plan(Decls(mods)')
  BY DEF Decls
<1>3. ASSUME NEW f PROVE Served(f, nodes)' /\ Fresh(f)'
  BY <1>1 DEF Served, Fresh
<1>4. FlowInv'
  BY <1>2, <1>3 DEF FlowInv
<1> QED BY <1>4 DEF OfItsStep

(* The nodes of a frame that begins serve every flow, as they are of a     *)
(* plan.                                                                   *)
LEMMA BeginFlows ==
  ASSUME FrameInv, FlowInv, NEW time \in game.times, NEW running \in game.running, BeginFrame(time, running)
  PROVE  FlowInv' /\ OfItsStep'
<1> DEFINE Time(p) == acc[p] + time.got
           groups == plan.groups
           Times(i) == IF groups[i].hz = 0 THEN 1 ELSE StepsOf(Time(groups[i].name), groups[i].hz)
           times == [i \in DOMAIN groups |-> Times(i)]
           ss == [i \in DOMAIN groups |-> Steps(groups[i], Times(i))]
           decls == Decls(mods)
<1>1. /\ nodes' = FlattenSeq(ss) /\ at' = 1 /\ used' = {} /\ UNCHANGED <<mods, plan>>
  BY DEF BeginFrame
<1>2. time.got \in Nat
  BY FrameHolds, GamesAssumption
<1>3. \A p \in GroupPhases : Time(p) \in Nat
  BY <1>2, FrameHolds DEF TimeInv
<1>4. DOMAIN groups = 1..Len(groups) /\ \A i \in DOMAIN groups : groups[i].name \in GroupPhases /\ groups[i].hz \in 0..Second
  <2>1. groups \in Seq(Group(decls))
    BY FrameHolds DEF PlanInv
  <2>2. \A g \in Group(decls) : g.name \in GroupPhases /\ g.hz \in 0..Second
    BY DEF Group
  <2> HIDE DEF groups, decls
  <2> QED BY <2>1, <2>2
<1>5. ASSUME NEW i \in DOMAIN groups PROVE Times(i) \in Nat /\ (groups[i].hz = 0 => Times(i) = 1)
  <2> DEFINE g == groups[i]
  <2>1. g.name \in GroupPhases /\ g.hz \in 0..Second
    BY <1>4
  <2>2. Times(i) = IF g.hz = 0 THEN 1 ELSE StepsOf(Time(g.name), g.hz)
    OBVIOUS
  <2>3. Time(g.name) \in Nat
    BY <1>3, <2>1
  <2> HIDE DEF g, Time, Times
  <2>4. CASE g.hz = 0
    BY <2>2, <2>4 DEF g
  <2>5. CASE g.hz # 0
    <3>1. g.hz \in 1..Second
      BY <2>1, <2>5, TimeAssumption
    <3>2. Times(i) = StepsOf(Time(g.name), g.hz)
      BY <2>2, <2>5
    <3>3. Times(i) \in Nat
      BY <2>3, <3>1, <3>2, TimeIs
    <3> QED BY <2>5, <3>3 DEF g
  <2> QED BY <2>4, <2>5
<1>6. nodes' = Apiece(groups, times)
  <2>1. \A i \in DOMAIN groups : times[i] = Times(i)
    OBVIOUS
  <2> HIDE DEF times, groups, Times
  <2>2. ss = [i \in DOMAIN groups |-> Steps(groups[i], times[i])]
    BY <2>1
  <2> QED BY <1>1, <2>2 DEF Apiece
<1> HIDE DEF Times
<1>7. times \in [DOMAIN groups -> Nat] /\ \A i \in DOMAIN groups : groups[i].hz = 0 => times[i] = 1
  <2> HIDE DEF groups
  <2> QED BY <1>5
<1>8. groups = Plan(decls).groups /\ decls \in Seq(Builds)
  BY LoadedBuilds DEF FlowInv
<1>9. ASSUME NEW f PROVE Served(f, nodes')
  <2> HIDE DEF groups, times, decls
  <2>1. Served(f, Apiece(Plan(decls).groups, times))
    BY <1>7, <1>8, PlanServes
  <2> QED BY <1>6, <1>8, <2>1
<1>10. ASSUME NEW f PROVE Fresh(f)'
  BY <1>1 DEF Fresh
<1>11. FlowInv'
  BY <1>1, <1>9, <1>10 DEF FlowInv, Served, Finds, Serves, Quiet, Decls
<1> QED BY <1>1, <1>11 DEF OfItsStep

(* At first nothing is in a flow, and nothing runs.                        *)
LEMMA InitFlows ==
  ASSUME Init
  PROVE  FlowInv /\ OfItsStep
<1>1. mods = <<>> /\ plan = Plan(<<>>) /\ nodes = <<>> /\ at = 0 /\ used = {}
  BY DEF Init
<1>2. Decls(mods) = <<>>
  BY <1>1 DEF Decls
<1>3. ASSUME NEW f PROVE Served(f, nodes) /\ Fresh(f)
  BY <1>1 DEF Served, Fresh
<1> QED BY <1>1, <1>2, <1>3 DEF FlowInv, OfItsStep

(* Every step of the loader keeps the invariant, and finds what it should. *)
LEMMA NextFlows ==
  ASSUME FrameInv, FlowInv, Next
  PROVE  FlowInv' /\ OfItsStep'
<1>1. ASSUME NEW batch \in game.batches, Load(batch) PROVE FlowInv' /\ OfItsStep'
  BY <1>1, ClosedFlows DEF Load, Replan, Commit
<1>2. ASSUME NEW i \in DOMAIN mods, Unload(i) PROVE FlowInv' /\ OfItsStep'
  BY <1>2, ClosedFlows DEF Unload, Replan, Commit
<1>3. ASSUME NEW i \in DOMAIN mods, NEW k \in Kinds, Send(i, k) PROVE FlowInv' /\ OfItsStep'
  <2>1. /\ ~Open /\ used' = {} /\ UNCHANGED <<plan, nodes, at>>
        /\ mods' = mods \/ \E name : mods' = Fail(name)
    BY <1>3 DEF Send
  <2>2. Decls(mods') = Decls(mods)
    <3>1. ModsInv(mods, loads)
      BY FrameHolds
    <3>2. \A name : Decls(Fail(name)) = Decls(mods)
      BY <3>1, FailIs
    <3> QED BY <2>1, <3>2
  <2>3. plan' = Plan(Decls(mods'))
    BY <2>1, <2>2 DEF FlowInv
  <2> QED BY <2>1, <2>3, ClosedFlows
<1>4. ASSUME NEW time \in game.times, NEW running \in game.running, BeginFrame(time, running)
      PROVE  FlowInv' /\ OfItsStep'
  BY <1>4, BeginFlows
<1>5. ASSUME Skip PROVE FlowInv' /\ OfItsStep'
  BY <1>5, SkipFlows
<1>6. ASSUME NEW kinds \in SUBSET Kinds, NEW panics \in BOOLEAN, NEW kept \in BOOLEAN, RunSystem(kinds, panics, kept)
      PROVE  FlowInv' /\ OfItsStep'
  BY <1>6, RunFlows
<1>7. ASSUME NEW published \in SUBSET Kinds, Apply(published) PROVE FlowInv' /\ OfItsStep'
  BY <1>7, ApplyFlows
<1>8. ASSUME EndFrame PROVE FlowInv' /\ OfItsStep'
  <2>1. at' = 0 /\ nodes' = <<>> /\ used' = {} /\ plan' = plan /\ mods' = mods
    BY <1>8 DEF EndFrame
  <2>2. plan' = Plan(Decls(mods'))
    BY <2>1 DEF FlowInv
  <2> QED BY <2>1, <2>2, ClosedFlows
<1> QED BY <1>1, <1>2, <1>3, <1>4, <1>5, <1>6, <1>7, <1>8 DEF Next

(* So does a step that changes nothing.                                    *)
LEMMA StutterFlows ==
  ASSUME FlowInv, OfItsStep, UNCHANGED vars
  PROVE  FlowInv' /\ OfItsStep'
<1>1. UNCHANGED <<mods, plan, nodes, at, out, used>>
  BY DEF vars, frameVars
<1>2. UNCHANGED <<frame, slots>>
  BY DEF vars, eventVars
<1>3. \A f : MadeBy(f)' = MadeBy(f)
  BY <1>1 DEF MadeBy, Loaded
<1>4. FlowInv'
  BY <1>1, <1>2, <1>3 DEF FlowInv, Served, Finds, Serves, Quiet, Fresh, MakerOut, Decls
<1>5. OfItsStep'
  BY <1>1, <1>3 DEF OfItsStep
<1> QED BY <1>4, <1>5

(* Flows carry what the plan's check promises (src/engine/ecs/flows.rs):   *)
(* what a system finds in one was made in its own step, unless a mod that  *)
(* makes it has failed or was skipped in the frame; and what a flow keeps, *)
(* in its slot or its bin, is of a build that stays mapped.                *)
THEOREM FramesFlowsOfTheirStep == Spec => []FlowsOfTheirStep
<1> DEFINE I == FrameInv /\ FlowInv /\ OfItsStep
<1>1. Init => I
  BY InitHolds, InitFlows
<1>2. I /\ [Next]_vars => I'
  BY NextHolds, StutterHolds, NextFlows, StutterFlows
<1>3. I => FlowsOfTheirStep
  BY DEF FrameInv, SlotsOk, FlowsOfTheirStep
<1> QED BY <1>1, <1>2, <1>3, PTL DEF Spec
==============================================================================
