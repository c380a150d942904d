---------------------------- MODULE ControlProofs ----------------------------
(***************************************************************************)
(* Engines, clients and connections of any number                          *)
(* (src/engine/loader/control_server.rs): a connection is at one place, a  *)
(* client that wrote, and shut its side before a read of it timed out, has *)
(* a reply while its engine serves, and the engine that is up keeps its    *)
(* socket, if none starts or closes while another does.                    *)
(*                                                                         *)
(* The invariant follows a client from its call: before it, it is nowhere; *)
(* until its side is shut it is in no inbox, so a pump serves only what    *)
(* was written; and whom it called was bound, so it does not start again.  *)
(* It may write and shut its side after its read failed, and is hung up on *)
(* with its request unread: of it LateInv says that it was late.           *)
(***************************************************************************)
EXTENDS Control, TLAPS

Someone == Clients \union {None}
Early   == {"off", "tries", "removes", "binds"}
Up      == {"loads", "serves"}

ClientRecord ==
  [at : {"out", "connected", "asked", "answered", "left", "ended"}, to : Engines \union {None},
   wrote : BOOLEAN, quits : BOOLEAN, late : BOOLEAN]

TypeInv ==
  /\ file \in Engines \union {None}
  /\ engine \in [Engines -> Stages] /\ stop \in [Engines -> BOOLEAN]
  /\ thread \in [Engines -> {Nowhere, Accepts} \union [does : {"reads", "fails"}, with : Someone]]
  /\ backlog \in [Engines -> Seq(Someone)] /\ inbox \in [Engines -> Seq(Someone)]
  /\ client \in [Clients -> ClientRecord]

(* A control thread is from when its engine is bound until it is joined,   *)
(* and ends only when it is told to.                                       *)
ThreadInv ==
  \A e \in Engines :
    /\ engine[e] \in {"loads", "serves", "stops"} => thread[e] # Nowhere /\ ~stop[e]
    /\ engine[e] \in Early => thread[e] = Nowhere /\ ~stop[e]
    /\ engine[e] \in {"unlinks", "exits", "over"} => thread[e] = Nowhere
    /\ thread[e] = Nowhere => backlog[e] = <<>>
    /\ engine[e] \in Early \union {"over"} => inbox[e] = <<>>

(* Where a client's connection is, by how far its call is.                 *)
CallInv(c) ==
  /\ client[c].at \in Waiting => \A e \in Engines : c \in Connections(e) <=> e = client[c].to
  /\ client[c].at = "out" => \A e \in Engines : c \notin Connections(e)
  /\ client[c].at = "connected" => \A e \in Engines : c \notin ToSet(inbox[e])
  /\ client[c].wrote => client[c].at # "out"
  /\ client[c].wrote \/ client[c].at \in Waiting => client[c].to \in Engines
  /\ client[c].to \in Engines => engine[client[c].to] \notin Early
  /\ client[c].at = "ended" /\ client[c].wrote /\ ~client[c].late => engine[client[c].to] \notin Up

(* Who a read has failed of was late.                                      *)
LateInv ==
  \A e \in Engines : thread[e].does = "fails" =>
    thread[e].with \in Clients /\ client[thread[e].with].late

IInv == TypeInv /\ ThreadInv /\ \A c \in Clients : CallInv(c)

-----------------------------------------------------------------------------
(* What is of a sequence.                                                  *)
LEMMA OfSequences ==
  /\ ToSet(<<>>) = {}
  /\ \A S : \A s \in Seq(S) :
       /\ \A x \in S : Append(s, x) \in Seq(S) /\ ToSet(Append(s, x)) = ToSet(s) \union {x}
       /\ s # <<>> => /\ Head(s) \in S /\ Tail(s) \in Seq(S)
                      /\ ToSet(s) = {Head(s)} \union ToSet(Tail(s))
<1>1. ToSet(<<>>) = {}
  BY DEF ToSet
<1>0. ASSUME NEW S, NEW s \in Seq(S) PROVE ToSet(s) = {s[i] : i \in 1..Len(s)}
  <2>1. DOMAIN s = 1..Len(s)
    OBVIOUS
  <2> QED BY <2>1 DEF ToSet
<1>2. ASSUME NEW S, NEW s \in Seq(S), NEW x \in S
      PROVE  Append(s, x) \in Seq(S) /\ ToSet(Append(s, x)) = ToSet(s) \union {x}
  <2>1. /\ Append(s, x) \in Seq(S) /\ Len(Append(s, x)) = Len(s) + 1 /\ Len(s) \in Nat
        /\ \A i \in 1..Len(s) : Append(s, x)[i] = s[i]
        /\ Append(s, x)[Len(s) + 1] = x
    OBVIOUS
  <2>2. ToSet(Append(s, x)) = {Append(s, x)[i] : i \in 1..Len(s) + 1} /\ ToSet(s) = {s[i] : i \in 1..Len(s)}
    BY <1>0, <2>1
  <2>3. \A i \in 1..Len(s) + 1 : i \in 1..Len(s) \/ i = Len(s) + 1
    BY <2>1
  <2>4. \A i \in 1..Len(s) : i \in 1..Len(s) + 1
    BY <2>1
  <2>5. Len(s) + 1 \in 1..Len(s) + 1
    BY <2>1
  <2> QED BY <2>1, <2>2, <2>3, <2>4, <2>5
<1>3. ASSUME NEW S, NEW s \in Seq(S), s # <<>>
      PROVE  /\ Head(s) \in S /\ Tail(s) \in Seq(S)
             /\ ToSet(s) = {Head(s)} \union ToSet(Tail(s))
  <2>1. Head(s) = s[1] /\ Head(s) \in S /\ Tail(s) \in Seq(S)
    BY <1>3
  <2>2. Len(Tail(s)) = Len(s) - 1 /\ \A i \in 1..Len(s) - 1 : Tail(s)[i] = s[i + 1]
    BY <1>3
  <2>3. ToSet(s) = {s[i] : i \in 1..Len(s)} /\ ToSet(Tail(s)) = {Tail(s)[i] : i \in 1..Len(Tail(s))}
    BY <1>0, <2>1
  <2>4. 1 \in 1..Len(s) /\ Len(s) \in Nat
    BY <1>3
  <2>5. ASSUME NEW i \in 1..Len(s) PROVE s[i] \in {Head(s)} \union ToSet(Tail(s))
    <3>1. CASE i = 1
      BY <2>1, <3>1
    <3>2. CASE i # 1
      <4>1. i - 1 \in 1..Len(s) - 1 /\ Tail(s)[i - 1] = s[i]
        BY <2>2, <2>4, <3>2
      <4> QED BY <2>2, <2>3, <4>1
    <3> QED BY <3>1, <3>2
  <2>6. ASSUME NEW i \in 1..Len(Tail(s)) PROVE Tail(s)[i] \in ToSet(s)
    <3>1. i + 1 \in 1..Len(s) /\ Tail(s)[i] = s[i + 1]
      BY <2>2, <2>4
    <3> QED BY <2>3, <3>1
  <2>7. Head(s) \in ToSet(s)
    BY <2>1, <2>3, <2>4
  <2> QED BY <2>1, <2>3, <2>5, <2>6, <2>7
<1> QED BY <1>1, <1>2, <1>3

(* A connection reaches the engine that listens at the path, if one does.  *)
LEMMA Connected ==
  ASSUME IInv, NEW c \in Someone, Connect(c)
  PROVE  /\ backlog' \in [Engines -> Seq(Someone)]
         /\ \A e \in Engines :
              /\ e \in Reached => ToSet(backlog'[e]) = ToSet(backlog[e]) \union {c}
              /\ e \notin Reached => backlog'[e] = backlog[e]
         /\ \A e \in Reached : e \in Engines /\ e = file /\ thread[e] # Nowhere
<1>1. backlog \in [Engines -> Seq(Someone)]
  BY DEF IInv, TypeInv
<1>2. ASSUME NEW e \in Engines
      PROVE  /\ backlog'[e] \in Seq(Someone)
             /\ e \in Reached => ToSet(backlog'[e]) = ToSet(backlog[e]) \union {c}
             /\ e \notin Reached => backlog'[e] = backlog[e]
  <2>1. backlog'[e] = IF e \in Reached THEN Append(backlog[e], c) ELSE backlog[e]
    BY DEF Connect
  <2> QED BY <1>1, <2>1, OfSequences
<1>3. backlog' = [e \in Engines |-> backlog'[e]]
  BY DEF Connect
<1>4. \A e \in Reached : e \in Engines /\ e = file /\ thread[e] # Nowhere
  BY DEF Reached, Listening
<1> QED BY <1>2, <1>3, <1>4

(* Those who wait, of those hung up on, are at the end of their calls.     *)
LEMMA HungUp ==
  ASSUME IInv, NEW cs, Hangup(cs)
  PROVE  /\ client' \in [Clients -> ClientRecord]
         /\ \A c \in Clients :
              /\ c \in cs /\ client[c].at \in Waiting =>
                   /\ client'[c].at = "ended" /\ client'[c].to = client[c].to
                   /\ client'[c].wrote = client[c].wrote /\ client'[c].late = client[c].late
              /\ c \notin cs \/ client[c].at \notin Waiting => client'[c] = client[c]
<1>1. client \in [Clients -> ClientRecord]
  BY DEF IInv, TypeInv
<1>2. client' = [c \in Clients |-> IF c \in cs /\ client[c].at \in Waiting
                                   THEN [client[c] EXCEPT !.at = "ended"] ELSE client[c]]
  BY DEF Hangup
<1>3. ASSUME NEW r \in ClientRecord
      PROVE  /\ [r EXCEPT !.at = "ended"] \in ClientRecord
             /\ [r EXCEPT !.at = "ended"].at = "ended" /\ [r EXCEPT !.at = "ended"].to = r.to
             /\ [r EXCEPT !.at = "ended"].wrote = r.wrote /\ [r EXCEPT !.at = "ended"].late = r.late
  BY DEF ClientRecord
<1>4. ASSUME NEW c \in Clients
      PROVE  /\ client'[c] \in ClientRecord
             /\ c \in cs /\ client[c].at \in Waiting =>
                  /\ client'[c].at = "ended" /\ client'[c].to = client[c].to
                  /\ client'[c].wrote = client[c].wrote /\ client'[c].late = client[c].late
             /\ c \notin cs \/ client[c].at \notin Waiting => client'[c] = client[c]
  <2>1. client[c] \in ClientRecord
    BY <1>1
  <2>2. CASE c \in cs /\ client[c].at \in Waiting
    <3>1. client'[c] = [client[c] EXCEPT !.at = "ended"]
      BY <1>2, <2>2
    <3> QED BY <1>3, <2>1, <2>2, <3>1
  <2>3. CASE ~(c \in cs /\ client[c].at \in Waiting)
    BY <1>2, <2>1, <2>3
  <2> QED BY <2>2, <2>3
<1> QED BY <1>2, <1>4

-----------------------------------------------------------------------------
(* A client whose connection stays where it is, or is read by then, and    *)
(* one whose call ends.                                                    *)
Onward ==
  \A e \in Engines : engine[e] \notin Early =>
    engine'[e] \notin Early /\ (engine'[e] \in Up => engine[e] \in Up)

SamePlaces(c) ==
  \A e \in Engines :
    /\ (c \in Connections(e))' <=> c \in Connections(e)
    /\ c \in ToSet(inbox'[e]) => c \in ToSet(inbox[e]) \/ client[c].at # "connected"

LEMMA CallStays ==
  ASSUME IInv, Onward, NEW c \in Clients, client'[c] = client[c],
         client[c].at \in Waiting \union {"out"} => SamePlaces(c)
  PROVE  CallInv(c)'
<1>1. CallInv(c)
  BY DEF IInv
<1>2. client[c].at \in Waiting => \A e \in Engines : (c \in Connections(e))' <=> e = client[c].to
  BY <1>1 DEF CallInv, SamePlaces
<1>3. client[c].at = "out" => \A e \in Engines : ~(c \in Connections(e))'
  BY <1>1 DEF CallInv, SamePlaces
<1>4. client[c].at = "connected" => \A e \in Engines : c \notin ToSet(inbox'[e])
  BY <1>1 DEF CallInv, SamePlaces, Waiting
<1>5. client[c].to \in Engines => engine'[client[c].to] \notin Early
  BY <1>1 DEF CallInv, Onward
<1>6. client[c].at = "ended" /\ client[c].wrote /\ ~client[c].late => engine'[client[c].to] \notin Up
  BY <1>1 DEF CallInv, Onward
<1> QED BY <1>1, <1>2, <1>3, <1>4, <1>5, <1>6 DEF CallInv

LEMMA CallEnds ==
  ASSUME IInv, Onward, NEW c \in Clients, client[c].at \in Waiting,
         client'[c].at = "ended", client'[c].to = client[c].to, client'[c].wrote = client[c].wrote,
         client'[c].late = client[c].late,
         client[c].wrote /\ ~client[c].late => engine'[client[c].to] \notin Up
  PROVE  CallInv(c)'
<1>1. CallInv(c)
  BY DEF IInv
<1>2. client[c].to \in Engines /\ engine'[client[c].to] \notin Early
  BY <1>1 DEF CallInv, Onward
<1> QED BY <1>2 DEF CallInv, Waiting

(* What an engine's main thread does on its own, and when it connects.     *)
LEMMA NoneIsNoClient == \A c \in Clients : c # None
  BY NoneIsNone

LEMMA EngineGoes ==
  ASSUME IInv, NEW e \in Engines, NEW to \in Stages, Goes(e, to)
  PROVE  /\ engine' \in [Engines -> Stages] /\ engine'[e] = to
         /\ \A f \in Engines \ {e} : engine'[f] = engine[f]
         /\ to \notin Early \union Up \/ engine[e] \in Early \/ (to = "serves" /\ engine[e] = "loads") => Onward
<1>1. engine \in [Engines -> Stages]
  BY DEF IInv, TypeInv
<1>2. /\ engine' \in [Engines -> Stages] /\ engine'[e] = to
      /\ \A f \in Engines \ {e} : engine'[f] = engine[f]
  BY <1>1 DEF Goes
<1> QED BY <1>2 DEF Onward, Early, Up

LEMMA MainStep ==
  ASSUME IInv, NEW e \in Engines,
         Start(e) \/ Removes(e) \/ Loads(e) \/ Quit(e) \/ Joins(e) \/ Unlinks(e)
  PROVE  IInv'
<1>1. UNCHANGED <<stop, thread, backlog, inbox, client>>
  BY DEF Start, Removes, Loads, Quit, Joins, Unlinks, server
<1>2. PICK to \in Stages : Goes(e, to)
  BY DEF Start, Removes, Loads, Quit, Joins, Unlinks, Stages
<1>3. /\ engine' \in [Engines -> Stages] /\ engine'[e] = to
      /\ \A f \in Engines \ {e} : engine'[f] = engine[f]
  BY <1>2, EngineGoes
<1>4. \/ engine[e] \in Early /\ engine'[e] \in Early
      \/ engine[e] = "loads" /\ engine'[e] \in {"serves", "stops"}
      \/ engine[e] = "serves" /\ engine'[e] = "stops"
      \/ engine[e] = "joins" /\ engine'[e] = "unlinks" /\ thread[e] = Nowhere
      \/ engine[e] = "unlinks" /\ engine'[e] = "exits"
  BY DEF Start, Removes, Loads, Quit, Joins, Unlinks, Goes, Early, IInv, TypeInv
<1>5. Onward
  BY <1>3, <1>4 DEF Onward, Early, Up
<1>6. TypeInv'
  <2>1. file' \in Engines \union {None}
    BY DEF IInv, TypeInv, Start, Removes, Loads, Quit, Joins, Unlinks
  <2> QED BY <1>1, <1>3, <2>1 DEF IInv, TypeInv
<1>7. ThreadInv'
  BY <1>1, <1>3, <1>4 DEF IInv, ThreadInv, Early
<1>8. \A c \in Clients : SamePlaces(c)
  BY <1>1 DEF SamePlaces, Connections
<1>9. \A c \in Clients : CallInv(c)'
  BY <1>1, <1>5, <1>8, CallStays
<1> QED BY <1>6, <1>7, <1>9 DEF IInv

LEMMA BindsStep ==
  ASSUME IInv, NEW e \in Engines, Binds(e)
  PROVE  IInv'
<1>1. UNCHANGED <<stop, backlog, inbox, client>>
  BY DEF Binds
<1>2. engine[e] = "binds" /\ \E to \in {"over", "loads"} : Goes(e, to)
  BY DEF Binds
<1>3. /\ engine' \in [Engines -> Stages] /\ engine'[e] \in {"over", "loads"}
      /\ \A f \in Engines \ {e} : engine'[f] = engine[f]
  BY <1>2, EngineGoes DEF Stages
<1>4. Onward
  BY <1>2, <1>3 DEF Onward, Early
<1>5. thread[e] = Nowhere /\ ~stop[e] /\ backlog[e] = <<>> /\ inbox[e] = <<>>
  BY <1>2 DEF IInv, ThreadInv, Early
<1>6. /\ \A f \in Engines : thread'[f].with = thread[f].with
      /\ \A f \in Engines \ {e} : thread'[f] = thread[f]
      /\ engine'[e] = "loads" => thread'[e] # Nowhere
      /\ engine'[e] = "over" => thread'[e] = Nowhere
      /\ thread' \in [Engines -> {Nowhere, Accepts} \union [does : {"reads", "fails"}, with : Someone]]
  <2>1. thread \in [Engines -> {Nowhere, Accepts} \union [does : {"reads", "fails"}, with : Someone]]
    BY DEF IInv, TypeInv
  <2>2. Accepts # Nowhere /\ Accepts.with = Nowhere.with
    BY DEF Accepts, Nowhere
  <2>3. CASE file # None
    <3>1. Goes(e, "over") /\ thread' = thread
      BY <2>3 DEF Binds
    <3> QED BY <1>5, <2>1, <3>1, EngineGoes DEF Stages
  <2>4. CASE file = None
    <3>1. Goes(e, "loads") /\ thread' = [thread EXCEPT ![e] = Accepts]
      BY <2>4 DEF Binds
    <3>2. engine'[e] = "loads"
      BY <3>1, EngineGoes DEF Stages
    <3> QED BY <1>5, <2>1, <2>2, <3>1, <3>2
  <2> QED BY <2>3, <2>4
<1>7. TypeInv'
  <2>1. file' \in Engines \union {None}
    BY DEF IInv, TypeInv, Binds
  <2> QED BY <1>1, <1>3, <1>6, <2>1 DEF IInv, TypeInv
<1>8. ThreadInv'
  BY <1>1, <1>2, <1>3, <1>5, <1>6 DEF IInv, ThreadInv, Early
<1>9. \A c \in Clients : SamePlaces(c)
  BY <1>1, <1>6 DEF SamePlaces, Connections
<1>10. \A c \in Clients : CallInv(c)'
  BY <1>1, <1>4, <1>9, CallStays
<1> QED BY <1>7, <1>8, <1>10 DEF IInv

LEMMA StopsStep ==
  ASSUME IInv, NEW e \in Engines, Stops(e)
  PROVE  IInv'
<1>1. UNCHANGED <<file, thread, backlog, inbox, client>> /\ engine[e] = "stops" /\ Goes(e, "wakes")
  BY DEF Stops
<1>2. /\ engine' \in [Engines -> Stages] /\ engine'[e] = "wakes" /\ Onward
      /\ \A f \in Engines \ {e} : engine'[f] = engine[f]
  BY <1>1, EngineGoes DEF Stages, Early, Up
<1>3. stop' \in [Engines -> BOOLEAN] /\ \A f \in Engines \ {e} : stop'[f] = stop[f]
  BY DEF Stops, IInv, TypeInv
<1>4. TypeInv'
  BY <1>1, <1>2, <1>3 DEF IInv, TypeInv
<1>5. ThreadInv'
  BY <1>1, <1>2, <1>3 DEF IInv, ThreadInv, Early
<1>6. \A c \in Clients : SamePlaces(c)
  BY <1>1 DEF SamePlaces, Connections
<1>7. \A c \in Clients : CallInv(c)'
  BY <1>1, <1>2, <1>6, CallStays
<1> QED BY <1>4, <1>5, <1>7 DEF IInv

LEMMA ConnectStep ==
  ASSUME IInv, NEW e \in Engines, Tries(e) \/ Wakes(e)
  PROVE  IInv'
<1>1. UNCHANGED <<file, stop, thread, inbox, client>> /\ Connect(None)
  BY DEF Tries, Wakes
<1>2. PICK to \in {"over", "removes", "joins"} : Goes(e, to)
  BY DEF Tries, Wakes
<1>3. /\ engine' \in [Engines -> Stages] /\ engine'[e] = to
      /\ \A f \in Engines \ {e} : engine'[f] = engine[f]
  BY <1>2, EngineGoes DEF Stages
<1>4. \/ engine[e] = "tries" /\ engine'[e] \in {"over", "removes"}
      \/ engine[e] = "wakes" /\ engine'[e] = "joins"
  BY DEF Tries, Wakes, Goes, IInv, TypeInv
<1>5. Onward
  BY <1>3, <1>4 DEF Onward, Early, Up
<1>6. /\ backlog' \in [Engines -> Seq(Someone)]
      /\ \A f \in Engines :
           /\ f \in Reached => ToSet(backlog'[f]) = ToSet(backlog[f]) \union {None}
           /\ f \notin Reached => backlog'[f] = backlog[f]
      /\ \A f \in Reached : thread[f] # Nowhere
  BY <1>1, Connected DEF Someone
<1>7. TypeInv'
  BY <1>1, <1>3, <1>6 DEF IInv, TypeInv
<1>8. ThreadInv'
  BY <1>1, <1>3, <1>4, <1>6 DEF IInv, ThreadInv, Early
<1>9. \A c \in Clients : SamePlaces(c)
  BY <1>1, <1>6, NoneIsNoClient DEF SamePlaces, Connections
<1>10. \A c \in Clients : CallInv(c)'
  BY <1>1, <1>5, <1>9, CallStays
<1> QED BY <1>7, <1>8, <1>10 DEF IInv

-----------------------------------------------------------------------------
(* What a control thread does: a connection goes from the backlog to the   *)
(* inbox, or is hung up on.                                                *)
ThreadRecord == {Nowhere, Accepts} \union [does : {"reads", "fails"}, with : Someone]

LEMMA ThreadGoes ==
  ASSUME IInv, NEW e \in Engines, NEW x \in ThreadRecord, thread' = [thread EXCEPT ![e] = x]
  PROVE  /\ thread' \in [Engines -> ThreadRecord] /\ thread'[e] = x
         /\ \A f \in Engines \ {e} : thread'[f] = thread[f]
<1>1. thread \in [Engines -> ThreadRecord]
  BY DEF IInv, TypeInv, ThreadRecord
<1> QED BY <1>1

LEMMA ThreadKinds ==
  /\ Nowhere \in ThreadRecord /\ Nowhere.with = None /\ Nowhere.does = "nothing"
  /\ Accepts \in ThreadRecord /\ Accepts.with = None /\ Accepts.does = "accepts" /\ Accepts # Nowhere
  /\ \A c \in Someone : Reads(c) \in ThreadRecord /\ Reads(c).with = c /\ Reads(c) # Nowhere
  /\ \A c \in Someone : /\ Fails(c) \in ThreadRecord /\ Fails(c).with = c /\ Fails(c).does = "fails"
                         /\ Fails(c) # Nowhere /\ Reads(c).does = "reads"
  /\ \A x \in ThreadRecord : x.does \in {"reads", "fails"} => x # Nowhere /\ x.with \in Someone
  /\ \A x \in ThreadRecord : x.does = "accepts" => x # Nowhere /\ x.with = None
BY DEF Nowhere, Accepts, Reads, Fails, ThreadRecord

LEMMA AcceptStep ==
  ASSUME IInv, NEW e \in Engines, Accept(e), ~stop[e]
  PROVE  IInv'
<1>1. UNCHANGED <<file, engine, stop, inbox, client>> /\ backlog[e] # <<>> /\ thread[e].does = "accepts"
  BY DEF Accept
<1>2. PICK h : h = Head(backlog[e])
  OBVIOUS
<1>3. thread' = [thread EXCEPT ![e] = Reads(h)] /\ backlog' = [backlog EXCEPT ![e] = Tail(backlog[e])]
  BY <1>2 DEF Accept
<1>4. /\ h \in Someone /\ Tail(backlog[e]) \in Seq(Someone)
      /\ ToSet(backlog[e]) = {h} \union ToSet(Tail(backlog[e]))
  <2>1. backlog[e] \in Seq(Someone)
    BY DEF IInv, TypeInv
  <2> QED BY <1>1, <1>2, <2>1, OfSequences
<1>5. thread[e] \in ThreadRecord /\ thread[e] # Nowhere /\ thread[e].with = None
  <2>1. thread[e] \in ThreadRecord
    BY DEF IInv, TypeInv, ThreadRecord
  <2> QED BY <1>1, <2>1, ThreadKinds
<1>6. /\ thread' \in [Engines -> ThreadRecord] /\ thread'[e].with = h /\ thread'[e] # Nowhere
      /\ \A f \in Engines \ {e} : thread'[f] = thread[f]
  BY <1>3, <1>4, ThreadGoes, ThreadKinds
<1>7. /\ backlog' \in [Engines -> Seq(Someone)] /\ backlog'[e] = Tail(backlog[e])
      /\ \A f \in Engines \ {e} : backlog'[f] = backlog[f]
  BY <1>3, <1>4 DEF IInv, TypeInv
<1>8. TypeInv'
  BY <1>1, <1>6, <1>7 DEF IInv, TypeInv, ThreadRecord
<1>9. ThreadInv'
  BY <1>1, <1>5, <1>6, <1>7 DEF IInv, ThreadInv
<1>10. ASSUME NEW c \in Clients PROVE SamePlaces(c)
  <2>1. c # None
    BY NoneIsNoClient
  <2>2. (c \in Connections(e))' <=> c \in Connections(e)
    BY <1>1, <1>4, <1>5, <1>6, <1>7, <2>1 DEF Connections
  <2>3. \A f \in Engines \ {e} : (c \in Connections(f))' <=> c \in Connections(f)
    BY <1>1, <1>6, <1>7 DEF Connections
  <2> QED BY <1>1, <2>2, <2>3 DEF SamePlaces
<1>11. \A c \in Clients : CallInv(c)'
  BY <1>1, <1>10, CallStays DEF Onward
<1> QED BY <1>8, <1>9, <1>11 DEF IInv

(* An engine hangs up on all it has, or all that it didn't accept: they    *)
(* had called it, and it does not serve.                                   *)
Drops(e, cs) ==
  /\ Hangup(cs) /\ engine'[e] \notin Early \union Up
  /\ cs \subseteq Connections(e)
  /\ \A c \in Clients \ cs : (c \in Connections(e))' <=> c \in Connections(e)
  /\ \A f \in Engines \ {e} : Connections(f)' = Connections(f)
  /\ \A f \in Engines : ToSet(inbox'[f]) \subseteq ToSet(inbox[f])

LEMMA DropsKeeps ==
  ASSUME IInv, Onward, NEW e \in Engines, NEW cs, Drops(e, cs)
  PROVE  \A c \in Clients : CallInv(c)'
<1>1. TAKE c \in Clients
<1>2. CallInv(c)
  BY DEF IInv
<1>3. CASE c \in cs /\ client[c].at \in Waiting
  <2>1. client[c].to = e
    BY <1>2, <1>3 DEF CallInv, Drops
  <2>2. /\ client'[c].at = "ended" /\ client'[c].to = client[c].to
        /\ client'[c].wrote = client[c].wrote /\ client'[c].late = client[c].late
    BY <1>3, HungUp DEF Drops
  <2> QED BY <1>3, <2>1, <2>2, CallEnds DEF Drops
<1>4. CASE c \notin cs \/ client[c].at \notin Waiting
  <2>1. client'[c] = client[c]
    BY <1>4, HungUp DEF Drops
  <2>2. client[c].at \in Waiting \union {"out"} => SamePlaces(c)
    <3>1. client[c].at \in Waiting \union {"out"} => c \notin cs
      BY <1>2, <1>4 DEF CallInv, Drops
    <3> QED BY <3>1 DEF SamePlaces, Drops
  <2> QED BY <2>1, <2>2, CallStays
<1> QED BY <1>3, <1>4

LEMMA RefuseStep ==
  ASSUME IInv, NEW e \in Engines, Accept(e), stop[e]
  PROVE  IInv'
<1>1. /\ UNCHANGED <<file, engine, stop, inbox>> /\ thread[e].does = "accepts"
      /\ Hangup(ToSet(backlog[e])) /\ thread' = [thread EXCEPT ![e] = Nowhere]
      /\ backlog' = [backlog EXCEPT ![e] = <<>>]
  BY DEF Accept
<1>2. thread[e] \in ThreadRecord /\ thread[e] # Nowhere /\ thread[e].with = None
  <2>1. thread[e] \in ThreadRecord
    BY DEF IInv, TypeInv, ThreadRecord
  <2> QED BY <1>1, <2>1, ThreadKinds
<1>3. engine[e] \notin Early \union {"loads", "serves", "stops"}
  BY DEF IInv, ThreadInv
<1>4. /\ thread' \in [Engines -> ThreadRecord] /\ thread'[e] = Nowhere
      /\ \A f \in Engines \ {e} : thread'[f] = thread[f]
  BY <1>1, ThreadGoes, ThreadKinds
<1>5. /\ backlog' \in [Engines -> Seq(Someone)] /\ backlog'[e] = <<>>
      /\ \A f \in Engines \ {e} : backlog'[f] = backlog[f]
  <2>1. <<>> \in Seq(Someone)
    OBVIOUS
  <2> QED BY <1>1, <2>1 DEF IInv, TypeInv
<1>6. TypeInv'
  <2>1. client' \in [Clients -> ClientRecord]
    BY <1>1, HungUp
  <2> QED BY <1>1, <1>4, <1>5, <2>1 DEF IInv, TypeInv, ThreadRecord
<1>7. ThreadInv'
  BY <1>1, <1>3, <1>4, <1>5 DEF IInv, ThreadInv
<1>8. PICK cs : cs = ToSet(backlog[e])
  OBVIOUS
<1>9. Drops(e, cs)
  <2>1. ASSUME NEW c \in Clients \ cs
        PROVE  (c \in Connections(e))' <=> c \in Connections(e)
    BY <1>1, <1>2, <1>4, <1>5, <1>8, OfSequences, NoneIsNoClient, ThreadKinds DEF Connections
  <2>2. cs \subseteq Connections(e)
    BY <1>8 DEF Connections
  <2>3. \A f \in Engines \ {e} : Connections(f)' = Connections(f)
    BY <1>1, <1>4, <1>5 DEF Connections
  <2>4. engine'[e] \notin Early \union Up /\ \A f \in Engines : ToSet(inbox'[f]) \subseteq ToSet(inbox[f])
    BY <1>1, <1>3 DEF Up
  <2>5. Hangup(cs)
    BY <1>1, <1>8
  <2> QED BY <2>1, <2>2, <2>3, <2>4, <2>5 DEF Drops
<1>10. Onward
  BY <1>1 DEF Onward
<1>11. \A c \in Clients : CallInv(c)'
  BY <1>9, <1>10, DropsKeeps
<1> QED BY <1>6, <1>7, <1>11 DEF IInv

LEMMA ReadStep ==
  ASSUME IInv, NEW e \in Engines, ReadRequest(e)
  PROVE  IInv'
<1>1. UNCHANGED <<file, engine, stop, backlog, client>> /\ thread[e].does = "reads"
  BY DEF ReadRequest
<1>2. PICK h : h = thread[e].with
  OBVIOUS
<1>3. /\ thread' = [thread EXCEPT ![e] = Accepts] /\ inbox' = [inbox EXCEPT ![e] = Append(inbox[e], h)]
      /\ Shut(h)
  BY <1>2 DEF ReadRequest
<1>4. thread[e] # Nowhere /\ h \in Someone
  <2>1. thread[e] \in ThreadRecord
    BY DEF IInv, TypeInv, ThreadRecord
  <2> QED BY <1>1, <1>2, <2>1, ThreadKinds
<1>5. Append(inbox[e], h) \in Seq(Someone) /\ ToSet(Append(inbox[e], h)) = ToSet(inbox[e]) \union {h}
  <2>1. inbox[e] \in Seq(Someone)
    BY DEF IInv, TypeInv
  <2> QED BY <1>4, <2>1, OfSequences
<1>6. /\ thread' \in [Engines -> ThreadRecord] /\ thread'[e].with = None /\ thread'[e] # Nowhere
      /\ \A f \in Engines \ {e} : thread'[f] = thread[f]
  BY <1>3, ThreadGoes, ThreadKinds
<1>7. /\ inbox' \in [Engines -> Seq(Someone)] /\ ToSet(inbox'[e]) = ToSet(inbox[e]) \union {h}
      /\ \A f \in Engines \ {e} : inbox'[f] = inbox[f]
  BY <1>3, <1>5 DEF IInv, TypeInv
<1>8. TypeInv'
  BY <1>1, <1>6, <1>7 DEF IInv, TypeInv, ThreadRecord
<1>9. engine[e] \notin Early \union {"over"}
  BY <1>4 DEF IInv, ThreadInv
<1>10. ThreadInv'
  BY <1>1, <1>4, <1>6, <1>7, <1>9 DEF IInv, ThreadInv
<1>11. ASSUME NEW c \in Clients PROVE SamePlaces(c)
  <2>1. c # None /\ (c = h => client[c].at # "connected")
    BY <1>3, NoneIsNoClient DEF Shut
  <2>2. (c \in Connections(e))' <=> c \in Connections(e)
    BY <1>1, <1>2, <1>6, <1>7, <2>1 DEF Connections
  <2>3. \A f \in Engines \ {e} : (c \in Connections(f))' <=> c \in Connections(f)
    BY <1>1, <1>6, <1>7 DEF Connections
  <2> QED BY <1>7, <2>1, <2>2, <2>3 DEF SamePlaces
<1>12. \A c \in Clients : CallInv(c)'
  BY <1>1, <1>11, CallStays DEF Onward
<1> QED BY <1>8, <1>10, <1>12 DEF IInv

(* A read that fails leaves its client, who is late by then, where it is.  *)
LEMMA TimesOutStep ==
  ASSUME IInv, NEW e \in Engines, TimesOut(e)
  PROVE  IInv'
<1>1. UNCHANGED <<file, engine, stop, backlog, inbox>> /\ thread[e].does = "reads"
  BY DEF TimesOut
<1>2. PICK h : h = thread[e].with
  OBVIOUS
<1>3. /\ thread' = [thread EXCEPT ![e] = Fails(h)] /\ client' = [client EXCEPT ![h].late = TRUE]
      /\ ~Shut(h)
  BY <1>2 DEF TimesOut
<1>4. thread[e] # Nowhere /\ h \in Clients
  <2>1. thread[e] \in ThreadRecord
    BY DEF IInv, TypeInv, ThreadRecord
  <2>2. thread[e] # Nowhere /\ h \in Someone
    BY <1>1, <1>2, <2>1, ThreadKinds
  <2> QED BY <1>3, <2>2 DEF Shut, Someone
<1>5. /\ thread' \in [Engines -> ThreadRecord] /\ thread'[e].with = h /\ thread'[e] # Nowhere
      /\ \A f \in Engines \ {e} : thread'[f] = thread[f]
  BY <1>3, <1>4, ThreadGoes, ThreadKinds DEF Someone
<1>6. /\ client' \in [Clients -> ClientRecord]
      /\ client'[h].at = client[h].at /\ client'[h].to = client[h].to
      /\ client'[h].wrote = client[h].wrote /\ client'[h].late
      /\ \A c \in Clients \ {h} : client'[c] = client[c]
  <2> DEFINE r == [client[h] EXCEPT !.late = TRUE]
  <2>1. client[h] \in ClientRecord
    BY <1>4 DEF IInv, TypeInv
  <2>2. /\ r \in ClientRecord /\ r.at = client[h].at /\ r.to = client[h].to
        /\ r.wrote = client[h].wrote /\ r.late
    BY <2>1 DEF ClientRecord
  <2>3. client' = [client EXCEPT ![h] = r]
    BY <1>3
  <2> HIDE DEF r
  <2> QED BY <1>4, <2>2, <2>3 DEF IInv, TypeInv
<1>7. TypeInv'
  BY <1>1, <1>5, <1>6 DEF IInv, TypeInv, ThreadRecord
<1>8. ThreadInv'
  BY <1>1, <1>4, <1>5 DEF IInv, ThreadInv
<1>9. \A f \in Engines : Connections(f)' = Connections(f)
  BY <1>1, <1>2, <1>5 DEF Connections
<1>10. ASSUME NEW c \in Clients \ {h} PROVE CallInv(c)'
  <2>1. SamePlaces(c)
    BY <1>1, <1>9 DEF SamePlaces
  <2> QED BY <1>1, <1>6, <2>1, CallStays DEF Onward
<1>11. CallInv(h)'
  <2>1. CallInv(h) /\ client[h].at = "connected"
    BY <1>3, <1>4 DEF IInv, Shut
  <2> QED BY <1>1, <1>6, <1>9, <2>1 DEF CallInv, Waiting
<1> QED BY <1>4, <1>7, <1>8, <1>10, <1>11 DEF IInv

(* Who is hung up on, and wrote, was late.                                 *)
LEMMA HangsUpStep ==
  ASSUME IInv, LateInv, NEW e \in Engines, HangsUp(e)
  PROVE  IInv'
<1>1. UNCHANGED <<file, engine, stop, backlog, inbox>> /\ thread[e].does = "fails"
  BY DEF HangsUp
<1>2. PICK h : h = thread[e].with
  OBVIOUS
<1>3. thread' = [thread EXCEPT ![e] = Accepts] /\ Hangup({h}) /\ client[h].late
  BY <1>1, <1>2 DEF HangsUp, LateInv
<1>4. thread[e] # Nowhere
  <2>1. thread[e] \in ThreadRecord
    BY DEF IInv, TypeInv, ThreadRecord
  <2> QED BY <1>1, <2>1, ThreadKinds
<1>5. /\ thread' \in [Engines -> ThreadRecord] /\ thread'[e].with = None /\ thread'[e] # Nowhere
      /\ \A f \in Engines \ {e} : thread'[f] = thread[f]
  BY <1>3, ThreadGoes, ThreadKinds
<1>6. TypeInv'
  <2>1. client' \in [Clients -> ClientRecord]
    BY <1>3, HungUp
  <2> QED BY <1>1, <1>5, <2>1 DEF IInv, TypeInv, ThreadRecord
<1>7. ThreadInv'
  BY <1>1, <1>4, <1>5 DEF IInv, ThreadInv
<1>8. Onward
  BY <1>1 DEF Onward
<1>9. ASSUME NEW c \in Clients PROVE CallInv(c)'
  <2>1. CallInv(c)
    BY DEF IInv
  <2>2. CASE c = h /\ client[c].at \in Waiting
    <3>1. /\ client'[c].at = "ended" /\ client'[c].to = client[c].to
          /\ client'[c].wrote = client[c].wrote /\ client'[c].late = client[c].late
      BY <1>3, <2>2, HungUp
    <3> QED BY <1>3, <1>8, <2>2, <3>1, CallEnds
  <2>3. CASE c # h \/ client[c].at \notin Waiting
    <3>1. client'[c] = client[c]
      BY <1>3, <2>3, HungUp
    <3>2. client[c].at \in Waiting \union {"out"} => c # h
      BY <1>2, <2>1, <2>3 DEF CallInv, Connections
    <3>3. c # h => SamePlaces(c)
      <4>1. c # None
        BY NoneIsNoClient
      <4> QED BY <1>1, <1>2, <1>5, <4>1 DEF SamePlaces, Connections
    <3> QED BY <1>8, <3>1, <3>2, <3>3, CallStays
  <2> QED BY <2>2, <2>3
<1> QED BY <1>6, <1>7, <1>9 DEF IInv

-----------------------------------------------------------------------------
(* The pump answers who wrote; who closes or crashes drops the rest.       *)
LEMMA ServeStep ==
  ASSUME IInv, NEW e \in Engines, Serve(e)
  PROVE  IInv'
<1>1. UNCHANGED <<file, engine, server>> /\ engine[e] = "serves" /\ inbox[e] # <<>>
  BY DEF Serve
<1>2. PICK h : h = Head(inbox[e])
  OBVIOUS
<1>3. /\ inbox' = [inbox EXCEPT ![e] = Tail(inbox[e])]
      /\ client' = [d \in Clients |-> IF d = h /\ client[d].at = "asked"
                                      THEN [client[d] EXCEPT !.at = "answered"] ELSE client[d]]
  BY <1>2 DEF Serve
<1>4. /\ h \in Someone /\ Tail(inbox[e]) \in Seq(Someone)
      /\ ToSet(inbox[e]) = {h} \union ToSet(Tail(inbox[e]))
  <2>1. inbox[e] \in Seq(Someone)
    BY DEF IInv, TypeInv
  <2> QED BY <1>1, <1>2, <2>1, OfSequences
<1>5. /\ inbox' \in [Engines -> Seq(Someone)] /\ inbox'[e] = Tail(inbox[e])
      /\ \A f \in Engines \ {e} : inbox'[f] = inbox[f]
  BY <1>3, <1>4 DEF IInv, TypeInv
<1>6. ASSUME NEW c \in Clients
      PROVE  /\ client'[c] \in ClientRecord
             /\ c = h /\ client[c].at = "asked" =>
                  /\ client'[c].at = "answered" /\ client'[c].to = client[c].to
             /\ c # h \/ client[c].at # "asked" => client'[c] = client[c]
  <2>1. client[c] \in ClientRecord
    BY DEF IInv, TypeInv
  <2>2. CASE c = h /\ client[c].at = "asked"
    <3>1. client'[c] = [client[c] EXCEPT !.at = "answered"]
      BY <1>3, <2>2
    <3> QED BY <2>1, <2>2, <3>1 DEF ClientRecord
  <2>3. CASE c # h \/ client[c].at # "asked"
    BY <1>3, <2>1, <2>3
  <2> QED BY <2>2, <2>3
<1>7. TypeInv'
  <2>1. client' \in [Clients -> ClientRecord]
    <3>1. client' = [c \in Clients |-> client'[c]]
      BY <1>3
    <3> QED BY <1>6, <3>1
  <2> QED BY <1>1, <1>5, <2>1 DEF IInv, TypeInv, server
<1>8. ThreadInv'
  BY <1>1, <1>5 DEF IInv, ThreadInv, server, Early
<1>9. ASSUME NEW c \in Clients PROVE CallInv(c)'
  <2>1. CallInv(c)
    BY DEF IInv
  <2>2. CASE c = h /\ client[c].at = "asked"
    <3>1. client'[c].at = "answered" /\ client'[c].to = client[c].to
      BY <1>6, <2>2
    <3>2. client[c].to \in Engines /\ engine[client[c].to] \notin Early
      BY <2>1, <2>2 DEF CallInv, Waiting
    <3> QED BY <1>1, <3>1, <3>2 DEF CallInv, Waiting
  <2>3. CASE c # h \/ client[c].at # "asked"
    <3>1. client'[c] = client[c]
      BY <1>6, <2>3
    <3>2. client[c].at \in Waiting \union {"out"} => c # h
      BY <1>4, <2>1, <2>3 DEF CallInv, Connections, Waiting
    <3>3. c # h => SamePlaces(c)
      <4>1. c # h => (c \in ToSet(inbox'[e]) <=> c \in ToSet(inbox[e]))
        BY <1>4, <1>5
      <4>2. c # h => \A f \in Engines : c \in ToSet(inbox'[f]) <=> c \in ToSet(inbox[f])
        BY <1>5, <4>1
      <4> QED BY <1>1, <4>2 DEF SamePlaces, Connections, server
    <3>4. Onward
      BY <1>1 DEF Onward
    <3> QED BY <3>1, <3>2, <3>3, <3>4, CallStays
  <2> QED BY <2>2, <2>3
<1> QED BY <1>7, <1>8, <1>9 DEF IInv

LEMMA EndStep ==
  ASSUME IInv, NEW e \in Engines, Exits(e) \/ Crash(e)
  PROVE  IInv'
<1>1. UNCHANGED <<file, stop>> /\ Goes(e, "over") /\ engine[e] \notin {"off", "over"}
  BY DEF Exits, Crash, server
<1>2. /\ engine' \in [Engines -> Stages] /\ engine'[e] = "over"
      /\ \A f \in Engines \ {e} : engine'[f] = engine[f]
  BY <1>1, EngineGoes DEF Stages
<1>3. /\ inbox' \in [Engines -> Seq(Someone)] /\ inbox'[e] = <<>>
      /\ \A f \in Engines \ {e} : inbox'[f] = inbox[f]
  <2>1. <<>> \in Seq(Someone) /\ inbox \in [Engines -> Seq(Someone)]
    BY DEF IInv, TypeInv
  <2>2. inbox' = [inbox EXCEPT ![e] = <<>>]
    BY DEF Exits, Crash
  <2> QED BY <2>1, <2>2
<1>4. /\ backlog' \in [Engines -> Seq(Someone)] /\ backlog'[e] = <<>>
      /\ \A f \in Engines \ {e} : backlog'[f] = backlog[f]
  <2>1. <<>> \in Seq(Someone) /\ backlog \in [Engines -> Seq(Someone)]
    BY DEF IInv, TypeInv
  <2>2. CASE Exits(e)
    BY <2>1, <2>2 DEF Exits, server, IInv, ThreadInv
  <2>3. CASE Crash(e)
    BY <2>1, <2>3 DEF Crash
  <2> QED BY <2>2, <2>3
<1>5. /\ thread' \in [Engines -> ThreadRecord] /\ thread'[e] = Nowhere
      /\ \A f \in Engines \ {e} : thread'[f] = thread[f]
  <2>1. CASE Exits(e)
    BY <2>1 DEF Exits, server, IInv, TypeInv, ThreadInv, ThreadRecord
  <2>2. CASE Crash(e)
    BY <2>2, ThreadGoes, ThreadKinds DEF Crash
  <2> QED BY <2>1, <2>2
<1>6. PICK cs : Hangup(cs) /\ cs \subseteq Connections(e) /\ Connections(e) \subseteq cs \union {None}
  <2>1. CASE Exits(e)
    <3>1. thread[e] = Nowhere /\ backlog[e] = <<>>
      BY <2>1 DEF Exits, IInv, ThreadInv
    <3>2. Connections(e) = ToSet(inbox[e]) \union {None}
      BY <3>1, OfSequences, ThreadKinds DEF Connections
    <3> QED BY <2>1, <3>2 DEF Exits
  <2>2. CASE Crash(e)
    BY <2>2 DEF Crash
  <2> QED BY <2>1, <2>2
<1>7. TypeInv'
  <2>1. client' \in [Clients -> ClientRecord]
    BY <1>6, HungUp
  <2> QED BY <1>1, <1>2, <1>3, <1>4, <1>5, <2>1 DEF IInv, TypeInv, ThreadRecord
<1>8. ThreadInv'
  BY <1>1, <1>2, <1>3, <1>4, <1>5 DEF IInv, ThreadInv, Early
<1>9. ASSUME engine[e] \notin Early PROVE \A c \in Clients : CallInv(c)'
  <2>1. Connections(e)' = {None}
    BY <1>3, <1>4, <1>5, OfSequences, ThreadKinds DEF Connections
  <2>2. \A f \in Engines \ {e} : Connections(f)' = Connections(f)
    BY <1>3, <1>4, <1>5 DEF Connections
  <2>3. \A c \in Clients \ cs : (c \in Connections(e))' <=> c \in Connections(e)
    BY <1>6, <2>1, NoneIsNoClient
  <2>4. \A f \in Engines : ToSet(inbox'[f]) \subseteq ToSet(inbox[f])
    BY <1>3, OfSequences
  <2>5. engine'[e] \notin Early \union Up
    BY <1>2 DEF Early, Up
  <2>6. Drops(e, cs)
    BY <1>6, <2>2, <2>3, <2>4, <2>5 DEF Drops
  <2>7. Onward
    BY <1>2 DEF Onward, Early, Up
  <2> QED BY <2>6, <2>7, DropsKeeps
<1>10. ASSUME engine[e] \in Early PROVE \A c \in Clients : CallInv(c)'
  <2>1. thread[e] = Nowhere /\ backlog[e] = <<>> /\ inbox[e] = <<>>
    BY <1>10 DEF IInv, ThreadInv
  <2>2. Connections(e) = {None}
    BY <2>1, OfSequences, ThreadKinds DEF Connections
  <2>3. client' = client
    <3>1. \A c \in Clients : client'[c] = client[c]
      BY <1>6, <2>2, HungUp, NoneIsNoClient
    <3>2. client' \in [Clients -> ClientRecord] /\ client \in [Clients -> ClientRecord]
      BY <1>6, HungUp DEF IInv, TypeInv
    <3> QED BY <3>1, <3>2
  <2>4. Onward
    BY <1>2, <1>10 DEF Onward, Up
  <2>5. \A f \in Engines : Connections(f)' = Connections(f) /\ inbox'[f] = inbox[f]
    BY <1>3, <1>4, <1>5, <2>1 DEF Connections
  <2>6. \A c \in Clients : SamePlaces(c)
    BY <2>5 DEF SamePlaces
  <2> QED BY <2>3, <2>4, <2>6, CallStays
<1> QED BY <1>7, <1>8, <1>9, <1>10 DEF IInv

-----------------------------------------------------------------------------
(* A client connects, writes or goes.                                      *)
LEMMA CallStep ==
  ASSUME IInv, NEW c \in Clients, NEW q \in BOOLEAN, Call(c, q)
  PROVE  IInv'
<1>1. UNCHANGED <<file, engine, stop, thread, inbox>> /\ client[c].at = "out" /\ Connect(c)
  BY DEF Call
<1>2. client[c] \in ClientRecord /\ ~client[c].wrote /\ \A e \in Engines : c \notin Connections(e)
  BY <1>1 DEF IInv, TypeInv, CallInv
<1>3. /\ \A d \in Clients \ {c} : client'[d] = client[d]
      /\ client' \in [Clients -> ClientRecord] /\ ~client'[c].wrote
      /\ Reached = {} => client'[c].at = "ended" /\ client'[c].to = client[c].to
      /\ Reached # {} => client'[c].at = "connected" /\ client'[c].to = file
  <2>1. file \in Engines \union {None}
    BY DEF IInv, TypeInv
  <2>2. CASE Reached = {}
    <3> DEFINE r == [client[c] EXCEPT !.at = "ended"]
    <3>1. r \in ClientRecord /\ r.at = "ended" /\ r.to = client[c].to /\ ~r.wrote
      BY <1>2 DEF ClientRecord
    <3>2. client' = [client EXCEPT ![c] = r]
      BY <2>2 DEF Call
    <3> HIDE DEF r
    <3> QED BY <2>2, <3>1, <3>2 DEF IInv, TypeInv
  <2>3. CASE Reached # {}
    <3> DEFINE r == [client[c] EXCEPT !.at = "connected", !.to = file, !.quits = q]
    <3>1. r \in ClientRecord /\ r.at = "connected" /\ r.to = file /\ ~r.wrote
      BY <1>2, <2>1 DEF ClientRecord
    <3>2. client' = [client EXCEPT ![c] = r]
      BY <2>3 DEF Call
    <3> HIDE DEF r
    <3> QED BY <2>3, <3>1, <3>2 DEF IInv, TypeInv
  <2> QED BY <2>2, <2>3
<1>4. /\ backlog' \in [Engines -> Seq(Someone)]
      /\ \A e \in Engines :
           /\ e \in Reached => ToSet(backlog'[e]) = ToSet(backlog[e]) \union {c}
           /\ e \notin Reached => backlog'[e] = backlog[e]
      /\ \A e \in Reached : e \in Engines /\ e = file /\ thread[e] # Nowhere
  BY <1>1, Connected DEF Someone
<1>5. TypeInv'
  BY <1>1, <1>3, <1>4 DEF IInv, TypeInv
<1>6. ThreadInv'
  BY <1>1, <1>4 DEF IInv, ThreadInv
<1>7. CallInv(c)'
  <2>1. CASE Reached = {}
    <3>1. client[c].to \in Engines => engine[client[c].to] \notin Early
      BY DEF IInv, CallInv
    <3> QED BY <1>1, <1>3, <2>1, <3>1 DEF CallInv, Waiting
  <2>2. CASE Reached # {}
    <3>1. file \in Engines /\ file \in Reached /\ engine[file] \notin Early
      BY <1>4, <2>2 DEF IInv, ThreadInv
    <3>2. (c \in Connections(file))'
      BY <1>1, <1>4, <3>1 DEF Connections
    <3>3. \A e \in Engines \ {file} : ~(c \in Connections(e))'
      BY <1>1, <1>2, <1>4 DEF Connections
    <3>4. \A e \in Engines : c \notin ToSet(inbox'[e])
      BY <1>1, <1>2 DEF Connections
    <3> QED BY <1>1, <1>3, <2>2, <3>1, <3>2, <3>3, <3>4 DEF CallInv, Waiting
  <2> QED BY <2>1, <2>2
<1>8. ASSUME NEW d \in Clients \ {c} PROVE CallInv(d)'
  <2>1. SamePlaces(d)
    BY <1>1, <1>4 DEF SamePlaces, Connections
  <2> QED BY <1>1, <1>3, <2>1, CallStays DEF Onward
<1> QED BY <1>5, <1>6, <1>7, <1>8 DEF IInv

LEMMA ClientStep ==
  ASSUME IInv, NEW c \in Clients, Write(c) \/ Shuts(c) \/ Leave(c)
  PROVE  IInv'
<1>1. UNCHANGED <<file, engine, stop, thread, backlog, inbox>>
  BY DEF Write, Shuts, Leave, server
<1>2. client[c] \in ClientRecord /\ client[c].at \in Waiting
  BY DEF IInv, TypeInv, Write, Shuts, Leave, Waiting
<1>3. /\ \A d \in Clients \ {c} : client'[d] = client[d]
      /\ client' \in [Clients -> ClientRecord] /\ client'[c].to = client[c].to
      /\ client'[c].at \in {"left", "asked"} \/ client'[c].at = client[c].at
  <2>1. CASE Write(c)
    <3> DEFINE r == [client[c] EXCEPT !.wrote = TRUE]
    <3>1. r \in ClientRecord /\ r.at = client[c].at /\ r.to = client[c].to
      BY <1>2 DEF ClientRecord
    <3>2. client' = [client EXCEPT ![c] = r]
      BY <2>1 DEF Write
    <3> HIDE DEF r
    <3> QED BY <3>1, <3>2 DEF IInv, TypeInv
  <2>3. CASE Shuts(c)
    <3> DEFINE r == [client[c] EXCEPT !.at = "asked"]
    <3>1. r \in ClientRecord /\ r.at = "asked" /\ r.to = client[c].to
      BY <1>2 DEF ClientRecord
    <3>2. client' = [client EXCEPT ![c] = r]
      BY <2>3 DEF Shuts
    <3> HIDE DEF r
    <3> QED BY <3>1, <3>2 DEF IInv, TypeInv
  <2>2. CASE Leave(c)
    <3> DEFINE r == [client[c] EXCEPT !.at = "left"]
    <3>1. r \in ClientRecord /\ r.at = "left" /\ r.to = client[c].to
      BY <1>2 DEF ClientRecord
    <3>2. client' = [client EXCEPT ![c] = r]
      BY <2>2 DEF Leave
    <3> HIDE DEF r
    <3> QED BY <3>1, <3>2 DEF IInv, TypeInv
  <2> QED BY <2>1, <2>2, <2>3
<1>4. TypeInv' /\ ThreadInv'
  BY <1>1, <1>3 DEF IInv, TypeInv, ThreadInv
<1>5. CallInv(c)'
  <2>1. /\ \A e \in Engines : c \in Connections(e) <=> e = client[c].to
        /\ client[c].to \in Engines /\ engine[client[c].to] \notin Early
        /\ client[c].at = "connected" => \A e \in Engines : c \notin ToSet(inbox[e])
    BY <1>2 DEF IInv, CallInv
  <2> QED BY <1>1, <1>2, <1>3, <2>1 DEF CallInv, Waiting, Connections
<1>6. ASSUME NEW d \in Clients \ {c} PROVE CallInv(d)'
  <2>1. SamePlaces(d)
    BY <1>1 DEF SamePlaces, Connections
  <2> QED BY <1>1, <1>3, <2>1, CallStays DEF Onward
<1> QED BY <1>4, <1>5, <1>6 DEF IInv

-----------------------------------------------------------------------------
LEMMA NextStep ==
  ASSUME IInv, LateInv, [Next]_vars
  PROVE  IInv'
<1>1. ASSUME NEW e \in Engines, Main(e) PROVE IInv'
  <2>1. CASE Start(e) \/ Removes(e) \/ Loads(e) \/ Quit(e) \/ Joins(e) \/ Unlinks(e)
    BY <2>1, MainStep
  <2>2. CASE Binds(e)
    BY <2>2, BindsStep
  <2>3. CASE Stops(e)
    BY <2>3, StopsStep
  <2>4. CASE Tries(e) \/ Wakes(e)
    BY <2>4, ConnectStep
  <2>5. CASE Serve(e)
    BY <2>5, ServeStep
  <2>6. CASE Exits(e)
    BY <2>6, EndStep
  <2> QED BY <1>1, <2>1, <2>2, <2>3, <2>4, <2>5, <2>6 DEF Main
<1>2. ASSUME NEW e \in Engines, Reader(e) PROVE IInv'
  BY <1>2, AcceptStep, RefuseStep, ReadStep, TimesOutStep, HangsUpStep DEF Reader
<1>3. ASSUME NEW e \in Engines, Crash(e) PROVE IInv'
  BY <1>3, EndStep
<1>4. ASSUME NEW c \in Clients, Write(c) \/ Shuts(c) \/ Leave(c) \/ \E q \in BOOLEAN : Call(c, q) PROVE IInv'
  BY <1>4, ClientStep, CallStep
<1>5. CASE UNCHANGED vars
  <2>1. TypeInv' /\ ThreadInv'
    BY <1>5 DEF vars, server, IInv, TypeInv, ThreadInv
  <2>2. \A c \in Clients : SamePlaces(c)
    BY <1>5 DEF vars, server, SamePlaces, Connections
  <2>3. Onward
    BY <1>5 DEF vars, Onward
  <2>4. \A c \in Clients : CallInv(c)'
    BY <1>5, <2>2, <2>3, CallStays DEF vars
  <2> QED BY <2>1, <2>4 DEF IInv
<1> QED BY <1>1, <1>2, <1>3, <1>4, <1>5 DEF Next

(* A thread fails with a client who was late then, and late is for good.   *)
LEMMA LateStep ==
  ASSUME IInv, LateInv, [Next]_vars
  PROVE  LateInv'
<1>1. ASSUME \A e \in Engines : thread'[e].does = "fails" => thread'[e] = thread[e],
             \A c \in Clients : client[c].late => client'[c].late
      PROVE  LateInv'
  BY <1>1 DEF LateInv
<1>2. ASSUME NEW e \in Engines, NEW x \in ThreadRecord, thread' = [thread EXCEPT ![e] = x], x.does # "fails"
      PROVE  \A f \in Engines : thread'[f].does = "fails" => thread'[f] = thread[f]
  BY <1>2, ThreadGoes
<1>3. ASSUME NEW cs, Hangup(cs)
      PROVE  \A c \in Clients : client[c].late => client'[c].late
  BY <1>3, HungUp
<1>4. ASSUME NEW c \in Clients, NEW r, r.late = client[c].late, client' = [client EXCEPT ![c] = r]
      PROVE  \A d \in Clients : client[d].late => client'[d].late
  BY <1>4 DEF IInv, TypeInv
<1>5. ASSUME NEW e \in Engines, Main(e) PROVE LateInv'
  <2>1. CASE Start(e) \/ Tries(e) \/ Removes(e) \/ Loads(e) \/ Quit(e) \/ Stops(e) \/ Wakes(e) \/ Joins(e) \/ Unlinks(e)
    <3>1. UNCHANGED <<thread, client>>
      BY <2>1 DEF Start, Tries, Removes, Loads, Quit, Stops, Wakes, Joins, Unlinks, server
    <3> QED BY <1>1, <3>1
  <2>2. CASE Binds(e)
    <3>1. thread' = thread \/ thread' = [thread EXCEPT ![e] = Accepts]
      BY <2>2 DEF Binds
    <3> QED BY <1>1, <1>2, <2>2, <3>1, ThreadKinds DEF Binds
  <2>3. CASE Serve(e)
    <3>1. thread' = thread
      BY <2>3 DEF Serve, server
    <3>2. ASSUME NEW c \in Clients, client[c].late PROVE client'[c].late
      <4>1. client[c] \in ClientRecord
        BY DEF IInv, TypeInv
      <4>2. client'[c] = client[c] \/ client'[c] = [client[c] EXCEPT !.at = "answered"]
        BY <2>3 DEF Serve
      <4> QED BY <3>2, <4>1, <4>2 DEF ClientRecord
    <3> QED BY <1>1, <3>1, <3>2
  <2>4. CASE Exits(e)
    <3>1. thread' = thread /\ Hangup(ToSet(inbox[e]))
      BY <2>4 DEF Exits, server
    <3> QED BY <1>1, <1>3, <3>1
  <2> QED BY <1>5, <2>1, <2>2, <2>3, <2>4 DEF Main
<1>6. ASSUME NEW e \in Engines, Crash(e) PROVE LateInv'
  <2>1. thread' = [thread EXCEPT ![e] = Nowhere] /\ Hangup(Connections(e))
    BY <1>6 DEF Crash
  <2>2. Nowhere \in ThreadRecord /\ Nowhere.does # "fails"
    BY ThreadKinds
  <2> QED BY <1>1, <1>2, <1>3, <2>1, <2>2
<1>7. ASSUME NEW e \in Engines, Accept(e) PROVE LateInv'
  <2>1. \A c \in Clients : client[c].late => client'[c].late
    BY <1>3, <1>7 DEF Accept
  <2>2. CASE stop[e]
    <3>1. thread' = [thread EXCEPT ![e] = Nowhere]
      BY <1>7, <2>2 DEF Accept
    <3> QED BY <1>1, <1>2, <2>1, <3>1, ThreadKinds
  <2>3. CASE ~stop[e]
    <3>1. thread' = [thread EXCEPT ![e] = Reads(Head(backlog[e]))] /\ backlog[e] # <<>>
      BY <1>7, <2>3 DEF Accept
    <3>2. Head(backlog[e]) \in Someone
      BY <3>1, OfSequences DEF IInv, TypeInv
    <3> QED BY <1>1, <1>2, <2>1, <3>1, <3>2, ThreadKinds
  <2> QED BY <2>2, <2>3
<1>8. ASSUME NEW e \in Engines, ReadRequest(e) \/ HangsUp(e) PROVE LateInv'
  <2>1. thread' = [thread EXCEPT ![e] = Accepts]
    BY <1>8 DEF ReadRequest, HangsUp
  <2>2. \A c \in Clients : client[c].late => client'[c].late
    BY <1>3, <1>8 DEF ReadRequest, HangsUp
  <2> QED BY <1>1, <1>2, <2>1, <2>2, ThreadKinds
<1>9. ASSUME NEW e \in Engines, TimesOut(e) PROVE LateInv'
  <2>1. PICK h : h = thread[e].with
    OBVIOUS
  <2>2. /\ thread[e].does = "reads" /\ ~Shut(h)
        /\ thread' = [thread EXCEPT ![e] = Fails(h)] /\ client' = [client EXCEPT ![h].late = TRUE]
    BY <1>9, <2>1 DEF TimesOut
  <2>3. h \in Clients
    <3>1. thread[e] \in ThreadRecord
      BY DEF IInv, TypeInv, ThreadRecord
    <3>2. h \in Someone
      BY <2>1, <2>2, <3>1, ThreadKinds
    <3> QED BY <2>2, <3>2 DEF Shut, Someone
  <2>4. client'[h].late /\ \A c \in Clients : client[c].late => client'[c].late
    BY <2>2, <2>3 DEF IInv, TypeInv, ClientRecord
  <2>5. /\ thread'[e].with = h
        /\ \A f \in Engines \ {e} : thread'[f] = thread[f]
    BY <2>2, <2>3, ThreadGoes, ThreadKinds DEF Someone
  <2> QED BY <2>3, <2>4, <2>5 DEF LateInv
<1>10. ASSUME NEW c \in Clients, Write(c) \/ Shuts(c) \/ Leave(c) \/ \E q \in BOOLEAN : Call(c, q)
       PROVE  LateInv'
  <2>1. thread' = thread
    BY <1>10 DEF Write, Shuts, Leave, Call, server
  <2>2. client[c] \in ClientRecord
    BY DEF IInv, TypeInv
  <2>3. /\ [client[c] EXCEPT !.wrote = TRUE].late = client[c].late
        /\ \A at : [client[c] EXCEPT !.at = at].late = client[c].late
        /\ \A q : [client[c] EXCEPT !.at = "connected", !.to = file, !.quits = q].late = client[c].late
    BY <2>2 DEF ClientRecord
  <2>4. PICK r : client' = [client EXCEPT ![c] = r] /\ r.late = client[c].late
    <3>1. CASE Write(c)
      <4>1. client' = [client EXCEPT ![c] = [client[c] EXCEPT !.wrote = TRUE]]
        BY <3>1 DEF Write
      <4> QED BY <2>3, <4>1
    <3>2. CASE Shuts(c) \/ Leave(c)
      <4>1. PICK at : client' = [client EXCEPT ![c] = [client[c] EXCEPT !.at = at]]
        BY <3>2 DEF Shuts, Leave
      <4> QED BY <2>3, <4>1
    <3>3. ASSUME NEW q \in BOOLEAN, Call(c, q)
          PROVE  \E r : client' = [client EXCEPT ![c] = r] /\ r.late = client[c].late
      <4>1. \/ client' = [client EXCEPT ![c] = [client[c] EXCEPT !.at = "ended"]]
            \/ client' = [client EXCEPT ![c] =
                            [client[c] EXCEPT !.at = "connected", !.to = file, !.quits = q]]
        BY <3>3 DEF Call
      <4> QED BY <2>3, <4>1
    <3> QED BY <1>10, <3>1, <3>2, <3>3
  <2> QED BY <1>1, <1>4, <2>1, <2>4
<1>11. CASE UNCHANGED vars
  BY <1>1, <1>11 DEF vars, server
<1> QED BY <1>5, <1>6, <1>7, <1>8, <1>9, <1>10, <1>11 DEF Next, Reader

LEMMA InitHolds ==
  ASSUME Init
  PROVE  IInv
<1>1. \A e \in Engines : Connections(e) = {None}
  BY OfSequences, ThreadKinds DEF Init, Connections
<1>2. TypeInv
  <2>1. <<>> \in Seq(Someone)
    OBVIOUS
  <2>2. [at |-> "out", to |-> None, wrote |-> FALSE, quits |-> FALSE, late |-> FALSE] \in ClientRecord
    BY DEF ClientRecord
  <2> QED BY <2>1, <2>2 DEF Init, TypeInv, Stages
<1>3. ThreadInv
  BY DEF Init, ThreadInv, Early
<1>4. ASSUME NEW c \in Clients PROVE CallInv(c)
  BY <1>1, NoneIsNoClient, NoneIsNone DEF Init, CallInv, Waiting
<1> QED BY <1>2, <1>3, <1>4 DEF IInv

(* The invariant is what the engines and their clients keep.               *)
THEOREM ControlIsKept == Spec => []IInv
<1>1. Init => IInv /\ LateInv
  <2>1. Init => LateInv
    BY ThreadKinds DEF Init, LateInv
  <2> QED BY <2>1, InitHolds
<1>2. IInv /\ LateInv /\ [Next]_vars => IInv' /\ LateInv'
  BY NextStep, LateStep
<1> QED BY <1>1, <1>2, PTL DEF Spec

(* A connection is at one place, of the engine it was made to, and a       *)
(* control thread is from when its engine is bound until it was joined     *)
(* (control_server.rs): for any engines and clients, whatever overlaps.    *)
THEOREM ControlTypes == Spec => []TypeOK
<1>1. IInv => TypeOK
  <2>1. SUFFICES ASSUME IInv PROVE TypeOK
    OBVIOUS
  <2>2. \A e \in Engines : e \in Listening <=> thread[e] # Nowhere
    BY DEF Listening
  <2>3. \A e \in Engines : engine[e] \in Stages \ {"loads", "serves", "stops", "wakes", "joins"} => e \notin Listening
    BY <2>1, <2>2 DEF IInv, ThreadInv, Stages, Early
  <2> QED BY <2>1, <2>2, <2>3 DEF IInv, TypeInv, ThreadInv, CallInv, TypeOK
<1> QED BY <1>1, ControlIsKept, PTL

(* A client that has written its request and stays has a reply, unless a   *)
(* read of it timed out before its side was shut, or the engine is closing *)
(* or gone (control_server.rs, accept, read_request and drop; lib.rs,      *)
(* send): for any engines and clients, whatever overlaps.                  *)
THEOREM ControlReplies == Spec => []RepliesWhileItServes
<1>1. IInv => RepliesWhileItServes
  BY DEF IInv, CallInv, RepliesWhileItServes, Up
<1> QED BY <1>1, ControlIsKept, PTL

-----------------------------------------------------------------------------
(* Engines that start and close one after the other: while one is at it no *)
(* other is, and none is up while one removes the file.                    *)
Alone == {"removes", "stops", "wakes", "joins", "unlinks"}

SocketInv ==
  /\ \A e \in Engines : engine[e] \in Up => file = e
  /\ \A e, f \in Engines : e = f \/ engine[e] \in Settled \/ engine[f] \in Settled
  /\ \A e \in Engines : engine[e] \in Alone => \A f \in Engines : engine[f] \notin Up

LEMMA SocketStep ==
  ASSUME ~Overlap, IInv, SocketInv, [Next]_vars
  PROVE  SocketInv'
<1>1. engine \in [Engines -> Stages]
  BY DEF IInv, TypeInv
<1>2. ASSUME NEW e \in Engines, NEW to \in Stages, Goes(e, to)
      PROVE  engine'[e] = to /\ \A f \in Engines \ {e} : engine'[f] = engine[f]
  BY <1>2, EngineGoes
<1>3. ASSUME NEW e \in Engines, file' = file, NEW to \in Stages \ Up, Goes(e, to),
             to \in Alone => engine[e] \in Alone,
             to \in Settled \/ engine[e] \notin Settled
      PROVE  SocketInv'
  BY <1>2, <1>3 DEF SocketInv
<1>4. ASSUME NEW e \in Engines, Main(e) PROVE SocketInv'
  <2>1. CASE Start(e)
    <3>1. engine[e] = "off" /\ file' = file /\ \A f \in Engines \ {e} : engine[f] \in Settled
      BY <2>1 DEF Start, Calm
    <3>2. PICK to \in {"tries", "binds"} : Goes(e, to)
      BY <2>1 DEF Start
    <3>3. engine'[e] = to /\ \A f \in Engines \ {e} : engine'[f] = engine[f]
      BY <1>2, <3>2 DEF Stages
    <3> QED BY <3>1, <3>2, <3>3 DEF SocketInv, Settled, Alone, Up
  <2>2. CASE Tries(e)
    <3>1. engine[e] = "tries" /\ file' = file
      BY <2>2 DEF Tries
    <3>2. CASE Reached # {}
      <4>1. Goes(e, "over")
        BY <2>2, <3>2 DEF Tries
      <4> QED BY <1>3, <3>1, <4>1 DEF Stages, Up, Alone, Settled
    <3>3. CASE Reached = {}
      <4>1. Goes(e, "removes")
        BY <2>2, <3>3 DEF Tries
      <4>2. \A f \in Engines : engine[f] \notin Up
        <5>1. \A f \in Engines : engine[f] \in Up => thread[f] # Nowhere
          BY DEF IInv, ThreadInv, Up
        <5> QED BY <3>3, <5>1 DEF SocketInv, Reached, Listening
      <4>3. engine'[e] = "removes" /\ \A f \in Engines \ {e} : engine'[f] = engine[f]
        BY <1>2, <4>1 DEF Stages
      <4> QED BY <3>1, <4>2, <4>3 DEF SocketInv, Settled, Up, Alone
    <3> QED BY <3>2, <3>3
  <2>3. CASE Removes(e)
    <3>1. engine[e] = "removes" /\ Goes(e, "binds")
      BY <2>3 DEF Removes
    <3>2. engine'[e] = "binds" /\ \A f \in Engines \ {e} : engine'[f] = engine[f]
      BY <1>2, <3>1 DEF Stages
    <3> QED BY <3>1, <3>2 DEF SocketInv, Settled, Up, Alone
  <2>4. CASE Binds(e)
    <3>1. engine[e] = "binds"
      BY <2>4 DEF Binds
    <3>2. CASE file # None
      <4>1. Goes(e, "over") /\ file' = file
        BY <2>4, <3>2 DEF Binds
      <4> QED BY <1>3, <3>1, <4>1 DEF Stages, Up, Alone, Settled
    <3>3. CASE file = None
      <4>1. Goes(e, "loads") /\ file' = e
        BY <2>4, <3>3 DEF Binds
      <4>2. engine'[e] = "loads" /\ \A f \in Engines \ {e} : engine'[f] = engine[f]
        BY <1>2, <4>1 DEF Stages
      <4>3. \A f \in Engines : engine[f] \notin Up
        BY <3>3, NoneIsNone DEF SocketInv
      <4>4. \A f \in Engines \ {e} : engine[f] \notin Alone
        BY <3>1 DEF SocketInv, Settled, Alone
      <4> QED BY <3>1, <4>1, <4>2, <4>3, <4>4 DEF SocketInv, Settled, Up, Alone
    <3> QED BY <3>2, <3>3
  <2>5. CASE Loads(e) /\ Goes(e, "serves")
    <3>1. engine[e] = "loads" /\ file' = file
      BY <2>5 DEF Loads
    <3>2. engine'[e] = "serves" /\ \A f \in Engines \ {e} : engine'[f] = engine[f]
      BY <1>2, <2>5 DEF Stages
    <3> QED BY <3>1, <3>2 DEF SocketInv, Settled, Up, Alone
  <2>6. CASE (Loads(e) /\ ~Goes(e, "serves")) \/ Quit(e)
    <3>1. engine[e] \in Up /\ file' = file /\ Goes(e, "stops") /\ \A f \in Engines \ {e} : engine[f] \in Settled
      BY <2>6 DEF Loads, Quit, Calm, Up
    <3>2. engine'[e] = "stops" /\ \A f \in Engines \ {e} : engine'[f] = engine[f]
      BY <1>2, <3>1 DEF Stages
    <3>3. \A f \in Engines \ {e} : engine[f] \notin Up
      BY <3>1 DEF SocketInv
    <3> QED BY <3>1, <3>2, <3>3 DEF SocketInv, Settled, Up, Alone
  <2>7. CASE Serve(e)
    BY <2>7 DEF Serve, SocketInv
  <2>8. CASE Stops(e) \/ Wakes(e) \/ Joins(e)
    <3>1. file' = file /\ \E to \in {"wakes", "joins", "unlinks"} : Goes(e, to)
      BY <2>8 DEF Stops, Wakes, Joins
    <3>2. engine[e] \in Alone
      BY <2>8 DEF Stops, Wakes, Joins, Alone
    <3> QED BY <1>3, <3>1, <3>2 DEF Stages, Up, Alone, Settled
  <2>9. CASE Unlinks(e)
    <3>1. engine[e] = "unlinks" /\ Goes(e, "exits")
      BY <2>9 DEF Unlinks
    <3>2. engine'[e] = "exits" /\ \A f \in Engines \ {e} : engine'[f] = engine[f]
      BY <1>2, <3>1 DEF Stages
    <3> QED BY <3>1, <3>2 DEF SocketInv, Settled, Up, Alone
  <2>10. CASE Exits(e)
    BY <1>3, <2>10 DEF Exits, Stages, Up, Alone, Settled
  <2> QED BY <1>4, <2>1, <2>2, <2>3, <2>4, <2>5, <2>6, <2>7, <2>8, <2>9, <2>10 DEF Main
<1>5. ASSUME NEW e \in Engines, Crash(e) PROVE SocketInv'
  BY <1>3, <1>5 DEF Crash, Stages, Up, Alone, Settled
<1>6. CASE file' = file /\ engine' = engine
  BY <1>6 DEF SocketInv
<1>7. ASSUME NEW e \in Engines, Reader(e) PROVE SocketInv'
  BY <1>6, <1>7 DEF Reader, Accept, ReadRequest, TimesOut, HangsUp
<1>8. ASSUME NEW c \in Clients, Write(c) \/ Shuts(c) \/ Leave(c) \/ \E q \in BOOLEAN : Call(c, q) PROVE SocketInv'
  BY <1>6, <1>8 DEF Write, Shuts, Leave, Call
<1>9. CASE UNCHANGED vars
  BY <1>6, <1>9 DEF vars
<1> QED BY <1>4, <1>5, <1>7, <1>8, <1>9 DEF Next

(* An engine that is up has the socket at its path (control_server.rs,     *)
(* start and drop): for any engines that start and close one after the     *)
(* other, crashes at any time included, and any clients.                   *)
THEOREM ControlKeepsItsSocket ==
  ASSUME ~Overlap
  PROVE  Spec => []KeepsItsSocket
<1>1. Init => SocketInv
  BY DEF Init, SocketInv, Settled, Up, Alone
<1>2. IInv /\ SocketInv /\ [Next]_vars => SocketInv'
  BY SocketStep
<1>3. SocketInv => KeepsItsSocket
  BY DEF SocketInv, KeepsItsSocket, Up
<1> QED BY <1>1, <1>2, <1>3, ControlIsKept, PTL DEF Spec
=============================================================================
