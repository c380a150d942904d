------------------------------ MODULE Control ------------------------------
(***************************************************************************)
(* The control socket (src/engine/loader/control_server.rs): engines that  *)
(* start where another may be listening or may have crashed, a thread of   *)
(* each that reads requests and queues them, the pump that answers them,   *)
(* and how an engine that is told to quit closes; with the clients         *)
(* (src/engine/control/lib.rs, send), who may be slow, or gone.            *)
(*                                                                         *)
(* What a request does to the mods is Mods.tla's; here it is answered, or  *)
(* asks to quit.  Requests are answered from the engine's thread, between  *)
(* frames, so a pump may come at any time.                                 *)
(***************************************************************************)
EXTENDS Integers, Sequences, SequencesExt

CONSTANTS
  Engines,   \* processes, each started once
  Clients,   \* one request each
  Overlap    \* whether one may start or close while another does

VARIABLES
  file,      \* whose socket is at the path, or None; it may be left behind
  engine,    \* how far each engine's main thread is
  stop,      \* what an engine sets for its control thread
  thread,    \* of each engine, what its control thread does
  backlog,   \* connections that it didn't accept yet
  inbox,     \* requests, read, that no pump served yet
  quitting,  \* engines that were asked to quit
  client     \* of each client, how far it is

server == <<stop, thread, backlog>>
vars == <<file, engine, server, inbox, quitting, client>>

None == "none"    \* no engine; and a connection that is no client's

ASSUME NoneIsNone == None \notin Engines \union Clients

Nowhere  == [does |-> "nothing", with |-> None]
Accepts  == [does |-> "accepts", with |-> None]
Reads(c) == [does |-> "reads", with |-> c]
Fails(c) == [does |-> "fails", with |-> c]

Init ==
  /\ file = None
  /\ engine = [e \in Engines |-> "off"]
  /\ stop = [e \in Engines |-> FALSE]
  /\ thread = [e \in Engines |-> Nowhere]
  /\ backlog = [e \in Engines |-> <<>>] /\ inbox = [e \in Engines |-> <<>>]
  /\ quitting = {}
  /\ client = [c \in Clients |->
                 [at |-> "out", to |-> None, wrote |-> FALSE, quits |-> FALSE, late |-> FALSE]]

Listening == {e \in Engines : thread[e] # Nowhere}

(* A connection to the path, if something listens there.                   *)
Reached == {file} \intersect Listening
Connect(c) == backlog' = [e \in Engines |-> IF e \in Reached THEN Append(backlog[e], c) ELSE backlog[e]]

(* The engine's side of connections closes: clients read to the end, and   *)
(* there is no reply.                                                      *)
Waiting == {"connected", "asked"}
Hangup(cs) ==
  client' = [c \in Clients |-> IF c \in cs /\ client[c].at \in Waiting
                               THEN [client[c] EXCEPT !.at = "ended"] ELSE client[c]]
Connections(e) == ToSet(backlog[e]) \union ToSet(inbox[e]) \union {thread[e].with}

-----------------------------------------------------------------------------
(* An engine starts, and binds its socket.                                 *)
Settled == {"off", "loads", "serves", "over"}
Calm(e) == Overlap \/ \A f \in Engines \ {e} : engine[f] \in Settled

Goes(e, to) == engine' = [engine EXCEPT ![e] = to]

Start(e) ==
  /\ engine[e] = "off" /\ Calm(e)
  /\ Goes(e, IF file # None THEN "tries" ELSE "binds")
  /\ UNCHANGED <<file, server, inbox, quitting, client>>

TakesOver(e) ==   \* a mutant: a file that is there is always removed
  /\ engine[e] = "tries"
  /\ Connect(None) /\ Goes(e, "removes")
  /\ UNCHANGED <<file, stop, thread, inbox, quitting, client>>

Tries(e) ==
  /\ engine[e] = "tries"
  /\ Connect(None) /\ Goes(e, IF Reached # {} THEN "over" ELSE "removes")
  /\ UNCHANGED <<file, stop, thread, inbox, quitting, client>>

Removes(e) ==
  /\ engine[e] = "removes"
  /\ file' = None /\ Goes(e, "binds")
  /\ UNCHANGED <<server, inbox, quitting, client>>

Binds(e) ==
  /\ engine[e] = "binds"
  /\ IF file # None THEN Goes(e, "over") /\ UNCHANGED <<file, thread>>
     ELSE file' = e /\ Goes(e, "loads") /\ thread' = [thread EXCEPT ![e] = Accepts]
  /\ UNCHANGED <<stop, backlog, inbox, quitting, client>>

(* The first batch; without it, or once the engine is to quit, it closes.  *)
Loads(e) ==
  /\ engine[e] = "loads"
  /\ Goes(e, "serves") \/ (Calm(e) /\ Goes(e, "stops"))
  /\ UNCHANGED <<file, server, inbox, quitting, client>>

-----------------------------------------------------------------------------
(* The control thread.                                                     *)
Accept(e) ==
  /\ thread[e].does = "accepts" /\ backlog[e] # <<>>
  /\ IF stop[e]
     THEN /\ thread' = [thread EXCEPT ![e] = Nowhere]
          /\ backlog' = [backlog EXCEPT ![e] = <<>>] /\ Hangup(ToSet(backlog[e]))
     ELSE /\ thread' = [thread EXCEPT ![e] = Reads(Head(backlog[e]))]
          /\ backlog' = [backlog EXCEPT ![e] = Tail(@)] /\ UNCHANGED client
  /\ UNCHANGED <<file, engine, stop, inbox, quitting>>

(* It reads until the client's side is shut, or gone; or a read has waited *)
(* for a second, though the client may have written by then.  That a       *)
(* client's side was open when its read failed is history (late): nothing  *)
(* reads it but a property.                                                *)
Shut(c) == c # None => client[c].at # "connected"

ReadRequest(e) ==
  /\ thread[e].does = "reads" /\ Shut(thread[e].with)
  /\ inbox' = [inbox EXCEPT ![e] = Append(@, thread[e].with)]
  /\ thread' = [thread EXCEPT ![e] = Accepts]
  /\ UNCHANGED <<file, engine, stop, backlog, quitting, client>>

TimesOutAny(e) ==   \* a mutant: the time is of the whole read, whatever has come by then
  /\ thread[e].does = "reads" /\ thread[e].with # None
  /\ thread' = [thread EXCEPT ![e].does = "fails"]
  /\ client' = [client EXCEPT ![thread[e].with].late = ~Shut(thread[e].with)]
  /\ UNCHANGED <<file, engine, stop, backlog, inbox, quitting>>
TimesOut(e) ==
  /\ thread[e].does = "reads" /\ ~Shut(thread[e].with)
  /\ thread' = [thread EXCEPT ![e] = Fails(@.with)]
  /\ client' = [client EXCEPT ![thread[e].with].late = TRUE]
  /\ UNCHANGED <<file, engine, stop, backlog, inbox, quitting>>

(* It then hangs up, on a client that may have gone on meanwhile.          *)
HangsUp(e) ==
  /\ thread[e].does = "fails"
  /\ Hangup({thread[e].with}) /\ thread' = [thread EXCEPT ![e] = Accepts]
  /\ UNCHANGED <<file, engine, stop, backlog, inbox, quitting>>

-----------------------------------------------------------------------------
(* The pump serves a request: what a client wrote before it was gone too,  *)
(* and what says nothing, which is an error.  A reply to one that is gone  *)
(* is lost.                                                                *)
Quits(c) == c # None /\ client[c].wrote /\ client[c].quits

ServeAndGo(e) ==   \* a mutant: what asks to quit isn't answered
  /\ engine[e] = "serves" /\ inbox[e] # <<>>
  /\ LET c == Head(inbox[e])
     IN  /\ quitting' = IF Quits(c) THEN quitting \union {e} ELSE quitting
         /\ client' = [d \in Clients |-> IF d = c /\ client[d].at = "asked" /\ ~Quits(c)
                                         THEN [client[d] EXCEPT !.at = "answered"] ELSE client[d]]
  /\ inbox' = [inbox EXCEPT ![e] = Tail(@)]
  /\ UNCHANGED <<file, engine, server>>
Serve(e) ==
  /\ engine[e] = "serves" /\ inbox[e] # <<>>
  /\ LET c == Head(inbox[e])
     IN  /\ quitting' = IF Quits(c) THEN quitting \union {e} ELSE quitting
         /\ client' = [d \in Clients |-> IF d = c /\ client[d].at = "asked"
                                         THEN [client[d] EXCEPT !.at = "answered"] ELSE client[d]]
  /\ inbox' = [inbox EXCEPT ![e] = Tail(@)]
  /\ UNCHANGED <<file, engine, server>>

(* It serves what there is before it quits.                                *)
Quit(e) ==
  /\ engine[e] = "serves" /\ e \in quitting /\ inbox[e] = <<>> /\ Calm(e)
  /\ Goes(e, "stops")
  /\ UNCHANGED <<file, server, inbox, quitting, client>>

(* It closes (ControlServer, drop): its thread is told, and woken by a     *)
(* connection; when it is done the file is removed.                        *)
Stops(e) ==
  /\ engine[e] = "stops"
  /\ stop' = [stop EXCEPT ![e] = TRUE] /\ Goes(e, "wakes")
  /\ UNCHANGED <<file, thread, backlog, inbox, quitting, client>>

JoinsAsleep(e) ==   \* a mutant: the thread isn't woken
  /\ engine[e] = "wakes"
  /\ Goes(e, "joins")
  /\ UNCHANGED <<file, server, inbox, quitting, client>>
Wakes(e) ==
  /\ engine[e] = "wakes"
  /\ Connect(None) /\ Goes(e, "joins")
  /\ UNCHANGED <<file, stop, thread, inbox, quitting, client>>

Joins(e) ==
  /\ engine[e] = "joins" /\ thread[e] = Nowhere
  /\ Goes(e, "unlinks")
  /\ UNCHANGED <<file, server, inbox, quitting, client>>

Unlinks(e) ==
  /\ engine[e] = "unlinks"
  /\ file' = None /\ Goes(e, "exits")
  /\ UNCHANGED <<server, inbox, quitting, client>>

(* Its mods are closed; what was still queued goes with it.                *)
Exits(e) ==
  /\ engine[e] = "exits"
  /\ Goes(e, "over") /\ Hangup(ToSet(inbox[e])) /\ inbox' = [inbox EXCEPT ![e] = <<>>]
  /\ UNCHANGED <<file, server, quitting>>

(* It is killed; its socket stays.                                         *)
Crash(e) ==
  /\ engine[e] \notin {"off", "over"}
  /\ Goes(e, "over") /\ Hangup(Connections(e))
  /\ thread' = [thread EXCEPT ![e] = Nowhere]
  /\ backlog' = [backlog EXCEPT ![e] = <<>>] /\ inbox' = [inbox EXCEPT ![e] = <<>>]
  /\ UNCHANGED <<file, stop, quitting>>

-----------------------------------------------------------------------------
(* A client.  It may be slow to write, or to shut its side after it did,   *)
(* and killed at any time.                                                 *)
Call(c, quits) ==
  /\ client[c].at = "out"
  /\ Connect(c)
  /\ client' = [client EXCEPT ![c] = IF Reached = {} THEN [@ EXCEPT !.at = "ended"]
                                     ELSE [@ EXCEPT !.at = "connected", !.to = file, !.quits = quits]]
  /\ UNCHANGED <<file, engine, stop, thread, inbox, quitting>>

Write(c) ==
  /\ client[c].at = "connected" /\ ~client[c].wrote
  /\ client' = [client EXCEPT ![c].wrote = TRUE]
  /\ UNCHANGED <<file, engine, server, inbox, quitting>>

Shuts(c) ==
  /\ client[c].at = "connected" /\ client[c].wrote
  /\ client' = [client EXCEPT ![c].at = "asked"]
  /\ UNCHANGED <<file, engine, server, inbox, quitting>>

Leave(c) ==
  /\ client[c].at \in Waiting
  /\ client' = [client EXCEPT ![c].at = "left"]
  /\ UNCHANGED <<file, engine, server, inbox, quitting>>

Main(e) ==
  \/ Start(e) \/ Tries(e) \/ Removes(e) \/ Binds(e) \/ Loads(e) \/ Serve(e) \/ Quit(e)
  \/ Stops(e) \/ Wakes(e) \/ Joins(e) \/ Unlinks(e) \/ Exits(e)
Reader(e) == Accept(e) \/ ReadRequest(e) \/ TimesOut(e) \/ HangsUp(e)

Next ==
  \/ \E e \in Engines : Main(e) \/ Reader(e) \/ Crash(e)
  \/ \E c \in Clients : Write(c) \/ Shuts(c) \/ Leave(c) \/ \E q \in BOOLEAN : Call(c, q)

Spec == Init /\ [][Next]_vars

(* Both threads of an engine run.  A client needn't: one that doesn't      *)
(* write is hung up on after a second.                                     *)
FairSpec == Spec /\ \A e \in Engines : WF_vars(Main(e)) /\ WF_vars(Reader(e))

-----------------------------------------------------------------------------
Stages == {"off", "tries", "removes", "binds", "loads", "serves", "stops", "wakes",
           "joins", "unlinks", "exits", "over"}

(* A connection is at one place of one engine, the one it was made to; an  *)
(* engine has a control thread from when it is bound, which may end once   *)
(* it is told to and has until it is joined.                               *)
TypeOK ==
  /\ file \in Engines \union {None} /\ engine \in [Engines -> Stages]
  /\ \A c \in Clients : client[c].at \in Waiting =>
       \A e \in Engines : (c \in Connections(e)) <=> (e = client[c].to)
  /\ \A e \in Engines : engine[e] \in {"loads", "serves", "stops"} => e \in Listening
  /\ \A e \in Engines : engine[e] \in Stages \ {"loads", "serves", "stops", "wakes", "joins"} => e \notin Listening

(* An engine that is up has the socket at its path: a second does not take *)
(* it, nor does one that closes take it away; and what crashed leaves its  *)
(* socket, but doesn't keep the next from having its own (e2e_test.rs: "A  *)
(* second engine must not steal the socket from the first.").              *)
KeepsItsSocket == \A e \in Engines : engine[e] \in {"loads", "serves"} => file = e

(* A client that has written its request and stays has a reply, unless a   *)
(* read of it timed out before its side was shut (control_server.rs: "so   *)
(* EOF ends the request"), or the engine is closing, or gone: none is lost *)
(* on its way through the control thread, the inbox and the pump, to slow  *)
(* clients before it, to one that asks to quit, or to an engine that ends  *)
(* meanwhile, its own or another.                                          *)
RepliesWhileItServes ==
  \A c \in Clients :
    client[c].at = "ended" /\ client[c].wrote /\ ~client[c].late
      => engine[client[c].to] \notin {"loads", "serves"}

(* A client's call comes to an end, with a reply or without, while others  *)
(* are slow or gone; and an engine that is asked to quit does, with its    *)
(* control thread in a read, or waiting for a connection.                  *)
CallsEnd ==
  /\ \A c \in Clients : client[c].at \in Waiting ~> client[c].at \notin Waiting
  /\ \A e \in Engines : e \in quitting ~> engine[e] = "over"
==============================================================================
