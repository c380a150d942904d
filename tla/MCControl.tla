------------------------------ MODULE MCControl ------------------------------
(* An engine and the next, and two clients.                              *)
EXTENDS Control

MCEngines == {"first", "second"}
MCClients == {"c1", "c2"}
==============================================================================
