------------------------------- MODULE MCPool -------------------------------
(* Two threads that dispatch, on a shared pool or one of them on its own;  *)
(* pools of up to three threads, and runs of more tasks than threads.      *)
EXTENDS Pool

MCCallers == {"frame", "test"}
==============================================================================
