---------------------------- MODULE MCEventQueue ----------------------------
(* Two producers and two consumers over a queue of one entry. *)
EXTENDS EventQueue
=============================================================================
