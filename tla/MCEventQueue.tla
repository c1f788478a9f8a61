---------------------------- MODULE MCEventQueue ----------------------------
(* EventQueue on a small instance; every bound is in the configuration.    *)
EXTENDS EventQueue
=============================================================================
