------------------------------ MODULE MCDaemon ------------------------------
(* Instance of Daemon for TLC.  The state space is finite for any interval. *)
EXTENDS Daemon
=============================================================================
