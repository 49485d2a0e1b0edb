------------------------------ MODULE MCAgent ------------------------------
(* Two system sections, two reports, two changes of the observed world.     *)
EXTENDS Agent
=============================================================================
