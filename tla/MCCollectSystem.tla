-------------------------- MODULE MCCollectSystem --------------------------
(* The five collectors of collectSystemData, in the orders of all.cpp.      *)
EXTENDS CollectSystem

MCCollectors == {"disk", "memory", "cpu", "network", "load"}
MCSpawn == <<"disk", "memory", "cpu", "network", "load">>
MCGets == <<"cpu", "network", "disk", "memory", "load">>
=============================================================================
