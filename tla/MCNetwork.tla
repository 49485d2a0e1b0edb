----------------------------- MODULE MCNetwork -----------------------------
(* Two devices, the first with two addresses and a third one under a label   *)
(* of its own, and the loopback device.                                      *)
EXTENDS Network

MCName == <<"eth0", "eth0", "eth0:1", "wlan0", "lo">>
MCDevice == [a \in 1..4 |-> IF a = 4 THEN "wlan0" ELSE "eth0"]
=============================================================================
