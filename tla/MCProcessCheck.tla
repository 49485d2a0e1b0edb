--------------------------- MODULE MCProcessCheck ---------------------------
(* Three pids: enough for one that is listed and dies, one that is reused and *)
(* one that stays.                                                            *)
EXTENDS ProcessCheck
=============================================================================
