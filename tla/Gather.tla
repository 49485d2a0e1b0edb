------------------------------- MODULE Gather -------------------------------
(***************************************************************************)
(* What a caller of collectSystemData or collectValidatorData relies on,   *)
(* without threads, promises or futures: sections arrive one by one, each  *)
(* once and in any order, and the call returns when it has them all.  It   *)
(* may instead throw, before anything has been collected, or the whole     *)
(* process may die under it.                                               *)
(***************************************************************************)
CONSTANT Collectors

VARIABLES
  got,      \* the sections collected so far
  outcome   \* "collecting", "returned", "threw" or "dead"

vars == <<got, outcome>>

Init ==
  /\ got = {}
  /\ outcome = "collecting"

Deliver(c) ==
  /\ outcome = "collecting"
  /\ c \notin got
  /\ got' = got \cup {c}
  /\ UNCHANGED outcome

Return ==
  /\ outcome = "collecting"
  /\ got = Collectors
  /\ outcome' = "returned"
  /\ UNCHANGED got

Throw ==
  /\ outcome = "collecting"
  /\ got = {}
  /\ outcome' = "threw"
  /\ UNCHANGED got

Die ==
  /\ outcome = "collecting"
  /\ outcome' = "dead"
  /\ UNCHANGED got

Next == (\E c \in Collectors : Deliver(c)) \/ Return \/ Throw \/ Die

Spec == Init /\ [][Next]_vars
=============================================================================
