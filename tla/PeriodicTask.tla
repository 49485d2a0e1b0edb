---------------------------- MODULE PeriodicTask ----------------------------
(***************************************************************************)
(* What the class comment of Daemon promises ("Execute task periodically   *)
(* as long as Daemon is alive"), without threads, locks or clocks: one     *)
(* activation at a time, a rest between two activations, and, once the     *)
(* owner has asked for the end, at most one more activation before the     *)
(* daemon is over.                                                         *)
(***************************************************************************)
EXTENDS Naturals

VARIABLES
  running,  \* an activation of the task is in progress
  rested,   \* the interval since the last activation has elapsed
  life,     \* "up", "stopping" (end requested), "over" or "aborted"
  late      \* activations begun after the end was requested

vars == <<running, rested, life, late>>

Init ==
  /\ running = FALSE
  /\ rested = TRUE
  /\ life = "up"
  /\ late = 0

Begin ==
  /\ ~running
  /\ rested
  /\ \/ life = "up" /\ UNCHANGED late
     \/ life = "stopping" /\ late = 0 /\ late' = 1
  /\ running' = TRUE
  /\ rested' = FALSE
  /\ UNCHANGED life

End ==
  /\ running
  /\ running' = FALSE
  /\ UNCHANGED <<rested, life, late>>

Rest ==
  /\ ~running
  /\ ~rested
  /\ rested' = TRUE
  /\ UNCHANGED <<running, life, late>>

Stop ==
  /\ life = "up"
  /\ life' = "stopping"
  /\ UNCHANGED <<running, rested, late>>

Over ==
  /\ life = "stopping"
  /\ ~running
  /\ life' = "over"
  /\ UNCHANGED <<running, rested, late>>

\* The task fails in a way its caller cannot handle and takes everything down.
Abort ==
  /\ running
  /\ life \in {"up", "stopping"}
  /\ life' = "aborted"
  /\ UNCHANGED <<running, rested, late>>

Next == Begin \/ End \/ Rest \/ Stop \/ Over \/ Abort

Spec == Init /\ [][Next]_vars
=============================================================================
