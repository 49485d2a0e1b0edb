------------------------------ MODULE Delivery ------------------------------
(***************************************************************************)
(* What the backend may count on, without collectors, keys or crashes: a   *)
(* report is emitted once and received at most once, possibly late or      *)
(* never; the agent learns of a reception only for its newest report, and  *)
(* only while that is the newest.                                          *)
(***************************************************************************)
EXTENDS Naturals, Sequences

VARIABLES
  latest,    \* number of the last report emitted
  received,  \* the reports the backend has, in the order of arrival
  acked      \* the reports whose reception the agent was told of

vars == <<latest, received, acked>>

HasReceived(r) == \E i \in DOMAIN received : received[i] = r

Init ==
  /\ latest = 0
  /\ received = <<>>
  /\ acked = {}

Emit ==
  /\ latest' = latest + 1
  /\ UNCHANGED <<received, acked>>

Receive(r) ==
  /\ ~HasReceived(r)
  /\ received' = Append(received, r)
  /\ UNCHANGED <<latest, acked>>

Confirm ==
  /\ HasReceived(latest)
  /\ acked' = acked \cup {latest}
  /\ UNCHANGED <<latest, received>>

Next == Emit \/ Confirm \/ \E r \in 1..latest : Receive(r)

Spec == Init /\ [][Next]_vars

-----------------------------------------------------------------------------
(* Consequences for the backend *)

\* The ranges.
TypeOK ==
  /\ latest \in Nat
  /\ received \in Seq(1..latest)
  /\ acked \subseteq 1..latest

\* No report arrives twice: a POST is not repeated (agent.cpp:29-34).
AtMostOnce ==
  \A i, j \in DOMAIN received : received[i] = received[j] => i = j

\* A report the agent takes for delivered is with the backend (agent.cpp:31,
\* http.cpp:23-36).
AckedReceived == \A r \in acked : HasReceived(r)

\* A report that arrives after a newer one is one the agent had given up: those
\* it takes for delivered arrive in the order of their beats (agent.cpp:68,
\* http.cpp:84).
OvertakenGivenUp ==
  \A i, j \in DOMAIN received :
    i < j /\ received[j] \in acked => received[i] < received[j]
=============================================================================
