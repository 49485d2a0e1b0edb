-------------------------- MODULE ValidationCheck --------------------------
(***************************************************************************)
(* runValidationCheck (src/checks/validation.cpp): four verdicts on one    *)
(* server_info, again in every beat.  A member that server_info lacks      *)
(* reads as null, and jsoncpp compares values of different types by the    *)
(* order of the types alone, null before integers before reals.            *)
(***************************************************************************)
EXTENDS Integers

CONSTANTS
  States,                 \* the server_state strings that are told apart
  Ages, Peers, Latencies  \* the numbers a member may hold

ASSUME NumbersAssumption ==
  Ages \subseteq Int /\ Peers \subseteq Int /\ Latencies \subseteq Int

VARIABLES
  info,     \* what getServerInfo returned
  verdict   \* the exit codes of the report made from it

vars == <<info, verdict>>

-----------------------------------------------------------------------------
(* JSON values: the type's rank in jsoncpp, and the number                  *)

Null == [rank |-> 0, num |-> 0]
Integer(n) == [rank |-> 1, num |-> n]
Real(n) == [rank |-> 3, num |-> n]

\* Json::Value::operator<, and <= defined from it.
Less(a, b) == IF a.rank # b.rank THEN a.rank < b.rank ELSE a.num < b.num
AtMost(a, b) == ~Less(b, a)

Values(S) == {Null} \cup {Integer(n) : n \in S} \cup {Real(n) : n \in S}

\* No answer, or an object with some of the members.
Empty == [empty |-> TRUE]
Answers ==
  [empty : {FALSE}, server_state : States, age : Values(Ages),
   peers : Values(Peers), io_latency_ms : Values(Latencies)]

-----------------------------------------------------------------------------
(* The four checks: exit code 0 for OK, 1 for WARNING, 2 for CRITICAL       *)

StateCheck(i) ==
  IF i.empty THEN 2
  ELSE IF i.server_state \in {"full", "validating", "proposing"} THEN 0
  ELSE IF i.server_state \in {"syncing", "tracking", "connected"} THEN 1
  ELSE 2

\* Definitions named ...Mutant are bugs this code does not have; a property of
\* a run is refuted when one stands in for the definition after it.

\* Mutant: the boundary of the warning is moved by one.
AgeCheckMutant(i) ==
  IF i.empty THEN 2
  ELSE IF AtMost(i.age, Integer(7)) THEN 0
  ELSE IF AtMost(i.age, Integer(20)) THEN 1
  ELSE 2

AgeCheck(i) ==
  IF i.empty THEN 2
  ELSE IF Less(i.age, Integer(7)) THEN 0
  ELSE IF AtMost(i.age, Integer(20)) THEN 1
  ELSE 2

\* Mutant: the case of no answer is forgotten.
PeersCheckMutant(i) ==
  IF i.empty THEN 1
  ELSE IF Less(Integer(7), i.peers) THEN 0
  ELSE IF Less(Integer(0), i.peers) THEN 1
  ELSE 2

PeersCheck(i) ==
  IF i.empty THEN 2
  ELSE IF Less(Integer(7), i.peers) THEN 0
  ELSE IF AtMost(i.peers, Integer(7)) /\ Less(Integer(0), i.peers) THEN 1
  ELSE 2

\* Mutant: the critical range is tested as the warning one.
LatencyCheckMutant(i) ==
  IF i.empty THEN 2
  ELSE IF AtMost(i.io_latency_ms, Integer(1)) THEN 0
  ELSE IF AtMost(i.io_latency_ms, Integer(2)) THEN 2
  ELSE 1

LatencyCheck(i) ==
  IF i.empty THEN 2
  ELSE IF AtMost(i.io_latency_ms, Integer(1)) THEN 0
  ELSE IF Less(Integer(1), i.io_latency_ms) /\ AtMost(i.io_latency_ms, Integer(2)) THEN 1
  ELSE 2

Verdict(i) ==
  [ServerState |-> StateCheck(i), AgeLastValidation |-> AgeCheck(i),
   PeersCount |-> PeersCheck(i), IOLatency |-> LatencyCheck(i)]

Commands == {"ServerState", "AgeLastValidation", "PeersCount", "IOLatency"}

-----------------------------------------------------------------------------
Init ==
  /\ info = Empty
  /\ verdict = Verdict(Empty)

\* One beat's check; the next beat may get any other answer.
runValidationCheck(i) ==
  /\ info' = i
  /\ verdict' = Verdict(i)

Next == \E i \in Answers \cup {Empty} : runValidationCheck(i)

Spec == Init /\ [][Next]_vars

-----------------------------------------------------------------------------
(* Properties *)

\* Every variable stays in its range (validation.cpp:22-142).
TypeOK ==
  /\ info \in Answers \cup {Empty}
  /\ verdict \in [Commands -> 0..2]

\* The numbers were all there, and were integers.
Known(i) ==
  ~i.empty /\ i.age.rank = 1 /\ i.peers.rank = 1 /\ i.io_latency_ms.rank = 1

\* Of numbers that are there the verdicts on the age and on the latency are those the
\* comments announce, and the verdict on the peers is the one its own text states
\* (validation.cpp:51, 113-117 and 99, 104, 109; for the comment on peers see
\* WarnsBelowFive).
VerdictsAsWorded ==
  Known(info) =>
    /\ verdict.AgeLastValidation =
         (IF info.age.num < 7 THEN 0 ELSE IF info.age.num <= 20 THEN 1 ELSE 2)
    /\ info.peers.num > 7 => verdict.PeersCount = 0
    /\ info.peers.num \in 1..7 => verdict.PeersCount = 1
    /\ info.peers.num = 0 => verdict.PeersCount = 2
    /\ verdict.IOLatency =
         (IF info.io_latency_ms.num <= 1 THEN 0
          ELSE IF info.io_latency_ms.num > 2 THEN 2 ELSE 1)

\* When neither the RPC port nor the crawler answers, no check is content,
\* whatever the beat before had seen (validation.cpp:20-24, 55-60, 88-93, 121-126).
SilenceIsCritical == info.empty => \A c \in Commands : verdict[c] = 2

\* From one beat to the next no number that got worse gets a better verdict
\* (validation.cpp:63-80, 96-110, 129-143).
WorseIsNeverBetter ==
  [][Known(info) /\ Known(info') =>
       /\ info'.age.num >= info.age.num
            => verdict'.AgeLastValidation >= verdict.AgeLastValidation
       /\ info'.peers.num <= info.peers.num
            => verdict'.PeersCount >= verdict.PeersCount
       /\ info'.io_latency_ms.num >= info.io_latency_ms.num
            => verdict'.IOLatency >= verdict.IOLatency]_vars

\* "Number of peers is >7 (healthy) <5 (warning unless configured w/ peer_private), or 0
\* (critical)": who is warned of a number of peers has fewer than five
\* (validation.cpp:83-84).
WarnsBelowFive == Known(info) /\ verdict.PeersCount = 1 => info.peers.num < 5

\* "Age of last validated ledger is < 7s (healthy)": a validator that is in validation mode
\* and whose other numbers are there is called healthy of its ledger's age only if there is
\* an age (validation.cpp:51).
HealthyAgeIsKnown ==
  /\ verdict.ServerState = 0 /\ verdict.AgeLastValidation = 0
  /\ info.peers.rank = 1 /\ info.io_latency_ms.rank = 1
  => info.age # Null
=============================================================================
