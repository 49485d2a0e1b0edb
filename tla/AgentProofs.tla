---------------------------- MODULE AgentProofs ----------------------------
(***************************************************************************)
(* Theorems about Agent, for any set of system sections and any bounds on  *)
(* reports and changes.                                                    *)
(***************************************************************************)
EXTENDS Agent, TLAPS

\* What a look leaves behind.
LEMMA LookFacts ==
        ASSUME TypeOK, NEW s \in Sections, NEW next, Look(s, next)
        PROVE  /\ seen' \in [Sections -> 0..MaxWorld]
               /\ \A t \in Sections : seen'[t] = IF t = s THEN world ELSE seen[t]
               /\ pc' = next
               /\ UNCHANGED <<began, world, key, file, sent, net, answers, received, acked>>
  <1>1. world \in 0..MaxWorld
    BY AgentAssumption DEF TypeOK
  <1>2. QED
    BY <1>1 DEF Look, TypeOK, config, backend

\* A fetch is a look, a fall through to the next state, or the end.
LEMMA ValidatorCases ==
        ASSUME Validator
        PROVE  /\ pc \in {"rpc1", "crawl1"}
               /\ UNCHANGED <<got, outcome>>
               /\ \/ Look("validator", "process")
                  \/ /\ pc' \in {"crawl1", "process", "down"}
                     /\ UNCHANGED <<seen, began, world, config, backend>>
  BY Zenon DEF Validator, FetchRPC, FetchCrawler, Die

\* The same of the second fetch.
LEMMA ChecksCases ==
        ASSUME Checks
        PROVE  /\ pc \in {"rpc2", "crawl2"}
               /\ UNCHANGED <<got, outcome>>
               /\ \/ Look("checks", "sign")
                  \/ /\ pc' \in {"crawl2", "sign", "down"}
                     /\ UNCHANGED <<seen, began, world, config, backend>>
  BY Zenon DEF Checks, FetchRPC, FetchCrawler, Die

\* IndInv holds at the start.
LEMMA InitIndInv == Init => IndInv
  <1> SUFFICES ASSUME Init PROVE IndInv
    OBVIOUS
  <1>1. TypeOK
    BY AgentAssumption
    DEF Init, Sys!Init, TypeOK, Busy, NoneSeen, Sections
  <1>2. Looked /\ Known
    BY DEF Init, Looked, Known, Busy
  <1>3. QED
    BY <1>1, <1>2 DEF IndInv

\* The ranges survive every step.
LEMMA StepType == IndInv /\ [Next]_vars => TypeOK'
  <1> SUFFICES ASSUME IndInv, [Next]_vars PROVE TypeOK'
    OBVIOUS
  <1> USE AgentAssumption
      DEF IndInv, TypeOK, Busy, Sections, beat, config, backend, Die, Rest
  <1>1. CASE Begin
    BY <1>1 DEF Begin, NoneSeen
  <1>2. CASE System
    <2>1. ASSUME NEW c \in Collectors, Sys!Deliver(c), Look(c, "system")
          PROVE  TypeOK'
      BY <2>1, LookFacts DEF Sys!Deliver
    <2>2. CASE Sys!Return /\ pc' = "host"
               /\ UNCHANGED <<seen, began, world, config, backend>>
      BY <2>2 DEF Sys!Return
    <2>3. CASE (Sys!Throw \/ Sys!Die) /\ Die
      BY <2>3 DEF Sys!Throw, Sys!Die
    <2>4. QED
      BY <1>2, <2>1, <2>2, <2>3 DEF System
  <1>3. CASE Host \/ Process
    BY <1>3, LookFacts DEF Host, Process
  <1>4. CASE Validator
    BY <1>4, ValidatorCases, LookFacts
  <1>5. CASE Checks
    BY <1>5, ChecksCases, LookFacts
  <1>6. CASE Sign
    BY <1>6 DEF Sign
  <1>7. CASE Post
    BY <1>7 DEF Post, Known
  <1>8. CASE Answered
    BY <1>8 DEF Answered
  <1>9. CASE GiveUp
    BY <1>9 DEF GiveUp
  <1>10. ASSUME NEW r \in net, Receive(r) PROVE TypeOK'
    <2>1. received' \in Seq(1..sent)
      BY <1>10 DEF Receive
    <2>2. answers' \subseteq [report : 1..sent, ok : BOOLEAN]
      BY <1>10 DEF Receive
    <2>3. QED
      BY <1>10, <2>1, <2>2 DEF Receive
  <1>11. ASSUME NEW r \in net, Refuse(r) PROVE TypeOK'
    <2>1. answers' \subseteq [report : 1..sent, ok : BOOLEAN]
      <3>1. r \in 1..sent /\ FALSE \in BOOLEAN
        BY <1>11
      <3>2. [report |-> r, ok |-> FALSE] \in [report : 1..sent, ok : BOOLEAN]
        BY <3>1, Zenon
      <3>3. QED
        BY <1>11, <3>2 DEF Refuse
    <2>2. QED
      BY <1>11, <2>1 DEF Refuse
  <1>12. CASE Lose
    BY <1>12 DEF Lose
  <1>13. CASE Evolve
    BY <1>13 DEF Evolve
  <1>14. CASE Crash \/ EditConfig \/ Restart \/ Halt \/ Start
    BY <1>14 DEF Crash, EditConfig, Restart, Halt, Start, Launch
  <1>15. CASE UNCHANGED vars
    BY <1>15 DEF vars
  <1>16. QED
    BY <1>1, <1>2, <1>3, <1>4, <1>5, <1>6, <1>7, <1>8, <1>9, <1>10, <1>11,
       <1>12, <1>13, <1>14, <1>15
    DEF Next, BeatStep, Environment

\* A look of a running beat is at a state of this beat, and moves no other section.
LEMMA LookKeeps ==
        ASSUME IndInv, pc \in Busy, NEW s \in Sections, NEW next, Look(s, next)
        PROVE  /\ pc' = next
               /\ began' <= world'
               /\ seen'[s] = world /\ world # 0 /\ world' = world
               /\ \A t \in Sections : seen'[t] = 0 \/ seen'[t] \in began'..world'
               /\ \A t \in Sections : t # s => seen'[t] = seen[t]
               /\ \A t \in Sections : seen[t] # 0 => seen'[t] # 0
               /\ \A t \in Sections : seen'[t] <= world
  <1> USE DEF IndInv
  <1>1. /\ \A t \in Sections : seen'[t] = IF t = s THEN world ELSE seen[t]
        /\ pc' = next /\ UNCHANGED <<began, world>>
    BY LookFacts
  <1>2. /\ began \in 1..MaxWorld /\ world \in 1..MaxWorld /\ MaxWorld \in Nat
        /\ seen \in [Sections -> 0..MaxWorld]
    BY AgentAssumption DEF TypeOK
  <1>3. began <= world /\ \A t \in Sections : seen[t] = 0 \/ seen[t] \in began..world
    BY DEF Looked
  <1>4. QED
    BY <1>1, <1>2, <1>3

\* So does what is known of the sections.
LEMMA StepLooked == IndInv /\ [Next]_vars => Looked'
  <1> SUFFICES ASSUME IndInv, [Next]_vars PROVE Looked'
    OBVIOUS
  <1> USE AgentAssumption
      DEF IndInv, TypeOK, Busy, Sections, Looked, beat, config, backend, Die, Rest
  <1>1. CASE Begin
    BY <1>1 DEF Begin, NoneSeen
  <1>2. CASE System
    <2>1. ASSUME NEW c \in Collectors, Sys!Deliver(c), Look(c, "system"), pc = "system"
          PROVE  Looked'
      <3>1. c \in Sections /\ c # "checks" /\ "checks" \in Sections
        OBVIOUS
      <3>2. seen["checks"] = 0 /\ seen'["checks"] = 0
        BY <2>1, <3>1, LookKeeps
      <3>3. \A d \in got' : seen'[d] # 0
        BY <2>1, <3>1, LookKeeps DEF Sys!Deliver
      <3>4. QED
        BY <2>1, <3>1, <3>2, <3>3, LookKeeps
    <2>2. CASE Sys!Return /\ pc' = "host"
               /\ UNCHANGED <<seen, began, world, config, backend>>
      BY <1>2, <2>2 DEF System, Sys!Return
    <2>3. CASE (Sys!Throw \/ Sys!Die) /\ Die
      BY <2>3
    <2>4. QED
      BY <1>2, <2>1, <2>2, <2>3 DEF System
  <1>3. CASE Host
    BY <1>3, LookKeeps DEF Host
  <1>4. CASE Validator
    <2>1. pc \in {"rpc1", "crawl1"} /\ UNCHANGED <<got, outcome>>
      BY <1>4, ValidatorCases
    <2>2. CASE Look("validator", "process")
      <3>1. {"validator", "host", "checks"} \subseteq Sections
        OBVIOUS
      <3>2. got = Collectors /\ seen["host"] # 0 /\ seen["checks"] = 0
        BY <2>1
      <3>3. seen'["host"] # 0 /\ seen'["checks"] = 0
        BY <2>1, <2>2, <3>1, <3>2, LookKeeps
      <3>4. QED
        BY <2>1, <2>2, <3>2, <3>3, LookKeeps
    <2>3. CASE /\ pc' \in {"crawl1", "process", "down"}
               /\ UNCHANGED <<seen, began, world, config, backend>>
      BY <2>1, <2>3
    <2>4. QED
      BY <1>4, ValidatorCases, <2>2, <2>3
  <1>5. CASE Process
    BY <1>5, LookKeeps DEF Process
  <1>6. CASE Checks
    BY <1>6, ChecksCases, LookFacts, SMTT(30)
  <1>7. CASE Sign \/ Post \/ Answered \/ GiveUp
    BY <1>7 DEF Sign, Post, Answered, GiveUp
  <1>8. ASSUME NEW r \in net, Receive(r) \/ Refuse(r) PROVE Looked'
    BY <1>8 DEF Receive, Refuse
  <1>9. CASE Evolve
    BY <1>9 DEF Evolve
  <1>10. CASE Lose \/ Crash \/ EditConfig \/ Restart \/ Halt \/ Start
    BY <1>10 DEF Lose, Crash, EditConfig, Restart, Halt, Start, Launch
  <1>11. CASE UNCHANGED vars
    BY <1>11 DEF vars
  <1>12. QED
    BY <1>1, <1>2, <1>3, <1>4, <1>5, <1>6, <1>7, <1>8, <1>9, <1>10, <1>11
    DEF Next, BeatStep, Environment

\* And what is known of the reports.
LEMMA StepKnown == IndInv /\ [Next]_vars => Known'
  <1> SUFFICES ASSUME IndInv, [Next]_vars PROVE Known'
    OBVIOUS
  <1> USE DEF IndInv, TypeOK, Busy, Known, Reports!HasReceived, beat, config, backend,
              Die, Rest
  <1>1. CASE Begin
    BY <1>1 DEF Begin
  <1>2. CASE System
    BY <1>2 DEF System, Look
  <1>3. CASE Host \/ Process
    BY <1>3 DEF Host, Process, Look
  <1>4. CASE Validator
    BY <1>4, ValidatorCases DEF Look
  <1>5. CASE Checks
    BY <1>5, ChecksCases DEF Look
  <1>6. CASE Sign
    BY <1>6 DEF Sign
  <1>7. CASE Post
    BY <1>7 DEF Post
  <1>8. CASE Answered \/ GiveUp
    BY <1>8 DEF Answered, GiveUp
  <1>9. ASSUME NEW r \in net, Receive(r) PROVE Known'
    <2>1. /\ DOMAIN received = 1..Len(received)
          /\ DOMAIN received' = 1..(Len(received) + 1)
          /\ received'[Len(received) + 1] = r
          /\ \A i \in 1..Len(received) : received'[i] = received[i]
      BY <1>9 DEF Receive
    <2>2. \A q \in net' : ~Reports!HasReceived(q)'
      BY <1>9, <2>1, SMTT(30) DEF Receive
    <2>3. \A a \in answers' : a.ok => Reports!HasReceived(a.report)'
      BY <1>9, <2>1 DEF Receive
    <2>4. QED
      BY <1>9, <2>2, <2>3 DEF Receive
  <1>10. ASSUME NEW r \in net, Refuse(r) PROVE Known'
    BY <1>10 DEF Refuse
  <1>11. CASE Lose
    BY <1>11 DEF Lose
  <1>12. CASE Evolve \/ Crash \/ EditConfig \/ Restart \/ Halt \/ Start
    BY <1>12 DEF Evolve, Crash, EditConfig, Restart, Halt, Start, Launch
  <1>13. CASE UNCHANGED vars
    BY <1>13 DEF vars
  <1>14. QED
    BY <1>1, <1>2, <1>3, <1>4, <1>5, <1>6, <1>7, <1>8, <1>9, <1>10, <1>11,
       <1>12, <1>13
    DEF Next, BeatStep, Environment

\* The parts together: IndInv always holds.
LEMMA SpecIndInv == Spec => []IndInv
  <1>1. IndInv /\ [Next]_vars => IndInv'
    BY StepType, StepLooked, StepKnown DEF IndInv
  <1>2. QED
    BY <1>1, InitIndInv, PTL DEF Spec

-----------------------------------------------------------------------------
\* Every variable stays in its range.
THEOREM TypeCorrect == Spec => []TypeOK
  <1>1. IndInv => TypeOK
    BY DEF IndInv
  <1>2. QED
    BY <1>1, SpecIndInv, PTL

\* No section of a report is left over from another beat.
THEOREM Fresh == Spec => []FreshReport
  <1>1. IndInv => FreshReport
    BY DEF IndInv, TypeOK, Looked, FreshReport, Busy, Sections
  <1>2. QED
    BY <1>1, SpecIndInv, PTL

\* The checks judge the newest state a report has seen.
THEOREM NewestChecked == Spec => []ChecksAreNewest
  <1>1. IndInv => ChecksAreNewest
    BY DEF IndInv, Looked, ChecksAreNewest, Busy
  <1>2. QED
    BY <1>1, SpecIndInv, PTL

-----------------------------------------------------------------------------
\* Only the POST, the network and the answer are steps of Delivery.
LEMMA StepRefines == IndInv /\ [Next]_vars => [Reports!Next]_Reports!vars
  <1> SUFFICES ASSUME IndInv, [Next]_vars PROVE [Reports!Next]_Reports!vars
    OBVIOUS
  <1> USE DEF Reports!vars, beat, config, backend, Die, Rest
  <1>1. CASE Post
    BY <1>1 DEF Post, Reports!Next, Reports!Emit
  <1>2. CASE Answered
    BY <1>2 DEF Answered, IndInv, Known, Reports!Next, Reports!Confirm
  <1>3. ASSUME NEW r \in net, Receive(r) PROVE [Reports!Next]_Reports!vars
    BY <1>3 DEF Receive, IndInv, TypeOK, Known, Reports!Next, Reports!Receive
  <1>4. CASE Begin \/ System \/ Host \/ Process \/ Sign \/ GiveUp
    BY <1>4 DEF Begin, System, Host, Process, Sign, GiveUp, Look
  <1>5. CASE Validator \/ Checks
    BY <1>5, ValidatorCases, ChecksCases DEF Look
  <1>6. ASSUME NEW r \in net, Refuse(r) PROVE [Reports!Next]_Reports!vars
    BY <1>6 DEF Refuse
  <1>7. CASE Lose \/ Evolve \/ Crash \/ EditConfig \/ Restart \/ Halt \/ Start
    BY <1>7 DEF Lose, Evolve, Crash, EditConfig, Restart, Halt, Start, Launch
  <1>8. CASE UNCHANGED vars
    BY <1>8 DEF vars
  <1>9. QED
    BY <1>1, <1>2, <1>3, <1>4, <1>5, <1>6, <1>7, <1>8
    DEF Next, BeatStep, Environment

\* Crashes, restarts, timeouts and a bad network included, the agent and its
\* backend implement Delivery.
THEOREM Refinement == Spec => ImplementsDelivery
  <1>1. Init => Reports!Init
    BY DEF Init, Reports!Init
  <1>2. IndInv /\ [Next]_vars => [Reports!Next]_Reports!vars
    BY StepRefines
  <1>3. QED
    BY <1>1, <1>2, SpecIndInv, PTL DEF Spec, ImplementsDelivery, Reports!Spec

-----------------------------------------------------------------------------
(* What follows from Delivery, whoever implements it.                       *)

\* Everything the backend has was emitted.
Delivered ==
  Reports!TypeOK /\ Reports!AtMostOnce /\ Reports!AckedReceived /\ Reports!OvertakenGivenUp

\* The consequences hold at the start...
LEMMA InitDelivered == Reports!Init => Delivered
  BY DEF Reports!Init, Delivered, Reports!TypeOK, Reports!AtMostOnce, Reports!AckedReceived,
         Reports!OvertakenGivenUp

\* ... and after every step, a reception being the one that could break them.
LEMMA StepDelivered == Delivered /\ [Reports!Next]_Reports!vars => Delivered'
  <1> SUFFICES ASSUME Delivered, [Reports!Next]_Reports!vars PROVE Delivered'
    OBVIOUS
  <1> USE DEF Delivered, Reports!TypeOK, Reports!AtMostOnce, Reports!AckedReceived,
              Reports!OvertakenGivenUp, Reports!HasReceived
  <1>1. CASE Reports!Emit
    BY <1>1 DEF Reports!Emit
  <1>2. CASE Reports!Confirm
    BY <1>2 DEF Reports!Confirm
  <1>3. ASSUME NEW r \in 1..sent, Reports!Receive(r) PROVE Delivered'
    <2>1. /\ Len(received') = Len(received) + 1
          /\ received'[Len(received) + 1] = r
          /\ \A i \in 1..Len(received) : received'[i] = received[i] /\ received'[i] # r
      BY <1>3 DEF Reports!Receive
    <2>2. r \notin acked
      BY <1>3 DEF Reports!Receive
    <2>3. Reports!TypeOK'
      BY <1>3 DEF Reports!Receive
    <2>4. DOMAIN received = 1..Len(received) /\ DOMAIN received' = 1..Len(received) + 1
      BY <1>3 DEF Reports!Receive
    <2>5. Reports!AtMostOnce'
      BY <2>1, <2>4
    <2>6. acked' = acked /\ \A i \in DOMAIN received : i \in DOMAIN received'
      BY <1>3, <2>4 DEF Reports!Receive
    <2>7. Reports!AckedReceived'
      BY <2>1, <2>4, <2>6
    <2>8. Reports!OvertakenGivenUp'
      BY <2>1, <2>2, <2>4, <2>6
    <2>9. QED
      BY <2>3, <2>5, <2>7, <2>8
  <1>4. CASE UNCHANGED Reports!vars
    BY <1>4 DEF Reports!vars
  <1>5. QED
    BY <1>1, <1>2, <1>3, <1>4 DEF Reports!Next

\* A report is received at most once, what was confirmed was received, and what
\* was confirmed arrived in order.
THEOREM Consequences == Reports!Spec => [](AtMostOnce /\ AckedReceived /\ OvertakenGivenUp)
  <1>1. Delivered => AtMostOnce /\ AckedReceived /\ OvertakenGivenUp
    BY DEF Delivered, AtMostOnce, AckedReceived, OvertakenGivenUp
  <1>2. QED
    BY <1>1, InitDelivered, StepDelivered, PTL DEF Reports!Spec

\* Hence they hold of the agent.
LEMMA AgentDelivers == Spec => [](AtMostOnce /\ AckedReceived /\ OvertakenGivenUp)
  BY Refinement, Consequences, PTL DEF ImplementsDelivery

\* No report arrives twice.
THEOREM NoDuplicates == Spec => []AtMostOnce
  BY AgentDelivers, PTL

\* A POST that reports success has been received.
THEOREM AckTrusted == Spec => []AckedReceived
  BY AgentDelivers, PTL

\* Reports taken for delivered have arrived in order.
THEOREM OrderKept == Spec => []OvertakenGivenUp
  BY AgentDelivers, PTL
=============================================================================
