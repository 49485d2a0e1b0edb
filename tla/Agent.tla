------------------------------- MODULE Agent -------------------------------
(***************************************************************************)
(* Agent::beat (src/valmond/agent.cpp) with what it calls: the collectors  *)
(* of collectAllData in their order (all.cpp:134-150), the two fetches of  *)
(* server_info with their fallback (validator.cpp), the HTTP exchange with *)
(* the backend (http.cpp), and the restart of a process that died          *)
(* (valmond.service).  The machine and the validator observed change at    *)
(* any moment; a section of the report remembers at which state it looked. *)
(*                                                                         *)
(* The five collector threads are Gather here, which CollectSystem         *)
(* implements; that beats follow one another with a rest between them is   *)
(* Daemon's.                                                               *)
(***************************************************************************)
EXTENDS Naturals, Sequences

CONSTANTS
  Collectors,  \* the sections of the system report
  MaxSent,     \* bound: reports posted
  MaxWorld     \* bound: changes of what is observed

ASSUME AgentAssumption ==
  /\ MaxSent \in Nat
  /\ MaxWorld \in Nat \ {0}
  /\ Collectors \cap {"host", "validator", "process", "checks"} = {}

VARIABLES
  pc,        \* where the beat is; "rest" between beats, "down" without a process,
             \* "stopped" when the service manager will not start another
  got,       \* Gather's sections
  outcome,   \* Gather's outcome
  seen,      \* section -> the state of the world it looked at, 0 for none
  began,     \* the state of the world when the beat began
  world,     \* the state of the machine and its validator
  key,       \* the validation secret Config loaded: "good" or "bad"
  file,      \* the configuration on disk: "good", "bad" key or "broken"
  sent,      \* number of the last report posted
  net,       \* reports on their way to the backend
  answers,   \* the backend's answers on their way to the agent
  received,  \* the reports the backend has, in the order of arrival
  acked      \* the reports whose POST was answered with success

beat == <<pc, got, outcome, seen, began>>
config == <<key, file>>
backend == <<sent, net, answers, received, acked>>
vars == <<beat, world, config, backend>>

Sys == INSTANCE Gather

Sections == Collectors \cup {"host", "validator", "process", "checks"}
NoneSeen == [s \in Sections |-> 0]

Busy == {"system", "host", "rpc1", "crawl1", "process", "rpc2", "crawl2", "sign",
         "post", "wait"}

\* What an HTTP request comes to: an answer with the member asked for, an
\* answer without it, no answer with status 200 and a JSON body before the
\* timeout, or a body or member that is not an object ("scalar").
Answer == {"info", "empty", "failed", "scalar"}

Init ==
  /\ pc = "rest"
  /\ Sys!Init
  /\ seen = NoneSeen
  /\ began = 1
  /\ world = 1
  /\ file \in {"good", "bad"}
  /\ key = file
  /\ sent = 0
  /\ net = {}
  /\ answers = {}
  /\ received = <<>>
  /\ acked = {}

-----------------------------------------------------------------------------
(* Collecting                                                               *)

\* Definitions named ...Mutant are bugs this code does not have; a property of
\* MCAgent is refuted when one stands in for the definition after it.

\* Mutant: the report is kept in the agent and not cleared.
BeginMutant ==
  /\ pc = "rest"
  /\ sent < MaxSent
  /\ pc' = "system"
  /\ got' = {}
  /\ outcome' = "collecting"
  /\ began' = world
  /\ UNCHANGED <<seen, world, config, backend>>

\* Daemon runs the task; the report is a local of the beat.
Begin ==
  /\ pc = "rest"
  /\ sent < MaxSent
  /\ pc' = "system"
  /\ got' = {}
  /\ outcome' = "collecting"
  /\ seen' = NoneSeen
  /\ began' = world
  /\ UNCHANGED <<world, config, backend>>

\* The section s looks at the world; the beat goes on at next.
Look(s, next) ==
  /\ seen' = [seen EXCEPT ![s] = world]
  /\ pc' = next
  /\ UNCHANGED <<began, world, config, backend>>

\* An exception nothing in the process catches: std::terminate.
Die ==
  /\ pc' = "down"
  /\ UNCHANGED <<seen, began, world, config, backend>>

\* collectSystemData.
System ==
  /\ pc = "system"
  /\ \/ \E c \in Collectors : Sys!Deliver(c) /\ Look(c, "system")
     \/ Sys!Return /\ pc' = "host" /\ UNCHANGED <<seen, began, world, config, backend>>
     \/ (Sys!Throw \/ Sys!Die) /\ Die

\* collectHostData.
Host ==
  /\ pc = "host"
  /\ Look("host", "rpc1")
  /\ UNCHANGED <<got, outcome>>

\* getFromRPC for section s, the crawler next if there is no info.  Indexing
\* what is not an object throws.
FetchRPC(here, crawl, s, next) ==
  /\ pc = here
  /\ \E a \in Answer :
       \/ a = "info" /\ Look(s, next)
       \/ a \in {"empty", "failed"} /\ pc' = crawl
          /\ UNCHANGED <<seen, began, world, config, backend>>
       \/ a = "scalar" /\ Die
  /\ UNCHANGED <<got, outcome>>

\* getFromCrawler: the last resort, the section stays empty if it fails too.
FetchCrawler(here, s, next) ==
  /\ pc = here
  /\ \E a \in Answer :
       \/ a = "info" /\ Look(s, next)
       \/ a \in {"empty", "failed"} /\ pc' = next
          /\ UNCHANGED <<seen, began, world, config, backend>>
       \/ a = "scalar" /\ Die
  /\ UNCHANGED <<got, outcome>>

\* collectValidatorData: getValidatorInfo on a thread that is joined; a member
\* that cannot be written as a string throws.
Validator ==
  \/ FetchRPC("rpc1", "crawl1", "validator", "process")
  \/ FetchCrawler("crawl1", "validator", "process")
  \/ pc \in {"rpc1", "crawl1"} /\ Die /\ UNCHANGED <<got, outcome>>

\* runProcessCheck: the scan of /proc.
Process ==
  /\ pc = "process"
  /\ Look("process", "rpc2")
  /\ UNCHANGED <<got, outcome>>

\* Mutant: the checks judge the answer the validator section was made of.
ChecksMutant ==
  /\ pc = "rpc2"
  /\ seen' = [seen EXCEPT !["checks"] = seen["validator"]]
  /\ pc' = "sign"
  /\ UNCHANGED <<got, outcome, began, world, config, backend>>

\* runValidationCheck: getServerInfo asks again.
Checks ==
  \/ FetchRPC("rpc2", "crawl2", "checks", "sign")
  \/ FetchCrawler("crawl2", "checks", "sign")

\* Mutant: beat catches what SecretKey throws, and waits for the next one.
SignMutant ==
  /\ pc = "sign"
  /\ pc' = IF key = "good" THEN "post" ELSE "rest"
  /\ UNCHANGED <<got, outcome, seen, began, world, config, backend>>

\* SecretKey throws unless the secret is 32 bytes of upper-case hex, sign
\* unless it is a key of the curve.
Sign ==
  /\ pc = "sign"
  /\ IF key = "good"
     THEN pc' = "post" /\ UNCHANGED <<seen, began, world, config, backend>>
     ELSE Die
  /\ UNCHANGED <<got, outcome>>

-----------------------------------------------------------------------------
(* Sending                                                                  *)

\* The exchange is over, whatever it came to: sendData logs at most.
Rest ==
  /\ pc' = "rest"
  /\ UNCHANGED <<got, outcome, seen, began, world, config>>

\* Http::POST: the request leaves, the thread waits.
Post ==
  /\ pc = "post"
  /\ pc' = "wait"
  /\ sent' = sent + 1
  /\ net' = net \cup {sent + 1}
  /\ UNCHANGED <<got, outcome, seen, began, world, config, answers, received, acked>>

\* Mutant: an answer that comes late still counts for its report.
AnsweredLateMutant ==
  /\ pc = "wait"
  /\ \E a \in answers :
       /\ answers' = answers \ {a}
       /\ acked' = IF a.ok THEN acked \cup {a.report} ELSE acked
  /\ Rest
  /\ UNCHANGED <<sent, net, received>>

\* handleResponse: success is status 200 and a body that parses.
Answered ==
  /\ pc = "wait"
  /\ \E a \in answers :
       /\ a.report = sent
       /\ answers' = answers \ {a}
       /\ acked' = IF a.ok THEN acked \cup {sent} ELSE acked
  /\ Rest
  /\ UNCHANGED <<sent, net, received>>

\* Mutant: a timeout passes for success.
GiveUpOptimistMutant ==
  /\ pc = "wait"
  /\ Rest
  /\ acked' = acked \cup {sent}
  /\ UNCHANGED <<sent, net, answers, received>>

\* Mutant: no timeout, only a refused connection ends the wait.
GiveUpNeverMutant ==
  /\ pc = "wait"
  /\ sent \in net
  /\ Rest
  /\ UNCHANGED backend

\* Connection refused or lost, or ten seconds have passed: the report may
\* still be on its way.
GiveUp ==
  /\ pc = "wait"
  /\ Rest
  /\ UNCHANGED backend

-----------------------------------------------------------------------------
(* The backend, the network, the machine and the service manager            *)

\* The backend takes the report; what it answers need not be a success.
Receive(r) ==
  /\ r \in net
  /\ net' = net \ {r}
  /\ received' = Append(received, r)
  /\ \E ok \in BOOLEAN : answers' = answers \cup {[report |-> r, ok |-> ok]}
  /\ UNCHANGED <<beat, world, config, sent, acked>>

\* The backend, or a proxy before it, turns the report away.
Refuse(r) ==
  /\ r \in net
  /\ net' = net \ {r}
  /\ answers' = answers \cup {[report |-> r, ok |-> FALSE]}
  /\ UNCHANGED <<beat, world, config, sent, received, acked>>

Lose ==
  /\ \/ \E r \in net : net' = net \ {r} /\ UNCHANGED answers
     \/ \E a \in answers : answers' = answers \ {a} /\ UNCHANGED net
  /\ UNCHANGED <<beat, world, config, sent, received, acked>>

Evolve ==
  /\ world < MaxWorld
  /\ world' = world + 1
  /\ UNCHANGED <<beat, config, backend>>

\* Killed from outside, at any point.
Crash ==
  /\ pc \notin {"down", "stopped"}
  /\ Die
  /\ UNCHANGED <<got, outcome>>

EditConfig ==
  /\ file' \in {"good", "bad", "broken"} \ {file}
  /\ UNCHANGED <<beat, world, key, backend>>

\* main reads the configuration, and dies again if it cannot.
Launch(from) ==
  /\ pc = from
  /\ IF file = "broken"
     THEN pc' = "down" /\ UNCHANGED key
     ELSE pc' = "rest" /\ key' = file
  /\ UNCHANGED <<got, outcome, seen, began, world, file, backend>>

\* Restart=on-failure.
Restart == Launch("down")

\* The service manager does not restart what was stopped with a signal it takes
\* for a clean end, nor what failed too often in too short a time.
Halt ==
  /\ pc = "down"
  /\ pc' = "stopped"
  /\ UNCHANGED <<got, outcome, seen, began, world, config, backend>>

\* The operator starts the service.
Start == Launch("stopped")

-----------------------------------------------------------------------------
BeatStep ==
  \/ System \/ Host \/ Validator \/ Process \/ Checks
  \/ Sign \/ Post \/ Answered \/ GiveUp

Environment ==
  \/ \E r \in net : Receive(r) \/ Refuse(r)
  \/ Lose \/ Evolve \/ Crash \/ EditConfig \/ Halt \/ Start

Next == Begin \/ BeatStep \/ Restart \/ Environment

Spec == Init /\ [][Next]_vars

\* The daemon thread runs; a collector returns, an exchange ends at its timeout,
\* and the service manager restarts what died or gives it up.  Nothing is asked
\* of the network, of the validator or of whoever edits the configuration.
FairSpec == Spec /\ WF_vars(Begin) /\ WF_vars(BeatStep) /\ WF_vars(Restart)

-----------------------------------------------------------------------------
(* Properties *)

\* Every variable stays in its range (agent.cpp:37-71).
TypeOK ==
  /\ pc \in Busy \cup {"rest", "down", "stopped"}
  /\ got \subseteq Collectors
  /\ outcome \in {"collecting", "returned", "threw", "dead"}
  /\ seen \in [Sections -> 0..MaxWorld]
  /\ began \in 1..MaxWorld /\ world \in 1..MaxWorld
  /\ key \in {"good", "bad"}
  /\ file \in {"good", "bad", "broken"}
  /\ sent \in 0..MaxSent
  /\ net \subseteq 1..sent
  /\ answers \subseteq [report : 1..sent, ok : BOOLEAN]
  /\ received \in Seq(1..sent)
  /\ acked \subseteq 1..sent

\* What is signed and sent was looked at during its own beat, nothing is left
\* over from an earlier one, and only the validator's two sections can be
\* missing (all.cpp:137-147, validator.cpp:25, 46).
FreshReport ==
  pc \in {"post", "wait"} =>
    \A s \in Sections :
      \/ seen[s] \in began..world
      \/ seen[s] = 0 /\ s \in {"validator", "checks"}

\* One report holds two answers of the validator: the checks judge the later
\* one, never a state older than the validator section or than the process
\* check beside them (all.cpp:139-142).
ChecksAreNewest ==
  pc \in {"post", "wait"} /\ seen["checks"] # 0 =>
    \A s \in Sections : seen[s] <= seen["checks"]

\* The reports and what the backend sees of them.
Reports == INSTANCE Delivery WITH latest <- sent

\* No retry, no duplicate, also over crashes and timeouts (agent.cpp:29-34).
AtMostOnce == Reports!AtMostOnce

\* A POST that reports success has been received (http.cpp:23-36).
AckedReceived == Reports!AckedReceived

\* Reports taken for delivered arrive in the order of their beats; one that is
\* overtaken had timed out (agent.cpp:68, http.cpp:84).
OvertakenGivenUp == Reports!OvertakenGivenUp

\* The whole exchange, with its crashes and timeouts, implements Delivery.
ImplementsDelivery == Reports!Spec

\* A beat always ends, so the daemon's thread is never stuck in one: every
\* request has a timeout, whatever the validator and the backend do
\* (http.cpp:6, 84, 110).
BeatEnds == pc \in Busy ~> pc \in {"rest", "down"}

\* A repaired configuration takes effect without an operator, also on an agent that
\* goes on running with the bad key it loaded before, as long as the service manager does
\* not give the service up and there are beats left: the bad key ends the process at its
\* next signature, wherever the beat is at the repair, and a new process reads the file
\* anew (agent.cpp:51-53, daemon.cpp:26, config.cpp:43-162, valmond.service:11).
RepairTakes ==
  <>[](file = "good" /\ pc # "stopped") => <>[](key = "good" \/ sent = MaxSent)

\* Why the above hold, as an inductive invariant: which sections the beat has
\* been through, and who knows of which report.
Looked ==
  /\ began <= world
  /\ pc \in Busy =>
       /\ \A s \in Sections : seen[s] = 0 \/ seen[s] \in began..world
       /\ \A c \in got : seen[c] # 0
       /\ pc # "system" => got = Collectors
       /\ pc \notin {"system", "host"} => seen["host"] # 0
       /\ pc \in {"rpc2", "crawl2", "sign", "post", "wait"} => seen["process"] # 0
       /\ pc \notin {"sign", "post", "wait"} => seen["checks"] = 0
       /\ seen["checks"] # 0 => \A s \in Sections : seen[s] <= seen["checks"]

Known ==
  /\ pc \in Busy \ {"wait"} => sent < MaxSent
  /\ \A r \in net : ~Reports!HasReceived(r)
  /\ \A a \in answers : a.ok => Reports!HasReceived(a.report)

\* The invariant the theorems of AgentProofs rest on (agent.cpp:17-71).
IndInv == TypeOK /\ Looked /\ Known
=============================================================================
