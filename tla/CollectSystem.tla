--------------------------- MODULE CollectSystem ---------------------------
(***************************************************************************)
(* collectSystemData (src/collectors/all.cpp): one thread per collector,   *)
(* each with a promise on the caller's stack, the results taken from the   *)
(* futures in an order of their own, then the threads joined and the       *)
(* locals destroyed.  collectValidatorData is the case of one collector.   *)
(*                                                                         *)
(* Two things end the process with std::terminate: an exception that       *)
(* leaves a thread function (collectData catches nothing), and the         *)
(* destruction of a std::thread that was not joined.                       *)
(***************************************************************************)
EXTENDS Naturals

CONSTANTS
  Collectors,  \* disk, memory, cpu, network, load
  N,           \* how many they are
  Spawn,       \* Spawn[i]: the collector whose promise and thread come i-th
  Gets         \* Gets[i]: the collector whose future is read i-th

ASSUME CollectorsAssumption ==
  /\ N \in Nat \ {0}
  /\ Spawn \in [1..N -> Collectors]
  /\ Gets \in [1..N -> Collectors]
  /\ \A c \in Collectors : \E i \in 1..N : Spawn[i] = c
  /\ \A i, j \in 1..N : Spawn[i] = Spawn[j] => i = j
  /\ \A c \in Collectors : \E i \in 1..N : Gets[i] = c

VARIABLES
  main,     \* where the calling thread is
  k,        \* index of its next step in Spawn or Gets
  promise,  \* per collector: "none", "alive" or "gone"
  worker,   \* per collector: where its thread is
  ready,    \* the collectors whose future has its value
  report,   \* the sections moved into sysReport
  joined,   \* the collectors whose thread was joined
  dead      \* why std::terminate was called: "no", "worker" or "joinable"

vars == <<main, k, promise, worker, ready, report, joined, dead>>

MainState ==
  {"spawn", "uptime", "get", "join", "destroy", "unwind", "returned", "threw"}
WorkerState == {"none", "collect", "set", "leave", "exited"}

Init ==
  /\ main = "spawn"
  /\ k = 1
  /\ promise = [c \in Collectors |-> "none"]
  /\ worker = [c \in Collectors |-> "none"]
  /\ ready = {}
  /\ report = {}
  /\ joined = {}
  /\ dead = "no"

-----------------------------------------------------------------------------
(* The calling thread                                                       *)

\* Walk the index through 1..N in the state here, then go on in state next.
Walk(here, next) ==
  /\ main = here
  /\ IF k < N THEN main' = here /\ k' = k + 1 ELSE main' = next /\ k' = 1

\* promise, future and thread of the next collector; push_back(move(t)).
SpawnNext ==
  /\ Walk("spawn", "uptime")
  /\ promise' = [promise EXCEPT ![Spawn[k]] = "alive"]
  /\ worker' = [worker EXCEPT ![Spawn[k]] = "collect"]
  /\ UNCHANGED <<ready, report, joined, dead>>

\* Definitions named ...Mutant are bugs this code does not have; a property of
\* MCCollectSystem is refuted when one stands in for the definition after it.

\* Mutant: the failure is caught, and the call returns what it has.
SpawnFailsMutant ==
  /\ main = "spawn"
  /\ main' = "returned"
  /\ UNCHANGED <<k, promise, worker, ready, report, joined, dead>>

\* The system refuses a thread: the constructor throws, the stack unwinds.
SpawnFails ==
  /\ main = "spawn"
  /\ main' = "unwind"
  /\ promise' = [promise EXCEPT ![Spawn[k]] = "alive"]
  /\ UNCHANGED <<k, worker, ready, report, joined, dead>>

\* host::getUptime on the calling thread.
Uptime ==
  /\ main = "uptime"
  /\ main' = "get"
  /\ UNCHANGED <<k, promise, worker, ready, report, joined, dead>>

\* Mutant: a future that is not ready is passed over.
GetNextMutant ==
  /\ Walk("get", "join")
  /\ report' = IF Gets[k] \in ready THEN report \cup {Gets[k]} ELSE report
  /\ UNCHANGED <<promise, worker, ready, joined, dead>>

\* sysReport[...] = future.get(), which waits for the value.
GetNext ==
  /\ Walk("get", "join")
  /\ Gets[k] \in ready
  /\ report' = report \cup {Gets[k]}
  /\ UNCHANGED <<promise, worker, ready, joined, dead>>

\* Mutant: detach instead of join.
JoinNextMutant ==
  /\ main = "join"
  /\ joined' = joined \cup {Spawn[k]}
  /\ IF k < N
     THEN k' = k + 1 /\ UNCHANGED main
     ELSE main' = "destroy" /\ UNCHANGED k
  /\ UNCHANGED <<promise, worker, ready, report, dead>>

\* The loop over the vector of threads.
JoinNext ==
  /\ main = "join"
  /\ worker[Spawn[k]] = "exited"
  /\ joined' = joined \cup {Spawn[k]}
  /\ IF k < N
     THEN k' = k + 1 /\ UNCHANGED main
     ELSE main' = "destroy" /\ UNCHANGED k
  /\ UNCHANGED <<promise, worker, ready, report, dead>>

\* The locals go in reverse order: the promises one by one ...
DestroyPromise ==
  /\ main \in {"destroy", "unwind"}
  /\ k > 0
  /\ promise' = [promise EXCEPT ![Spawn[k]] = "gone"]
  /\ k' = k - 1
  /\ UNCHANGED <<main, worker, ready, report, joined, dead>>

\* ... and then the vector of threads, declared before them.
DestroyThreads ==
  /\ main \in {"destroy", "unwind"}
  /\ k = 0
  /\ IF \E c \in Collectors : worker[c] # "none" /\ c \notin joined
     THEN dead' = "joinable" /\ UNCHANGED main
     ELSE main' = (IF main = "destroy" THEN "returned" ELSE "threw") /\ UNCHANGED dead
  /\ UNCHANGED <<k, promise, worker, ready, report, joined>>

-----------------------------------------------------------------------------
(* collectData, on the thread of collector c                                *)

WorkerStep(c, from, to) ==
  /\ worker[c] = from
  /\ worker' = [worker EXCEPT ![c] = to]
  /\ UNCHANGED <<main, k, promise, report, joined, dead>>

CollectorReturns(c) == WorkerStep(c, "collect", "set") /\ UNCHANGED ready

\* Mutant: the exception is caught and the thread ends without a value.
CollectorThrowsMutant(c) == WorkerStep(c, "collect", "exited") /\ UNCHANGED ready

CollectorThrows(c) ==
  /\ worker[c] = "collect"
  /\ dead' = "worker"
  /\ UNCHANGED <<main, k, promise, worker, ready, report, joined>>

\* The value is visible to get() while set_value is still at work on the promise.
SetValue(c) ==
  /\ WorkerStep(c, "set", "leave")
  /\ ready' = ready \cup {c}

Exit(c) == WorkerStep(c, "leave", "exited") /\ UNCHANGED ready

-----------------------------------------------------------------------------
MainStep ==
  SpawnNext \/ Uptime \/ GetNext \/ JoinNext \/ DestroyPromise \/ DestroyThreads

CollectStep(c) == CollectorReturns(c) \/ SetValue(c) \/ Exit(c)

Step ==
  \/ MainStep \/ SpawnFails
  \/ \E c \in Collectors : CollectStep(c) \/ CollectorThrows(c)

Over == main \in {"returned", "threw"} \/ dead # "no"

Next == (dead = "no" /\ Step) \/ (Over /\ UNCHANGED vars)

Spec == Init /\ [][Next]_vars

\* Every thread runs when it can, and a collector returns or throws: none of
\* them waits for another, and the one that asks the network has a timeout.
FairSpec ==
  /\ Spec
  /\ WF_vars(dead = "no" /\ MainStep)
  /\ \A c \in Collectors : WF_vars(dead = "no" /\ CollectStep(c))

-----------------------------------------------------------------------------
(* Properties *)

\* Every variable stays in its range (all.cpp:35-69).
TypeOK ==
  /\ main \in MainState
  /\ k \in 0..N
  /\ main \in {"spawn", "uptime", "get", "join"} => k > 0
  /\ promise \in [Collectors -> {"none", "alive", "gone"}]
  /\ worker \in [Collectors -> WorkerState]
  /\ ready \subseteq Collectors
  /\ report \subseteq Collectors
  /\ joined \subseteq Collectors
  /\ dead \in {"no", "worker", "joinable"}

\* A thread never touches a destroyed promise: it holds a pointer into the
\* stack of a call that waits for it, also while set_value is finishing after
\* get() has returned (all.cpp:29, 72-86).  An unwinding call is the exception.
PromiseOutlivesWorker ==
  \A c \in Collectors :
    worker[c] \in {"collect", "set", "leave"} => promise[c] = "alive" \/ main = "unwind"

\* The call ends with no thread of its own left behind: on return all have
\* exited, and an exception gets out only if none was started, so whoever was
\* left with a dangling pointer dies with the process (all.cpp:81-88).
NoThreadLeftBehind ==
  /\ main = "returned" => \A c \in Collectors : worker[c] = "exited"
  /\ main = "threw" => \A c \in Collectors : worker[c] = "none"

\* What is returned holds every section, though the futures are read in another
\* order than the threads were started (all.cpp:72-76).
WholeReport == main = "returned" => report = Collectors

\* std::terminate for a thread that was not joined needs a failed start: the
\* loop over the vector misses no thread (all.cpp:81-86).
JoinMissesNone == dead = "joinable" => main = "unwind"

\* The threads, promises and futures do what the caller relies on.
Got == INSTANCE Gather WITH
         got <- ready,
         outcome <- IF dead # "no" THEN "dead"
                    ELSE IF main \in {"returned", "threw"} THEN main
                    ELSE "collecting"

\* collectSystemData implements Gather (all.cpp:32-89).
ImplementsGather == Got!Spec

\* The call always ends, or the process does: no future is waited for whose
\* thread was never started, no thread joined that cannot exit (all.cpp:72-86).
CallEnds == <>Over

\* Why the above hold, as an inductive invariant: what each thread was given,
\* and how far the walks through Spawn and Gets have come.
Started ==
  /\ main = "spawn" => \A i \in 1..N : /\ i < k => promise[Spawn[i]] = "alive"
                                       /\ i < k <=> worker[Spawn[i]] # "none"
  /\ main \in {"uptime", "get", "join"} =>
        \A c \in Collectors : promise[c] = "alive" /\ worker[c] # "none"
  /\ main = "threw" => \A c \in Collectors : worker[c] = "none"

Walked ==
  /\ main = "uptime" => k = 1
  /\ main = "get" => \A i \in 1..N : i < k => Gets[i] \in report
  /\ main \in {"join", "destroy", "returned"} => report = Collectors
  /\ main = "join" => \A i \in 1..N : i < k => Spawn[i] \in joined
  /\ main \in {"destroy", "returned"} => joined = Collectors
  /\ main \in {"spawn", "unwind"} => joined = {}

Threads ==
  /\ \A c \in Collectors : c \in ready <=> worker[c] \in {"leave", "exited"}
  /\ \A c \in joined : worker[c] = "exited"

\* The invariant the theorems of CollectSystemProofs rest on (all.cpp:32-89).
IndInv == TypeOK /\ Started /\ Walked /\ Threads /\ JoinMissesNone
=============================================================================
