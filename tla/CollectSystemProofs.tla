------------------------ MODULE CollectSystemProofs ------------------------
(***************************************************************************)
(* Theorems about CollectSystem, for any number of collectors and any two  *)
(* orders: the five of collectSystemData, the one of collectValidatorData. *)
(***************************************************************************)
EXTENDS CollectSystem, TLAPS

\* The ranges hold at the start...
LEMMA InitType == Init => TypeOK
  BY CollectorsAssumption DEF Init, TypeOK, MainState, WorkerState

\* ... and after every step.
LEMMA StepType == TypeOK /\ [Next]_vars => TypeOK'
  <1> SUFFICES ASSUME TypeOK, [Next]_vars PROVE TypeOK'
    OBVIOUS
  <1>n. N \in Nat \ {0} /\ \A i \in 1..N : Spawn[i] \in Collectors /\ Gets[i] \in Collectors
    BY CollectorsAssumption
  <1> USE <1>n DEF TypeOK, MainState, WorkerState
  <1>1. CASE SpawnNext
    BY <1>1 DEF SpawnNext, Walk
  <1>2. CASE SpawnFails
    BY <1>2 DEF SpawnFails
  <1>3. CASE Uptime
    BY <1>3 DEF Uptime
  <1>4. CASE GetNext
    BY <1>4 DEF GetNext, Walk
  <1>5. CASE JoinNext
    BY <1>5 DEF JoinNext
  <1>6. CASE DestroyPromise
    BY <1>6 DEF DestroyPromise
  <1>7. CASE DestroyThreads
    BY <1>7 DEF DestroyThreads
  <1>8. ASSUME NEW c \in Collectors, CollectorReturns(c) PROVE TypeOK'
    BY <1>8 DEF CollectorReturns, WorkerStep
  <1>9. ASSUME NEW c \in Collectors, CollectorThrows(c) PROVE TypeOK'
    BY <1>9 DEF CollectorThrows
  <1>10. ASSUME NEW c \in Collectors, SetValue(c) PROVE TypeOK'
    BY <1>10 DEF SetValue, WorkerStep
  <1>11. ASSUME NEW c \in Collectors, Exit(c) PROVE TypeOK'
    BY <1>11 DEF Exit, WorkerStep
  <1>12. CASE UNCHANGED vars
    BY <1>12 DEF vars
  <1>13. QED
    BY <1>1, <1>2, <1>3, <1>4, <1>5, <1>6, <1>7, <1>8, <1>9, <1>10, <1>11, <1>12
    DEF Next, Step, MainStep, CollectStep

\* A future has its value from the moment its thread leaves set_value, and only
\* threads that have exited are joined.
LEMMA StepThreads == TypeOK /\ Started /\ Threads /\ [Next]_vars => Threads'
  <1> SUFFICES ASSUME TypeOK /\ Started /\ Threads, [Next]_vars PROVE Threads'
    OBVIOUS
  <1> USE DEF TypeOK, Threads, MainState, WorkerState
  <1>n. N \in Nat \ {0} /\ \A i \in 1..N : Spawn[i] \in Collectors /\ Gets[i] \in Collectors
    BY CollectorsAssumption
  <1>1. CASE SpawnNext
    <2>1. k \in 1..N /\ worker[Spawn[k]] = "none"
      BY <1>1, <1>n DEF SpawnNext, Walk, Started
    <2>2. QED
      BY <1>1, <1>n, <2>1 DEF SpawnNext
  <1>2. CASE SpawnFails
    BY <1>2 DEF SpawnFails
  <1>3. CASE Uptime
    BY <1>3 DEF Uptime
  <1>4. CASE GetNext
    BY <1>4, <1>n DEF GetNext, Walk
  <1>5. CASE JoinNext
    BY <1>5, <1>n DEF JoinNext
  <1>6. CASE DestroyPromise
    BY <1>6 DEF DestroyPromise
  <1>7. CASE DestroyThreads
    BY <1>7 DEF DestroyThreads
  <1>8. ASSUME NEW c \in Collectors, CollectorReturns(c) PROVE Threads'
    BY <1>8 DEF CollectorReturns, WorkerStep
  <1>9. ASSUME NEW c \in Collectors, CollectorThrows(c) PROVE Threads'
    BY <1>9 DEF CollectorThrows
  <1>10. ASSUME NEW c \in Collectors, SetValue(c) PROVE Threads'
    BY <1>10 DEF SetValue, WorkerStep
  <1>11. ASSUME NEW c \in Collectors, Exit(c) PROVE Threads'
    BY <1>11 DEF Exit, WorkerStep
  <1>12. CASE UNCHANGED vars
    BY <1>12 DEF vars
  <1>13. QED
    BY <1>1, <1>2, <1>3, <1>4, <1>5, <1>6, <1>7, <1>8, <1>9, <1>10, <1>11,
       <1>12
    DEF Next, Step, MainStep, CollectStep

\* What has been started follows the walk through Spawn.
LEMMA StepStarted == TypeOK /\ Started /\ Walked /\ [Next]_vars => Started'
  <1> SUFFICES ASSUME TypeOK /\ Started /\ Walked, [Next]_vars PROVE Started'
    OBVIOUS
  <1> USE DEF TypeOK, Started, MainState, WorkerState
  <1>n. N \in Nat \ {0} /\ \A i \in 1..N : Spawn[i] \in Collectors /\ Gets[i] \in Collectors
    BY CollectorsAssumption
  <1>o. \A c \in Collectors : \E i \in 1..N : Spawn[i] = c
    BY CollectorsAssumption
  <1>u. \A i, j \in 1..N : Spawn[i] = Spawn[j] => i = j
    BY CollectorsAssumption
  <1>1. CASE SpawnNext
    BY <1>1, <1>n, <1>o, <1>u DEF SpawnNext, Walk
  <1>2. CASE SpawnFails
    BY <1>2 DEF SpawnFails
  <1>3. CASE Uptime
    BY <1>3 DEF Uptime
  <1>4. CASE GetNext
    BY <1>4 DEF GetNext, Walk
  <1>5. CASE JoinNext
    BY <1>5 DEF JoinNext
  <1>6. CASE DestroyPromise
    BY <1>6 DEF DestroyPromise
  <1>7. CASE DestroyThreads
    BY <1>7 DEF DestroyThreads, Walked
  <1>8. ASSUME NEW c \in Collectors, CollectorReturns(c) PROVE Started'
    BY <1>8 DEF CollectorReturns, WorkerStep
  <1>9. ASSUME NEW c \in Collectors, CollectorThrows(c) PROVE Started'
    BY <1>9 DEF CollectorThrows
  <1>10. ASSUME NEW c \in Collectors, SetValue(c) PROVE Started'
    BY <1>10 DEF SetValue, WorkerStep
  <1>11. ASSUME NEW c \in Collectors, Exit(c) PROVE Started'
    BY <1>11 DEF Exit, WorkerStep
  <1>12. CASE UNCHANGED vars
    BY <1>12 DEF vars
  <1>13. QED
    BY <1>1, <1>2, <1>3, <1>4, <1>5, <1>6, <1>7, <1>8, <1>9, <1>10, <1>11,
       <1>12
    DEF Next, Step, MainStep, CollectStep

\* What has been read and joined follows the walks through Gets and Spawn.
LEMMA StepWalked == TypeOK /\ Walked /\ [Next]_vars => Walked'
  <1> SUFFICES ASSUME TypeOK /\ Walked, [Next]_vars PROVE Walked'
    OBVIOUS
  <1> USE DEF TypeOK, Walked, MainState, WorkerState
  <1>n. N \in Nat \ {0} /\ \A i \in 1..N : Spawn[i] \in Collectors /\ Gets[i] \in Collectors
    BY CollectorsAssumption
  <1>o. \A c \in Collectors : \E i \in 1..N : Spawn[i] = c
    BY CollectorsAssumption
  <1>g. \A c \in Collectors : \E i \in 1..N : Gets[i] = c
    BY CollectorsAssumption
  <1>1. CASE SpawnNext
    BY <1>1, <1>n, <1>o, <1>g DEF SpawnNext, Walk
  <1>2. CASE SpawnFails
    BY <1>2 DEF SpawnFails
  <1>3. CASE Uptime
    BY <1>3, <1>n, <1>o, <1>g DEF Uptime
  <1>4. CASE GetNext
    <2>1. CASE k < N
      BY <1>4, <1>n, <2>1 DEF GetNext, Walk
    <2>2. CASE k = N
      <3>1. \A i \in 1..N : Gets[i] \in report'
        BY <1>4, <1>n, <2>2 DEF GetNext, Walk
      <3>2. report' = Collectors
        BY <1>4, <1>n, <1>g, <3>1 DEF GetNext, Walk
      <3>3. QED
        BY <1>4, <1>n, <2>2, <3>2 DEF GetNext, Walk
    <2>3. QED
      BY <1>4, <1>n, <2>1, <2>2 DEF GetNext, Walk
  <1>5. CASE JoinNext
    BY <1>5, <1>n, <1>o, <1>g DEF JoinNext
  <1>6. CASE DestroyPromise
    BY <1>6 DEF DestroyPromise
  <1>7. CASE DestroyThreads
    BY <1>7 DEF DestroyThreads
  <1>8. ASSUME NEW c \in Collectors, CollectorReturns(c) PROVE Walked'
    BY <1>8 DEF CollectorReturns, WorkerStep
  <1>9. ASSUME NEW c \in Collectors, CollectorThrows(c) PROVE Walked'
    BY <1>9 DEF CollectorThrows
  <1>10. ASSUME NEW c \in Collectors, SetValue(c) PROVE Walked'
    BY <1>10 DEF SetValue, WorkerStep
  <1>11. ASSUME NEW c \in Collectors, Exit(c) PROVE Walked'
    BY <1>11 DEF Exit, WorkerStep
  <1>12. CASE UNCHANGED vars
    BY <1>12 DEF vars
  <1>13. QED
    BY <1>1, <1>2, <1>3, <1>4, <1>5, <1>6, <1>7, <1>8, <1>9, <1>10, <1>11,
       <1>12
    DEF Next, Step, MainStep, CollectStep

\* With every thread joined, destroying the vector ends nothing.
LEMMA StepJoins == TypeOK /\ Walked /\ JoinMissesNone /\ [Next]_vars => JoinMissesNone'
  <1> SUFFICES ASSUME TypeOK /\ Walked /\ JoinMissesNone, [Next]_vars PROVE JoinMissesNone'
    OBVIOUS
  <1> USE DEF TypeOK, Walked, JoinMissesNone, MainState
  <1>1. CASE SpawnNext
    BY <1>1 DEF SpawnNext, Walk
  <1>2. CASE SpawnFails
    BY <1>2 DEF SpawnFails
  <1>3. CASE Uptime
    BY <1>3 DEF Uptime
  <1>4. CASE GetNext
    BY <1>4 DEF GetNext, Walk
  <1>5. CASE JoinNext
    BY <1>5 DEF JoinNext
  <1>6. CASE DestroyPromise
    BY <1>6 DEF DestroyPromise
  <1>7. CASE dead = "no" /\ DestroyThreads
    BY <1>7 DEF DestroyThreads
  <1>8. ASSUME NEW c \in Collectors, CollectorReturns(c) PROVE JoinMissesNone'
    BY <1>8 DEF CollectorReturns, WorkerStep
  <1>9. ASSUME NEW c \in Collectors, CollectorThrows(c) PROVE JoinMissesNone'
    BY <1>9 DEF CollectorThrows
  <1>10. ASSUME NEW c \in Collectors, SetValue(c) PROVE JoinMissesNone'
    BY <1>10 DEF SetValue, WorkerStep
  <1>11. ASSUME NEW c \in Collectors, Exit(c) PROVE JoinMissesNone'
    BY <1>11 DEF Exit, WorkerStep
  <1>12. CASE UNCHANGED vars
    BY <1>12 DEF vars
  <1>13. QED
    BY <1>1, <1>2, <1>3, <1>4, <1>5, <1>6, <1>7, <1>8, <1>9, <1>10, <1>11,
       <1>12
    DEF Next, Step, MainStep, CollectStep

\* The parts together: IndInv always holds.
LEMMA SpecIndInv == Spec => []IndInv
  <1>1. Init => IndInv
    <2>1. Init => Started /\ Walked /\ Threads /\ JoinMissesNone
      BY CollectorsAssumption
      DEF Init, Started, Walked, Threads, JoinMissesNone
    <2>2. QED
      BY <2>1, InitType DEF IndInv
  <1>2. IndInv /\ [Next]_vars => IndInv'
    BY StepType, StepStarted, StepWalked, StepThreads, StepJoins DEF IndInv
  <1>3. QED
    BY <1>1, <1>2, PTL DEF Spec

-----------------------------------------------------------------------------
\* Every variable stays in its range.
THEOREM TypeCorrect == Spec => []TypeOK
  <1>1. IndInv => TypeOK
    BY DEF IndInv
  <1>2. QED
    BY <1>1, SpecIndInv, PTL

\* No thread outlives the promise it points to, unless the call is unwinding.
THEOREM PromisesLive == Spec => []PromiseOutlivesWorker
  <1>1. IndInv => PromiseOutlivesWorker
    <2> SUFFICES ASSUME IndInv, NEW c \in Collectors,
                        worker[c] \in {"collect", "set", "leave"}, main # "unwind"
                 PROVE  promise[c] = "alive"
      BY DEF PromiseOutlivesWorker
    <2>1. main \in MainState
      BY DEF IndInv, TypeOK
    <2>2. CASE main = "spawn"
      <3>1. PICK i \in 1..N : Spawn[i] = c
        BY CollectorsAssumption
      <3>2. QED
        BY <2>2, <3>1 DEF IndInv, Started
    <2>3. CASE main \in {"uptime", "get", "join"}
      BY <2>3 DEF IndInv, Started
    <2>4. CASE main \in {"destroy", "returned"}
      <3>1. worker[c] = "exited"
        BY <2>4 DEF IndInv, Walked, Threads
      <3>2. QED
        BY <3>1
    <2>5. CASE main = "threw"
      BY <2>5 DEF IndInv, Started
    <2>6. QED
      BY <2>1, <2>2, <2>3, <2>4, <2>5 DEF MainState
  <1>2. QED
    BY <1>1, SpecIndInv, PTL

\* The call ends without a running thread of its own, by return or by exception.
THEOREM NothingLeftBehind == Spec => []NoThreadLeftBehind
  <1>1. IndInv => NoThreadLeftBehind
    BY DEF IndInv, Started, Walked, Threads, NoThreadLeftBehind
  <1>2. QED
    BY <1>1, SpecIndInv, PTL

\* A returned report has every section.
THEOREM ReportComplete == Spec => []WholeReport
  <1>1. IndInv => WholeReport
    BY DEF IndInv, Walked, WholeReport
  <1>2. QED
    BY <1>1, SpecIndInv, PTL

\* Only a thread that could not be started leaves one that is not joined.
THEOREM JoinsAll == Spec => []JoinMissesNone
  <1>1. IndInv => JoinMissesNone
    BY DEF IndInv
  <1>2. QED
    BY <1>1, SpecIndInv, PTL

-----------------------------------------------------------------------------
\* Each step is a step of Gather or none.
LEMMA StepRefines == IndInv /\ [Next]_vars => [Got!Next]_Got!vars
  <1> SUFFICES ASSUME IndInv, [Next]_vars PROVE [Got!Next]_Got!vars
    OBVIOUS
  <1> USE DEF IndInv, TypeOK, MainState, Got!vars
  <1>1. CASE dead = "no" /\ (SpawnNext \/ SpawnFails \/ Uptime \/ GetNext)
    BY <1>1 DEF SpawnNext, SpawnFails, Uptime, GetNext, Walk
  <1>2. CASE dead = "no" /\ (JoinNext \/ DestroyPromise)
    BY <1>2 DEF JoinNext, DestroyPromise
  <1>3. CASE dead = "no" /\ DestroyThreads
    <2>1. CASE dead' = "joinable"
      BY <1>3, <2>1 DEF DestroyThreads, Got!Next, Got!Die
    <2>2. CASE dead' = "no" /\ main = "destroy"
      <3>1. ready = Collectors
        BY <2>2 DEF Walked, Threads
      <3>2. QED
        BY <1>3, <2>2, <3>1 DEF DestroyThreads, Got!Next, Got!Return
    <2>3. CASE dead' = "no" /\ main = "unwind"
      <3>1. \A c \in Collectors : worker[c] = "none"
        BY <1>3, <2>3 DEF DestroyThreads, Walked
      <3>2. ready = {}
        BY <3>1 DEF Threads
      <3>3. QED
        BY <1>3, <2>3, <3>2 DEF DestroyThreads, Got!Next, Got!Throw
    <2>4. QED
      BY <1>3, <2>1, <2>2, <2>3 DEF DestroyThreads
  <1>4. ASSUME dead = "no", NEW c \in Collectors, CollectorReturns(c) \/ Exit(c)
        PROVE  [Got!Next]_Got!vars
    BY <1>4 DEF CollectorReturns, Exit, WorkerStep
  <1>5. ASSUME dead = "no", NEW c \in Collectors, SetValue(c)
        PROVE  [Got!Next]_Got!vars
    <2>1. c \notin ready
      BY <1>5 DEF SetValue, WorkerStep, Threads
    <2>2. main \notin {"returned", "threw"}
      BY <1>5 DEF SetValue, WorkerStep, Started, Walked, Threads
    <2>3. QED
      BY <1>5, <2>1, <2>2 DEF SetValue, WorkerStep, Got!Next, Got!Deliver
  <1>6. ASSUME dead = "no", NEW c \in Collectors, CollectorThrows(c)
        PROVE  [Got!Next]_Got!vars
    <2>1. main \notin {"returned", "threw"}
      BY <1>6 DEF CollectorThrows, Started, Walked, Threads
    <2>2. QED
      BY <1>6, <2>1 DEF CollectorThrows, Got!Next, Got!Die
  <1>7. CASE UNCHANGED vars
    BY <1>7 DEF vars
  <1>8. QED
    BY <1>1, <1>2, <1>3, <1>4, <1>5, <1>6, <1>7
    DEF Next, Step, MainStep, CollectStep

\* Whatever the number of collectors and the orders, the call does what its
\* callers rely on: it implements Gather.
THEOREM Refinement == Spec => ImplementsGather
  <1>1. Init => Got!Init
    BY DEF Init, Got!Init
  <1>2. IndInv /\ [Next]_vars => [Got!Next]_Got!vars
    BY StepRefines
  <1>3. QED
    BY <1>1, <1>2, SpecIndInv, PTL DEF Spec, ImplementsGather, Got!Spec
=============================================================================
