---------------------------- MODULE DaemonProofs ----------------------------
(***************************************************************************)
(* Theorems about Daemon, for every interval: the inductive invariant, the *)
(* safety properties it implies, and the refinement of PeriodicTask.       *)
(***************************************************************************)
EXTENDS Daemon, TLAPS

\* thread_ is the last of seven members, shouldRun_ the third (daemon.hpp:42-49).
LEMMA MembersLength == Len(Members) = 7
  BY DEF Members

\* Where those two stand among the members (daemon.hpp:42-49).
LEMMA MembersAt ==
        ASSUME NEW i \in 1..7
        PROVE  /\ Members[i] = "shouldRun_" <=> i = 3
               /\ Members[i] = "thread_" <=> i = 7
  <1>1. i = 1 \/ i = 2 \/ i = 3 \/ i = 4 \/ i = 5 \/ i = 6 \/ i = 7
    OBVIOUS
  <1>2. QED
    BY <1>1 DEF Members

\* IndInv holds at the start...
LEMMA InitIndInv == Init => IndInv
  <1> SUFFICES ASSUME Init PROVE IndInv
    OBVIOUS
  <1> USE IntervalAssumption, MembersLength DEF Init
  <1>1. TypeOK
    <2>1. built \in 0..Len(Members) /\ timer \in 0..Interval /\ age \in 0..Interval
          /\ late \in Nat
      OBVIOUS
    <2>2. shouldRun \in BOOLEAN /\ sawStop \in BOOLEAN /\ aborted \in BOOLEAN
      BY Zenon
    <2>3. mutex = "free" /\ loop = "unborn" /\ owner = "alive"
      OBVIOUS
    <2>4. QED
      BY <2>1, <2>2, <2>3 DEF TypeOK, LoopState, OwnerState
  <1>2. Lifetime
    BY DEF Lifetime
  <1>3. MutexDiscipline /\ NoLostWakeup
    BY DEF MutexDiscipline, NoLostWakeup
  <1>4. StopKnown /\ RestCovered
    BY DEF StopKnown, RestCovered
  <1>5. QED
    BY <1>1, <1>2, <1>3, <1>4 DEF IndInv

\* ... and every step preserves it, one case per action.
LEMMA StepIndInv == IndInv /\ [Next]_vars => IndInv'
  <1> SUFFICES ASSUME IndInv, [Next]_vars PROVE IndInv'
    OBVIOUS
  <1> USE IntervalAssumption, MembersLength
      DEF IndInv, TypeOK, Lifetime, MutexDiscipline, NoLostWakeup, StopKnown,
          RestCovered, LoopState, OwnerState
  <1>1. CASE Construct
    <2>1. /\ built \in 0..6 /\ built' = built + 1
          /\ loop' = IF built = 6 THEN "test" ELSE loop
          /\ UNCHANGED <<mutex, owner, sawStop, timer, age, late, aborted>>
      BY <1>1, MembersAt DEF Construct
    <2>2. shouldRun' \in BOOLEAN /\ (shouldRun' <=> built = 2 \/ shouldRun)
      <3>1. Members[built + 1] = "shouldRun_" <=> built = 2
        BY <2>1, MembersAt
      <3>2. QED
        BY <1>1, <3>1, Zenon DEF Construct
    <2>3. QED
      BY <2>1, <2>2
  <1>2. CASE TestRun
    BY <1>2 DEF TestRun
  <1>3. CASE TaskReturns
    BY <1>3 DEF TaskReturns
  <1>4. CASE TaskThrows
    BY <1>4 DEF TaskThrows
  <1>5. CASE Stamp
    BY <1>5 DEF Stamp
  <1>6. CASE LockForWait
    <2>1. /\ loop = "lock" /\ mutex = "free" /\ mutex' = "loop" /\ loop' = "check"
          /\ timer' = Interval
          /\ UNCHANGED <<built, shouldRun, owner, age, late, aborted>>
      BY <1>6 DEF LockForWait, TakeMutex
    <2>2. sawStop' \in BOOLEAN /\ (sawStop' <=> ~shouldRun)
      BY <1>6, Zenon DEF LockForWait, TakeMutex
    <2>3. QED
      BY <2>1, <2>2
  <1>7. CASE CheckPredicate
    BY <1>7 DEF CheckPredicate
  <1>8. CASE Block
    BY <1>8 DEF Block
  <1>9. CASE Wake
    BY <1>9 DEF Wake
  <1>10. CASE Reacquire
    <2>1. /\ loop = "woken" /\ mutex = "free" /\ mutex' = "loop" /\ loop' = "check"
          /\ UNCHANGED <<built, shouldRun, owner, timer, age, late, aborted>>
      BY <1>10 DEF Reacquire, TakeMutex
    <2>2. sawStop' \in BOOLEAN /\ (sawStop' <=> ~shouldRun)
      BY <1>10, Zenon DEF Reacquire, TakeMutex
    <2>3. QED
      BY <2>1, <2>2
  <1>11. CASE WaitTimedOut
    BY <1>11 DEF WaitTimedOut
  <1>12. CASE DtorEnter
    BY <1>12 DEF DtorEnter
  <1>13. CASE DtorLock
    BY <1>13 DEF DtorLock
  <1>14. CASE DtorStop
    <2>1. /\ owner = "locked" /\ mutex' = "free" /\ owner' = "notify"
          /\ UNCHANGED <<built, loop, sawStop, timer, age, late, aborted>>
      BY <1>14 DEF DtorStop
    <2>2. shouldRun' \in BOOLEAN /\ ~shouldRun'
      BY <1>14, Zenon DEF DtorStop
    <2>3. QED
      BY <2>1, <2>2
  <1>15. CASE DtorNotify
    BY <1>15 DEF DtorNotify
  <1>16. CASE DtorJoin
    BY <1>16 DEF DtorJoin
  <1>17. CASE Tick
    BY <1>17 DEF Tick
  <1>18. CASE UNCHANGED vars
    BY <1>18 DEF vars
  <1>19. QED
    BY <1>1, <1>2, <1>3, <1>4, <1>5, <1>6, <1>7, <1>8, <1>9, <1>10, <1>11,
       <1>12, <1>13, <1>14, <1>15, <1>16, <1>17, <1>18
    DEF Next, Step, LoopStep, OwnerStep, Finished

\* Hence it always holds.
LEMMA SpecIndInv == Spec => []IndInv
  BY InitIndInv, StepIndInv, PTL DEF Spec

-----------------------------------------------------------------------------
\* Every variable stays in its range, the wait and the age within the interval.
THEOREM TypeCorrect == Spec => []TypeOK
  <1>1. IndInv => TypeOK
    BY DEF IndInv
  <1>2. QED
    BY <1>1, SpecIndInv, PTL

\* No thread before the object: Daemon::loop meets only initialised members.
THEOREM Constructed == Spec => []ConstructedBeforeUse
  <1>1. IndInv => ConstructedBeforeUse
    BY DEF IndInv, Lifetime, ConstructedBeforeUse
  <1>2. QED
    BY <1>1, SpecIndInv, PTL

\* The notification of the destructor is never lost.
THEOREM WakeupKept == Spec => []NoLostWakeup
  <1>1. IndInv => NoLostWakeup
    BY DEF IndInv
  <1>2. QED
    BY <1>1, SpecIndInv, PTL

\* The unprotected read of shouldRun_ costs one task, not more.
THEOREM LateBounded == Spec => []AtMostOneLateTask
  <1>1. IndInv => AtMostOneLateTask
    BY DEF IndInv, TypeOK, StopKnown, AtMostOneLateTask
  <1>2. QED
    BY <1>1, SpecIndInv, PTL

\* A task starts only when the interval since the last one has passed.
THEOREM Spaced == Spec => Spacing
  <1>1. IndInv /\ [Next]_vars
          => [loop = "test" /\ loop' = "task" => age = Interval]_vars
    <2> SUFFICES ASSUME IndInv, Next, loop = "test", loop' = "task"
                 PROVE  age = Interval
      OBVIOUS
    <2>1. TestRun
      BY DEF Next, Step, LoopStep, OwnerStep, Finished, vars, Construct, TaskReturns,
             TaskThrows, Stamp, LockForWait, TakeMutex, CheckPredicate, Block,
             Wake, Reacquire, WaitTimedOut, DtorEnter, DtorLock, DtorStop,
             DtorNotify, DtorJoin, Tick
    <2>2. ~sawStop
      BY <2>1 DEF TestRun, IndInv, StopKnown
    <2>3. QED
      BY <2>2 DEF IndInv, RestCovered
  <1>2. QED
    BY <1>1, SpecIndInv, PTL DEF Spec, Spacing

-----------------------------------------------------------------------------
(* The refinement of PeriodicTask.                                          *)

\* A constructed daemon starts as a PeriodicTask...
LEMMA InitRefines == Init => PT!Init
  BY IntervalAssumption DEF Init, PT!Init

\* ... and each of its steps is a step of PeriodicTask or none.
LEMMA StepRefines == IndInv /\ [Next]_vars => [PT!Next]_PT!vars
  <1> SUFFICES ASSUME IndInv, [Next]_vars PROVE [PT!Next]_PT!vars
    OBVIOUS
  <1> USE IntervalAssumption, MembersLength
      DEF IndInv, TypeOK, Lifetime, MutexDiscipline, NoLostWakeup, StopKnown,
          RestCovered, LoopState, OwnerState
  <1>1. CASE ~aborted /\ TestRun
    BY <1>1 DEF TestRun, PT!Next, PT!Begin, PT!vars
  <1>2. CASE ~aborted /\ TaskReturns
    BY <1>2 DEF TaskReturns, PT!Next, PT!End, PT!vars
  <1>3. CASE ~aborted /\ TaskThrows
    BY <1>3 DEF TaskThrows, PT!Next, PT!Abort, PT!vars
  <1>4. CASE ~aborted /\ Tick
    BY <1>4 DEF Tick, PT!Next, PT!Rest, PT!vars
  <1>5. CASE ~aborted /\ DtorStop
    BY <1>5 DEF DtorStop, PT!Next, PT!Stop, PT!vars
  <1>6. CASE ~aborted /\ DtorJoin
    BY <1>6 DEF DtorJoin, PT!Next, PT!Over, PT!vars
  <1>7. CASE ~aborted /\ Construct
    BY <1>7, MembersAt DEF Construct, PT!vars
  <1>8. CASE ~aborted /\ (Stamp \/ CheckPredicate \/ Block \/ Wake)
    BY <1>8 DEF Stamp, CheckPredicate, Block, Wake, PT!Next, PT!Rest, PT!vars
  <1>9. CASE ~aborted /\ (LockForWait \/ Reacquire \/ WaitTimedOut)
    BY <1>9 DEF LockForWait, Reacquire, WaitTimedOut, TakeMutex, PT!vars
  <1>10. CASE ~aborted /\ (DtorEnter \/ DtorLock \/ DtorNotify)
    BY <1>10 DEF DtorEnter, DtorLock, DtorNotify, PT!vars
  <1>11. CASE UNCHANGED vars
    BY <1>11 DEF vars, PT!vars
  <1>12. QED
    BY <1>1, <1>2, <1>3, <1>4, <1>5, <1>6, <1>7, <1>8, <1>9, <1>10, <1>11
    DEF Next, Step, LoopStep, OwnerStep, Finished

\* Whatever the interval, Daemon does what its comment promises: it implements
\* PeriodicTask.
THEOREM Refinement == Spec => ImplementsPeriodicTask
  <1>1. IndInv /\ [Next]_vars => [PT!Next]_PT!vars
    BY StepRefines
  <1>2. QED
    BY <1>1, InitRefines, SpecIndInv, PTL DEF Spec, ImplementsPeriodicTask, PT!Spec
=============================================================================
