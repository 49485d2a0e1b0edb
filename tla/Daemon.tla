------------------------------- MODULE Daemon -------------------------------
(***************************************************************************)
(* The Daemon class (src/common/daemon.hpp, daemon.cpp): a thread started  *)
(* by the constructor runs the task, stamps its completion and waits on a  *)
(* condition variable for the interval or for the destructor, which writes *)
(* shouldRun_ under the mutex, notifies and joins.                         *)
(*                                                                         *)
(* The loop reads shouldRun_ without the mutex while the destructor may be *)
(* writing it: a data race on a plain bool.  Until the loop has taken the  *)
(* mutex after that write, a read may return the old or the new value.     *)
(***************************************************************************)
EXTENDS Naturals, Sequences

CONSTANT Interval   \* interval_, in clock ticks; 0 stands for every value <= 0

ASSUME IntervalAssumption == Interval \in Nat

VARIABLES
  built,      \* how many members the constructor has initialised
  shouldRun,  \* the member shouldRun_
  mutex,      \* holder of mutex_: "free", "loop" or "owner"
  loop,       \* where the thread is in Daemon::loop
  owner,      \* where the owner is: using the object, or in the destructor
  sawStop,    \* the loop took the mutex after the destructor's write
  timer,      \* ticks left to the deadline of the wait
  age,        \* ticks since lastTaskCompleted_, at most Interval
  late,       \* history: tasks begun after shouldRun_ became FALSE
  aborted     \* the task threw, and std::terminate ended the process

vars == <<built, shouldRun, mutex, loop, owner, sawStop, timer, age, late, aborted>>

\* Definitions named ...Mutant are bugs this code does not have; a property of
\* MCDaemon is refuted when one stands in for the definition after it.

\* Mutant: the thread is declared, and so started, before what it uses.
MembersMutant == <<"thread_", "interval_", "task_", "shouldRun_",
                   "lastTaskCompleted_", "mutex_", "cv_">>

\* The data members in the order of declaration, which is the order of
\* initialisation whatever the constructor's list says.
Members == <<"interval_", "task_", "shouldRun_", "lastTaskCompleted_",
             "mutex_", "cv_", "thread_">>

LoopState == {"unborn", "test", "task", "stamp", "lock", "check", "sleep",
              "blocked", "woken", "timeout", "done"}
OwnerState == {"alive", "dtor", "locked", "notify", "join", "destroyed"}

\* lastTaskCompleted_ starts at TimePoint::min(): longer ago than any interval.
Init ==
  /\ built = 0
  /\ shouldRun \in BOOLEAN
  /\ mutex = "free"
  /\ loop = "unborn"
  /\ owner = "alive"
  /\ sawStop = FALSE
  /\ timer = 0
  /\ age = Interval
  /\ late = 0
  /\ aborted = FALSE

-----------------------------------------------------------------------------
(* The constructor: one member at a time; thread_ starts Daemon::loop.      *)

Construct ==
  /\ built < Len(Members)
  /\ built' = built + 1
  /\ shouldRun' = IF Members[built + 1] = "shouldRun_" THEN TRUE ELSE shouldRun
  /\ loop' = IF Members[built + 1] = "thread_" THEN "test" ELSE loop
  /\ UNCHANGED <<mutex, owner, sawStop, timer, age, late, aborted>>

-----------------------------------------------------------------------------
(* Daemon::loop                                                             *)

\* Mutant: nothing ever makes the loop see the destructor's write.
TestRunMutant ==
  /\ loop = "test"
  /\ \E seen \in BOOLEAN :
       /\ shouldRun => seen
       /\ loop' = IF seen THEN "task" ELSE "done"
       /\ late' = IF seen /\ ~shouldRun THEN late + 1 ELSE late
  /\ UNCHANGED <<built, shouldRun, mutex, owner, sawStop, timer, age, aborted>>

\* while (shouldRun_), without the mutex.
TestRun ==
  /\ loop = "test"
  /\ \E seen \in BOOLEAN :
       /\ (seen <=> shouldRun) \/ (seen /\ ~sawStop)
       /\ loop' = IF seen THEN "task" ELSE "done"
       /\ late' = IF seen /\ ~shouldRun THEN late + 1 ELSE late
  /\ UNCHANGED <<built, shouldRun, mutex, owner, sawStop, timer, age, aborted>>

TaskReturns ==
  /\ loop = "task"
  /\ loop' = "stamp"
  /\ UNCHANGED <<built, shouldRun, mutex, owner, sawStop, timer, age, late, aborted>>

\* Nothing in loop catches: the exception leaves the thread function.
TaskThrows ==
  /\ loop = "task"
  /\ aborted' = TRUE
  /\ UNCHANGED <<built, shouldRun, mutex, loop, owner, sawStop, timer, age, late>>

Stamp ==
  /\ loop = "stamp"
  /\ loop' = "lock"
  /\ age' = 0
  /\ UNCHANGED <<built, shouldRun, mutex, owner, sawStop, timer, late, aborted>>

\* Take the mutex at from, go on at to.
TakeMutex(from, to) ==
  /\ loop = from
  /\ mutex = "free"
  /\ mutex' = "loop"
  /\ loop' = to
  /\ sawStop' = ~shouldRun

\* unique_lock; wait_for turns the interval into one deadline.
LockForWait ==
  /\ TakeMutex("lock", "check")
  /\ timer' = Interval
  /\ UNCHANGED <<built, shouldRun, owner, age, late, aborted>>

\* The predicate, under the mutex: leave the wait (and the scope of the
\* lock) if it holds, else go to sleep.
CheckPredicate ==
  /\ loop = "check"
  /\ IF shouldRun
     THEN loop' = "sleep" /\ UNCHANGED mutex
     ELSE loop' = "test" /\ mutex' = "free"
  /\ UNCHANGED <<built, shouldRun, owner, sawStop, timer, age, late, aborted>>

\* Releasing the mutex and blocking are one step of the condition variable.
Block ==
  /\ loop = "sleep"
  /\ mutex' = "free"
  /\ loop' = "blocked"
  /\ UNCHANGED <<built, shouldRun, owner, sawStop, timer, age, late, aborted>>

\* Mutant: wait_for without a predicate returns on any wakeup.
WakeMutant ==
  /\ loop = "blocked"
  /\ loop' = "timeout"
  /\ UNCHANGED <<built, shouldRun, mutex, owner, sawStop, timer, age, late, aborted>>

\* Mutant: wait instead of wait_for, no wakeup is the deadline's.
WakeForeverMutant ==
  /\ loop = "blocked"
  /\ loop' = "woken"
  /\ UNCHANGED <<built, shouldRun, mutex, owner, sawStop, timer, age, late, aborted>>

\* The deadline, or a spurious wakeup before it.
Wake ==
  /\ loop = "blocked"
  /\ loop' = IF timer = 0 THEN "timeout" ELSE "woken"
  /\ UNCHANGED <<built, shouldRun, mutex, owner, sawStop, timer, age, late, aborted>>

\* Woken before the deadline: reacquire, then the predicate again.
Reacquire ==
  /\ TakeMutex("woken", "check")
  /\ UNCHANGED <<built, shouldRun, owner, timer, age, late, aborted>>

\* Woken by the deadline: reacquire, and wait_for returns, whatever the
\* predicate; leaving the scope frees the mutex again.
WaitTimedOut ==
  /\ loop = "timeout"
  /\ mutex = "free"
  /\ loop' = "test"
  /\ sawStop' = ~shouldRun
  /\ UNCHANGED <<built, shouldRun, mutex, owner, timer, age, late, aborted>>

-----------------------------------------------------------------------------
(* Daemon::~Daemon, run by the owner once the object is constructed.        *)

DtorEnter ==
  /\ owner = "alive"
  /\ built = Len(Members)
  /\ owner' = "dtor"
  /\ UNCHANGED <<built, shouldRun, mutex, loop, sawStop, timer, age, late, aborted>>

\* Mutant: the destructor does not lock.
DtorLockMutant ==
  /\ owner = "dtor"
  /\ owner' = "locked"
  /\ UNCHANGED <<built, shouldRun, mutex, loop, sawStop, timer, age, late, aborted>>

DtorLock ==
  /\ owner = "dtor"
  /\ mutex = "free"
  /\ mutex' = "owner"
  /\ owner' = "locked"
  /\ UNCHANGED <<built, shouldRun, loop, sawStop, timer, age, late, aborted>>

\* Mutant: shouldRun_ is not cleared.
DtorStopMutant ==
  /\ owner = "locked"
  /\ mutex' = "free"
  /\ owner' = "notify"
  /\ UNCHANGED <<built, shouldRun, loop, sawStop, timer, age, late, aborted>>

DtorStop ==
  /\ owner = "locked"
  /\ shouldRun' = FALSE
  /\ mutex' = "free"
  /\ owner' = "notify"
  /\ UNCHANGED <<built, loop, sawStop, timer, age, late, aborted>>

DtorNotify ==
  /\ owner = "notify"
  /\ loop' = IF loop = "blocked" THEN "woken" ELSE loop
  /\ owner' = "join"
  /\ UNCHANGED <<built, shouldRun, mutex, sawStop, timer, age, late, aborted>>

\* Mutant: detach instead of join.
DtorJoinMutant ==
  /\ owner = "join"
  /\ owner' = "destroyed"
  /\ UNCHANGED <<built, shouldRun, mutex, loop, sawStop, timer, age, late, aborted>>

DtorJoin ==
  /\ owner = "join"
  /\ loop = "done"
  /\ owner' = "destroyed"
  /\ UNCHANGED <<built, shouldRun, mutex, loop, sawStop, timer, age, late, aborted>>

-----------------------------------------------------------------------------
\* steady_clock moves on.
Tick ==
  /\ timer' = IF timer = 0 THEN 0 ELSE timer - 1
  /\ age' = IF age = Interval THEN Interval ELSE age + 1
  /\ <<timer, age>>' # <<timer, age>>
  /\ UNCHANGED <<built, shouldRun, mutex, loop, owner, sawStop, late, aborted>>

LoopStep ==
  \/ TestRun \/ TaskReturns \/ Stamp \/ LockForWait \/ CheckPredicate
  \/ Block \/ Reacquire \/ WaitTimedOut

OwnerStep == DtorStop \/ DtorNotify \/ DtorJoin

Step == Construct \/ LoopStep \/ TaskThrows \/ Wake \/ DtorEnter \/ DtorLock
          \/ OwnerStep \/ Tick

\* The object is gone, or the process is: nothing is left to do.
Finished ==
  /\ aborted \/ owner = "destroyed"
  /\ UNCHANGED vars

Next == (~aborted /\ Step) \/ Finished

Spec == Init /\ [][Next]_vars
-----------------------------------------------------------------------------
(* What the scheduling justifies.  The loop thread and the owner run when   *)
(* they can, the clock moves, and the task returns or throws; a spurious    *)
(* wakeup need not happen, the one at the deadline does.  The mutex is not  *)
(* fair, but the loop lets go of it in every iteration, for the whole wait  *)
(* when Interval > 0: an owner that asks again and again gets it.           *)

FairSpec ==
  /\ Spec
  /\ WF_vars(~aborted /\ (Construct \/ LoopStep))
  /\ WF_vars(~aborted /\ timer = 0 /\ Wake)
  /\ WF_vars(~aborted /\ OwnerStep)
  /\ WF_vars(~aborted /\ Tick)
  /\ SF_vars(~aborted /\ DtorLock)

-----------------------------------------------------------------------------
(* Properties *)

\* Every variable stays in its range (daemon.hpp:42-49).
TypeOK ==
  /\ built \in 0..Len(Members)
  /\ shouldRun \in BOOLEAN
  /\ mutex \in {"free", "loop", "owner"}
  /\ loop \in LoopState
  /\ owner \in OwnerState
  /\ sawStop \in BOOLEAN
  /\ timer \in 0..Interval
  /\ age \in 0..Interval
  /\ late \in Nat
  /\ aborted \in BOOLEAN

\* The thread runs only in a fully constructed object: thread_ is declared
\* last, so the mutex, the condition variable and shouldRun_ exist before
\* Daemon::loop touches them (daemon.hpp:42-49).
ConstructedBeforeUse == loop # "unborn" => built = Len(Members)

\* Once the destructor has notified, the thread is not left asleep: the stop
\* cannot slip in between the predicate and the sleep (daemon.cpp:14-17, 29-33).
NoLostWakeup == owner \in {"join", "destroyed"} => loop # "blocked"

\* Although shouldRun_ is read outside the mutex, at most one task begins
\* after the destructor has cleared it (daemon.cpp:15, 24).
AtMostOneLateTask == late <= 1

\* Two activations are at least the interval apart, counted from the end of
\* the first: no spurious wakeup, no notification and no stop cuts the rest
\* short and runs the task (daemon.cpp:24-33).
Spacing == [][loop = "test" /\ loop' = "task" => age = Interval]_vars

\* Why the above hold, as an inductive invariant: what has been constructed and
\* stopped, who holds the mutex, what the loop knows of the stop, and that the
\* time still to wait covers the rest of the interval.
Lifetime ==
  /\ loop # "unborn" <=> built = Len(Members)
  /\ owner # "alive" => built = Len(Members)
  /\ owner \in {"alive", "dtor", "locked"} /\ built >= 3 => shouldRun
  /\ owner \in {"notify", "join", "destroyed"} <=> built >= 3 /\ ~shouldRun
  /\ owner = "destroyed" => loop = "done"

MutexDiscipline ==
  /\ mutex = "loop" <=> loop \in {"check", "sleep"}
  /\ mutex = "owner" <=> owner = "locked"

StopKnown ==
  /\ sawStop => built >= 3 /\ ~shouldRun /\ loop \in {"check", "test", "done"}
  /\ loop = "check" => (sawStop <=> ~shouldRun)
  /\ loop = "sleep" => shouldRun
  /\ loop = "done" => ~shouldRun
  /\ late > 0 => /\ late = 1
                 /\ built >= 3 /\ ~shouldRun
                 /\ loop \in {"task", "stamp", "lock"} \/ sawStop

RestCovered ==
  /\ loop \in {"unborn", "timeout"} => age = Interval
  /\ loop \in {"check", "sleep", "blocked", "woken"} => age + timer >= Interval
  /\ loop = "test" => age = Interval \/ sawStop

\* The invariant the theorems of DaemonProofs rest on (daemon.cpp:11-36).
IndInv ==
  TypeOK /\ Lifetime /\ MutexDiscipline /\ NoLostWakeup /\ StopKnown /\ RestCovered

\* The stop reaches the abstract daemon when shouldRun_ is cleared.
PT == INSTANCE PeriodicTask WITH
        running <- loop = "task",
        rested <- loop \notin {"task", "stamp"} /\ age = Interval,
        life <- IF aborted THEN "aborted"
                ELSE IF owner = "destroyed" THEN "over"
                ELSE IF owner \in {"notify", "join"} THEN "stopping" ELSE "up"

\* The class keeps the promise of its comment (daemon.hpp:8): it implements
\* PeriodicTask.
ImplementsPeriodicTask == PT!Spec

\* A destructor that was entered returns, whatever the thread was doing, so
\* long as the task itself returns (daemon.cpp:11-19).
DtorReturns == owner = "dtor" ~> (owner = "destroyed" \/ aborted)

\* While nobody destroys it, the daemon keeps running its task (daemon.hpp:8).
KeepsBeating == []<>(loop = "task") \/ <>(owner # "alive") \/ <>aborted
=============================================================================
