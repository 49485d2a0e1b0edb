---------------------------- MODULE ProcessCheck ----------------------------
(***************************************************************************)
(* runProcessCheck (src/checks/process.cpp): a scan of /proc for a process *)
(* named rippled, while processes start, exec, exit and reuse pids.        *)
(*                                                                         *)
(* The directory is external: readdir hands out the pids in ascending      *)
(* order, from a buffer the kernel fills with those alive as it goes; a    *)
(* pid may be gone, or another process, when its cmdline is read.          *)
(***************************************************************************)
EXTENDS Integers

CONSTANT MaxPid  \* bound: the greatest pid

ASSUME MaxPidAssumption == MaxPid \in Nat \ {0}

Pids == 1..MaxPid

\* What a pid's cmdline reads as: nothing ("gone" or "nameless", a zombie or a
\* kernel thread), the validator's name, another one.
Kinds == {"gone", "nameless", "rippled", "other"}

VARIABLES
  proc,    \* pid -> what runs under it
  pc,      \* "list", "examine", "ok", "critical" or, if it cannot be opened,
           \* "unreadable"
  pos,     \* the greatest pid listed
  buffer,  \* listed pids not yet examined
  pid,     \* the process found, -1 for none
  ran,     \* history: the pids that have been rippled since the scan began
  stayed   \* history: those that have been all the time

vars == <<proc, pc, pos, buffer, pid, ran, stayed>>

Validators == {p \in Pids : proc[p] = "rippled"}
Live == {p \in Pids : p > pos /\ proc[p] # "gone"}
Least(S) == CHOOSE p \in S : \A q \in S : p <= q

Init ==
  /\ proc \in [Pids -> Kinds]
  /\ pc = "critical"
  /\ pos = MaxPid
  /\ buffer = {}
  /\ pid = -1
  /\ ran = {}
  /\ stayed = {}

\* opendir; the check runs once a beat.
Open ==
  /\ pc \in {"ok", "critical", "unreadable"}
  /\ pc' \in {"list", "unreadable"}
  /\ pos' = 0
  /\ buffer' = {}
  /\ pid' = -1
  /\ ran' = Validators
  /\ stayed' = Validators
  /\ UNCHANGED proc

\* readdir has the kernel list the next pid.
List ==
  /\ pc = "list"
  /\ Live # {}
  /\ pos' = Least(Live)
  /\ buffer' = buffer \cup {pos'}
  /\ UNCHANGED <<proc, pc, pid, ran, stayed>>

\* The buffer is full, or there are no more pids.
Listed ==
  /\ pc = "list"
  /\ buffer # {}
  /\ pc' = "examine"
  /\ UNCHANGED <<proc, pos, buffer, pid, ran, stayed>>

\* Mutant: an entry without a cmdline matches as well.
ExamineMutant ==
  /\ pc = "examine"
  /\ LET p == Least(buffer)
     IN  /\ buffer' = buffer \ {p}
         /\ IF proc[p] \in {"rippled", "gone"}
            THEN pid' = p /\ pc' = "ok"
            ELSE pc' = (IF buffer' = {} THEN "list" ELSE "examine") /\ UNCHANGED pid
  /\ UNCHANGED <<proc, pos, ran, stayed>>

\* Mutant: the buffer is given up with the first entry that does not match.
ExamineOneMutant ==
  /\ pc = "examine"
  /\ LET p == Least(buffer)
     IN  /\ buffer' = {}
         /\ IF proc[p] = "rippled"
            THEN pid' = p /\ pc' = "ok"
            ELSE pc' = "list" /\ UNCHANGED pid
  /\ UNCHANGED <<proc, pos, ran, stayed>>

\* Mutant: an entry that does not match is looked at again.
ExamineAgainMutant ==
  /\ pc = "examine"
  /\ LET p == Least(buffer)
     IN  IF proc[p] = "rippled"
         THEN pid' = p /\ pc' = "ok" /\ buffer' = buffer \ {p}
         ELSE UNCHANGED <<pc, pid, buffer>>
  /\ UNCHANGED <<proc, pos, ran, stayed>>

\* The cmdline of the next entry is read.
Examine ==
  /\ pc = "examine"
  /\ LET p == Least(buffer)
     IN  /\ buffer' = buffer \ {p}
         /\ IF proc[p] = "rippled"
            THEN pid' = p /\ pc' = "ok"
            ELSE pc' = (IF buffer' = {} THEN "list" ELSE "examine") /\ UNCHANGED pid
  /\ UNCHANGED <<proc, pos, ran, stayed>>

\* readdir returns NULL.
End ==
  /\ pc = "list"
  /\ buffer = {}
  /\ Live = {}
  /\ pc' = "critical"
  /\ UNCHANGED <<proc, pos, buffer, pid, ran, stayed>>

\* A process starts, execs, dies or is reaped.
Change(p, kind) ==
  /\ proc' = [proc EXCEPT ![p] = kind]
  /\ ran' = IF kind = "rippled" THEN ran \cup {p} ELSE ran
  /\ stayed' = IF kind = "rippled" THEN stayed ELSE stayed \ {p}
  /\ UNCHANGED <<pc, pos, buffer, pid>>

Scan == List \/ Listed \/ Examine \/ End

Next == Open \/ Scan \/ \E p \in Pids, kind \in Kinds : Change(p, kind)

Spec == Init /\ [][Next]_vars

\* The daemon's thread runs, and beats again and again.
FairSpec == Spec /\ WF_vars(Scan)

-----------------------------------------------------------------------------
(* Properties *)

\* Every variable stays in its range (process.cpp:19-27).
TypeOK ==
  /\ proc \in [Pids -> Kinds]
  /\ pc \in {"list", "examine", "ok", "critical", "unreadable"}
  /\ pos \in 0..MaxPid
  /\ buffer \in SUBSET Pids
  /\ pc = "examine" => buffer # {}
  /\ pid \in Pids \cup {-1}
  /\ pc # "ok" => pid = -1
  /\ ran \in SUBSET Pids
  /\ stayed \in SUBSET Pids

\* OK names a process that was the validator at some moment of this scan, though
\* its pid may have been listed for another one and may be gone again
\* (process.cpp:30-51, 65-69).
OkWasRunning == pc = "ok" => pid \in ran

\* A validator that runs all through a scan is found, whatever else starts and
\* dies meanwhile; only a restart under a smaller pid can be overlooked
\* (process.cpp:27, 60-61).
SteadyIsFound == pc = "critical" => stayed = {}

\* A scan ends, even while processes keep appearing (process.cpp:27).
ScanEnds == pc \in {"list", "examine"} ~> pc \in {"ok", "critical"}

\* Why SteadyIsFound holds, as an inductive invariant: what has stayed is still to
\* be listed, or listed and to be examined.
Ahead ==
  /\ stayed \subseteq Validators \cap ran
  /\ pc \in {"list", "examine"} => \A p \in stayed : p > pos \/ p \in buffer
  /\ pc = "critical" => stayed = {}
  /\ pc = "ok" => pid \in ran
  /\ pc \in {"list", "examine"} => Validators \subseteq ran

\* The invariant the theorems of ProcessCheckProofs rest on (process.cpp:21-54).
IndInv == TypeOK /\ Ahead
=============================================================================
