--------------------------------- MODULE Cpu ---------------------------------
(***************************************************************************)
(* getCpuInfo (src/collectors/cpu.cpp): two samples of the times in        *)
(* /proc/stat, a second apart, and what share each has of the time between *)
(* them, rounded down to hundredths of a per cent by floatDecimalPoint.    *)
(* Fractions are exact here; a float may be a hundredth off.               *)
(*                                                                         *)
(* External: the kernel counts the time of a guest twice, as guest and as  *)
(* user (or nice) time, and may take idle or iowait time back.             *)
(***************************************************************************)
EXTENDS Integers

CONSTANTS
  Modulus,   \* the values a counter has: 2^64
  Boot,      \* those it may have when the call begins
  MaxTicks   \* bound: changes of the counters

\* What is assumed of the constants.  A tick may count twice, and a second is too short
\* for a counter to come round.
CpuAssumption ==
  /\ Modulus \in Nat \ {0}
  /\ Boot \subseteq 0..Modulus - 1
  /\ MaxTicks \in Nat /\ 2 * MaxTicks < Modulus

Idle == {"S_IDLE", "S_IOWAIT"}
Guest == {"S_GUEST", "S_GUEST_NICE"}
Hidden == {"S_IRQ", "S_SOFTIRQ"}
Running == {"S_USER", "S_NICE", "S_SYSTEM", "S_STEAL"}
Reported == Running \cup Idle
CpuStat == Reported \cup Hidden \cup Guest

NoNumber == -1  \* a quotient that is NaN or infinite

VARIABLES
  stat,    \* the counters in /proc/stat
  ticks,   \* number of changes of them
  pc,      \* "first", "second", "done", or "dead"
  e1,      \* the first sample
  result,  \* share, in hundredths of a per cent
  spent,   \* history: the time counted since the first sample
  back     \* history: idle or iowait time was taken back since

vars == <<stat, ticks, pc, e1, result, spent, back>>

Nothing == [k \in CpuStat |-> 0]

Init ==
  /\ stat \in {[k \in CpuStat |-> b] : b \in Boot}
  /\ ticks = 0
  /\ pc = "first"
  /\ e1 = Nothing
  /\ result = [k \in Reported |-> NoNumber]
  /\ spent = Nothing
  /\ back = FALSE

-----------------------------------------------------------------------------
(* The call.  Definitions named ...Mutant are bugs this code does not have.  *)

\* readStatsCPU of the first sample.  A file that cannot be opened is read as NULL.
First ==
  /\ pc = "first"
  /\ \/ pc' = "second" /\ e1' = stat
     \/ pc' = "dead" /\ UNCHANGED e1
  /\ spent' = Nothing
  /\ back' = FALSE
  /\ UNCHANGED <<stat, ticks, result>>

IdleTime(e) == e["S_IDLE"] + e["S_IOWAIT"]
ActiveTime(e) ==
  e["S_USER"] + e["S_NICE"] + e["S_SYSTEM"] + e["S_IRQ"] + e["S_SOFTIRQ"] + e["S_STEAL"]
    + e["S_GUEST"] + e["S_GUEST_NICE"]

\* An unsigned difference.
Passed(after, before) == (after - before) % Modulus

\* Mutant: waiting for a disk is no idle time.
TotalMutant ==
  Passed(ActiveTime(stat), ActiveTime(e1)) + Passed(stat["S_IDLE"], e1["S_IDLE"])

\* TOTAL_TIME.
Total == Passed(ActiveTime(stat), ActiveTime(e1)) + Passed(IdleTime(stat), IdleTime(e1))

\* 100.f * part / total and floatDecimalPoint.
Share(part, total) == IF total = 0 THEN NoNumber ELSE (10000 * part) \div total

\* The second sample and the result.
Second ==
  /\ pc = "second"
  /\ \/ pc' = "dead" /\ UNCHANGED result
     \/ pc' = "done" /\ result' = [k \in Reported |-> Share(Passed(stat[k], e1[k]), Total)]
  /\ UNCHANGED <<stat, ticks, e1, spent, back>>

-----------------------------------------------------------------------------
(* The kernel *)

\* A tick is counted.
Tick(k) ==
  /\ ticks < MaxTicks /\ ticks' = ticks + 1
  /\ LET kinds == {k} \cup {u \in {"S_USER"} : k = "S_GUEST"}
                      \cup {u \in {"S_NICE"} : k = "S_GUEST_NICE"}
     IN  /\ stat' = [i \in CpuStat |-> IF i \in kinds THEN (stat[i] + 1) % Modulus ELSE stat[i]]
         /\ spent' = [i \in CpuStat |-> IF i \in kinds THEN spent[i] + 1 ELSE spent[i]]
  /\ UNCHANGED <<pc, e1, result, back>>

\* A tick of idle or iowait time is taken back.
TakeBack(k) ==
  /\ ticks < MaxTicks /\ ticks' = ticks + 1
  /\ stat' = [stat EXCEPT ![k] = (@ - 1) % Modulus]
  /\ spent' = [spent EXCEPT ![k] = @ - 1]
  /\ back' = TRUE
  /\ UNCHANGED <<pc, e1, result>>

Next ==
  \/ First \/ Second
  \/ pc \in {"first", "second"} /\ \E k \in CpuStat : Tick(k)
  \/ pc = "second" /\ \E k \in Idle : TakeBack(k)

Spec == Init /\ [][Next]_vars

-----------------------------------------------------------------------------
(* Properties *)

\* The time that passed, a guest's counted once.
GuestTime == spent["S_GUEST"] + spent["S_GUEST_NICE"]
Elapsed == ActiveTime(spent) + IdleTime(spent) - GuestTime

AllShares ==
  result["S_USER"] + result["S_NICE"] + result["S_SYSTEM"] + result["S_IDLE"] + result["S_STEAL"]
    + result["S_IOWAIT"]

\* While no time is taken back, no share is more than what part of the time passed went
\* there, and it is less than a hundredth short of it but for the guests', whose time
\* TOTAL_TIME holds twice (cpu.cpp:21-22): by as much as theirs, all shares may be too
\* small, and without guests they are exact.  Together they are no more than the whole; as
\* long as all idle time only grows those of the busy kinds are in range whatever moves
\* between idle and iowait; and only when nothing passed is there no number
\* (cpu.cpp:58-72).
SharesAddUp ==
  pc = "done" =>
    /\ ~back =>
         /\ \A k \in Reported :
              IF Elapsed = 0 THEN result[k] = NoNumber
              ELSE /\ result[k] * Elapsed <= 10000 * spent[k]
                   /\ 10000 * spent[k] - result[k] * Elapsed < Elapsed + 10000 * GuestTime
         /\ AllShares <= 10000
    /\ IdleTime(spent) >= 0 /\ Elapsed > 0 =>
         \A k \in Running : 0 <= result[k] /\ result[k] <= 10000
=============================================================================
