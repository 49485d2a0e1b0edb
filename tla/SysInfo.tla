------------------------------- MODULE SysInfo -------------------------------
(***************************************************************************)
(* What three collectors make of an answer of sysinfo: getMemoryInfo,      *)
(* getLoadAvg and getUptime (src/collectors).  Each asks for itself, from  *)
(* a thread of its own, and the machine changes meanwhile.                 *)
(* Fractions are exact here; a float may be a hundredth off.               *)
(***************************************************************************)
EXTENDS Integers

CONSTANTS
  Units,     \* values of mem_unit, the bytes a unit has
  Sizes,     \* numbers of units
  Megabyte,  \* the bytes of a megabyte: 1024 * 1024
  Width,     \* the values of an unsigned long: 2^64
  IntWidth,  \* those of the int inMegabyte returns: 2^32
  Loads,     \* fixed-point loads
  LoadOne,   \* the load of 1.00: 1 << SI_LOAD_SHIFT
  Uptimes,   \* seconds since the boot
  Garbage    \* what a long that nothing was written to may hold

\* What is assumed of the constants.
SysInfoAssumption ==
  /\ Units \subseteq Nat \ {0} /\ Sizes \subseteq Nat /\ Loads \subseteq Nat
  /\ {Megabyte, Width, IntWidth, LoadOne} \subseteq Nat \ {0}
  /\ Uptimes \subseteq Nat /\ Garbage \subseteq Int

NoNumber == -1  \* a quotient that is NaN
Nothing == <<>>

\* What sysinfo says of memory: no more is free than there is, there is some, and
\* what there is can be addressed.
Memories ==
  {m \in [unit : Units, total : Sizes, free : Sizes, totalswap : Sizes, freeswap : Sizes] :
     /\ m.free <= m.total /\ m.total > 0
     /\ m.freeswap <= m.totalswap
     /\ m.unit * m.total < Width \div 2 /\ m.unit * m.totalswap < Width \div 2}

VARIABLES
  call,    \* the function that returned last
  answer,  \* what sysinfo told it, Nothing if sysinfo failed
  result   \* what it returned

vars == <<call, answer, result>>

Init == call = "none" /\ answer = Nothing /\ result = Nothing

-----------------------------------------------------------------------------
(* Definitions named ...Mutant are bugs this code does not have.             *)

\* part / whole * 100.0 and floatDecimalPoint, in hundredths of a per cent.
Percent(part, whole) == IF whole = 0 THEN NoNumber ELSE (10000 * part) \div whole

\* Bytes as a signed number of some width.
Signed(n, width) == LET m == n % width IN IF 2 * m < width THEN m ELSE m - width

\* Division rounds towards zero.
Quotient(n, d) == IF n >= 0 THEN n \div d ELSE -((-n) \div d)

\* The result is an int.
InMegabyte(d) == Signed(Quotient(d, Megabyte), IntWidth)

\* Mutant: what is used is not scaled.
GetMemoryInfoMutant(m) ==
  [used_mb |-> InMegabyte(m.total - m.free),
   total_mb |-> InMegabyte(m.total * m.unit),
   free_mb |-> InMegabyte(m.free * m.unit),
   used_percent |-> Percent(m.total - m.free, m.total),
   swap_used_mb |-> 0, swap_total_mb |-> 0, swap_free_mb |-> 0, swap_used_percent |-> 0]

\* The swap is scaled twice in its total, and not at all in its free part.
GetMemoryInfo(m) ==
  LET totalSwap == Signed(m.totalswap * m.unit * m.unit, Width)
      usedSwap == (m.totalswap - m.freeswap) * m.unit
  IN  [used_mb |-> InMegabyte((m.total - m.free) * m.unit),
       total_mb |-> InMegabyte(m.total * m.unit),
       free_mb |-> InMegabyte(m.free * m.unit),
       used_percent |-> Percent(m.total - m.free, m.total),
       swap_used_mb |-> InMegabyte(usedSwap),
       swap_total_mb |-> InMegabyte(totalSwap),
       swap_free_mb |-> InMegabyte(m.freeswap),
       swap_used_percent |-> Percent(usedSwap, totalSwap)]

\* getMemoryInfo: an empty object if sysinfo fails.
Memory ==
  /\ call' = "memory"
  /\ \/ \E m \in Memories : answer' = m /\ result' = GetMemoryInfo(m)
     \/ answer' = Nothing /\ result' = Nothing

\* getLoadAvg, in hundredths; an empty object if sysinfo fails.
Load ==
  /\ call' = "load"
  /\ \/ \E loads \in [{"minute", "five_minutes", "fifteen_minutes"} -> Loads] :
          /\ answer' = loads
          /\ result' = [span \in DOMAIN loads |-> (100 * loads[span]) \div LoadOne]
     \/ answer' = Nothing /\ result' = Nothing

\* Days, hours and minutes.
Parts(seconds) ==
  LET Rest(d) == seconds - d * Quotient(seconds, d)
  IN  [days |-> Quotient(seconds, 86400),
       hours |-> Quotient(Rest(86400), 3600),
       minutes |-> Quotient(Rest(3600), 60)]

\* getUptime does not ask whether sysinfo failed: its structure then holds anything.
Uptime ==
  /\ call' = "uptime"
  /\ \/ \E seconds \in Uptimes : answer' = [uptime |-> seconds] /\ result' = Parts(seconds)
     \/ answer' = Nothing /\ \E garbage \in Garbage : result' = Parts(garbage)

Next == Memory \/ Load \/ Uptime

Spec == Init /\ [][Next]_vars

-----------------------------------------------------------------------------
(* Properties *)

\* Megabytes that hold so many bytes, rounded down.
Holds(mb, bytes) == bytes - mb * Megabyte \in 0..Megabyte - 1

\* Three figures of one resource agree with each other and with its size: the whole is its
\* parts, to the megabyte that rounding takes, and the share is that of the part used.
Agree(used, free, total, percent, part, whole, unit) ==
  /\ Holds(used, part * unit) /\ Holds(total, whole * unit)
  /\ total - (used + free) \in 0..1
  /\ whole > 0 => 10000 * part - percent * whole \in 0..whole - 1
  /\ whole = 0 => percent = NoNumber

\* When sysinfo answers, the figures of one report agree with each other and with the
\* machine, as long as an int holds them: those of the memory in whatever unit it is
\* counted, the swap that is used in any unit too, all three of the swap only if the unit
\* is a byte (its total is scaled twice and its free part never, memory.cpp:36-40), and
\* the parts of the uptime with its minutes (memory.cpp:27-56, host.cpp:73-81).
FiguresAgree ==
  answer # Nothing =>
    /\ call = "memory" /\ 2 * answer.total * answer.unit < Megabyte * IntWidth =>
         Agree(result.used_mb, result.free_mb, result.total_mb, result.used_percent,
               answer.total - answer.free, answer.total, answer.unit)
    /\ call = "memory" /\ 2 * answer.totalswap * answer.unit < Megabyte * IntWidth =>
         /\ Holds(result.swap_used_mb, (answer.totalswap - answer.freeswap) * answer.unit)
         /\ answer.unit = 1 =>
              Agree(result.swap_used_mb, result.swap_free_mb, result.swap_total_mb,
                    result.swap_used_percent, answer.totalswap - answer.freeswap,
                    answer.totalswap, 1)
    /\ call = "uptime" =>
         (result.days * 24 + result.hours) * 60 + result.minutes = answer.uptime \div 60
=============================================================================
