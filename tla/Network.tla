------------------------------ MODULE Network ------------------------------
(***************************************************************************)
(* getNetworkInfo (src/collectors/network.cpp): two samples of the byte    *)
(* counters of all interfaces, a second apart, and the rates made of them, *)
(* while interfaces and addresses come and go.                             *)
(*                                                                         *)
(* External: getifaddrs lists an entry per IPv4 address, named after its   *)
(* device or its label; sysfs has a directory per device; counters wrap,   *)
(* and start from zero with a device; a file whose device has gone cannot  *)
(* be read; and a file may fail to open for want of descriptors or memory. *)
(***************************************************************************)
EXTENDS Integers

CONSTANTS
  Devices,     \* the devices there may be, the loopback device apart
  Addresses,   \* the IPv4 addresses there may be
  Loopback,    \* those of the loopback device
  Device,      \* any other address -> its device
  Name,        \* address -> ifa_name: a device, or a label, which is none
  Unit,        \* the bytes counted as one: 1024
  Modulus,     \* the values a counter has: 2^64
  Boot,        \* those it may have when the call begins
  MaxEvents    \* bound: bursts of traffic, and devices and addresses that come or go

ASSUME NetworkAssumption ==
  /\ Loopback \subseteq Addresses
  /\ Device \in [Addresses \ Loopback -> Devices]
  /\ \A a \in Addresses \ Loopback : Name[a] \in Devices => Name[a] = Device[a]
  /\ Unit \in Nat \ {0} /\ Modulus \in Nat \ {0}
  /\ Boot \subseteq 0..Modulus - 1
  /\ MaxEvents \in Nat

Directions == {"rx", "tx"}

VARIABLES
  live,     \* the devices there are
  bound,    \* the addresses configured
  counter,  \* device -> its counters
  events,   \* number of what happened to them
  pc,       \* "list", "open", "read", "match", "returned", or "dead"
  todo,     \* the addresses listed and not yet read
  file,     \* the counter whose turn it is
  fresh,    \* a file is open, of a device still there
  rx,       \* last_rx_bytes, with what had passed when it was read
  round,    \* the sample being taken, 1 or 2
  sample,   \* netIO and netIOSecount
  rows,     \* the result
  passed,   \* history: bytes through each counter since the call began
  kept,     \* history: the devices there all the time
  held,     \* history: the addresses configured all the time
  gone,     \* history: the devices that went since the last listing
  failed,   \* history: a listing failed
  lacking   \* history: the last fopen lacked a descriptor, or memory

kernel == <<live, bound, counter, events>>
past == <<passed, kept, held>>
vars == <<kernel, past, pc, todo, file, fresh, rx, round, sample, rows, gone, failed,
          lacking>>

Init ==
  /\ live \in SUBSET Devices
  /\ bound \in {Loopback \cup S : S \in SUBSET {a \in Addresses \ Loopback : Device[a] \in live}}
  /\ counter \in [Devices -> [Directions -> Boot]]
  /\ events = 0
  /\ pc = "list" /\ round = 1
  /\ todo = {}
  /\ file = "rx"
  /\ fresh = FALSE
  /\ rx = [value |-> 0, at |-> 0]
  /\ sample = <<{}, {}>>
  /\ rows = {}
  /\ passed = [d \in Devices |-> [f \in Directions |-> 0]]
  /\ kept = live
  /\ held = bound
  /\ gone = {}
  /\ failed = FALSE
  /\ lacking = FALSE

-----------------------------------------------------------------------------
(* The call.  Definitions named ...Mutant are bugs this code does not have.  *)

\* Mutant: the interfaces are listed once, for both samples.
ListMutant ==
  /\ pc = "list"
  /\ todo' = IF round = 1 THEN bound \ Loopback ELSE {e.address : e \in sample[1]}
  /\ failed' = failed
  /\ pc' = "open"
  /\ gone' = {}
  /\ UNCHANGED <<kernel, past, file, fresh, rx, round, sample, rows, lacking>>

\* getInterfaces: all IPv4 addresses but the loopback's, or none if getifaddrs
\* fails.  The second sample is taken a second after the first.
List ==
  /\ pc = "list"
  /\ \/ todo' = bound \ Loopback /\ failed' = failed
     \/ todo' = {} /\ failed' = TRUE
  /\ pc' = "open"
  /\ gone' = {}
  /\ UNCHANGED <<kernel, past, file, fresh, rx, round, sample, rows, lacking>>

\* The address whose turn it is: nothing depends on their order.
This == CHOOSE a \in todo : TRUE

\* getStatistic, fopen: it fails for a path of no device, and for want of a descriptor or
\* of memory (EMFILE, ENFILE, ENOMEM) whatever the path; that is reported, and NULL is read.
Open ==
  /\ pc = "open" /\ todo # {}
  /\ lacking' \in BOOLEAN
  /\ fresh' = (Name[This] \in live /\ ~lacking')
  /\ pc' = IF fresh' THEN "read" ELSE "dead"
  /\ UNCHANGED <<kernel, past, todo, file, rx, round, sample, rows, gone, failed>>

\* What fscanf leaves in the variable: if it cannot read, what was there before,
\* and the variable is not initialised.
Readings ==
  [value : IF fresh THEN {counter[Name[This]][file]} ELSE 0..Modulus - 1,
   at : {passed[Name[This]][file]}]

\* fscanf and fclose; the second file completes the entry for the address.
Read ==
  /\ pc = "read"
  /\ \E r \in Readings :
       \/ /\ file = "rx"
          /\ rx' = r
          /\ file' = "tx"
          /\ UNCHANGED <<todo, sample>>
       \/ /\ file = "tx"
          /\ sample' = [sample EXCEPT ![round] =
                          @ \cup {[address |-> This, name |-> Name[This], rx |-> rx, tx |-> r]}]
          /\ todo' = todo \ {This}
          /\ file' = "rx"
          /\ UNCHANGED rx
  /\ pc' = "open"
  /\ fresh' = FALSE
  /\ UNCHANGED <<kernel, past, round, rows, gone, failed, lacking>>

\* gatterInfo returns.
Sampled ==
  /\ pc = "open" /\ todo = {}
  /\ pc' = IF round = 1 THEN "list" ELSE "match"
  /\ round' = 2
  /\ UNCHANGED <<kernel, past, todo, file, fresh, rx, sample, rows, gone, failed, lacking>>

\* Mutant: a counter that is smaller than before counts as idle.
KilobytesMutant(a, b) == (IF b.value >= a.value THEN b.value - a.value ELSE 0) \div Unit

\* An unsigned difference, in kilobytes.
Kilobytes(a, b) ==
  (IF b.value >= a.value THEN b.value - a.value ELSE b.value - a.value + Modulus) \div Unit

Row(a, b) ==
  [name |-> a.name, inbound |-> Kilobytes(a.rx, b.rx), outbound |-> Kilobytes(a.tx, b.tx),
   between |-> <<a, b>>]

\* Mutant: interfaces without traffic are left out.
MatchMutant ==
  /\ pc = "match"
  /\ rows' = {r \in {Row(a, b) : a \in sample[1], b \in sample[2]} :
                r.between[1].name = r.between[2].name /\ r.inbound + r.outbound > 0}
  /\ pc' = "returned"
  /\ UNCHANGED <<kernel, past, todo, file, fresh, rx, round, sample, gone, failed, lacking>>

\* The two loops: a row for any two entries of one name.
Match ==
  /\ pc = "match"
  /\ rows' = {Row(p[1], p[2]) : p \in {q \in sample[1] \X sample[2] : q[1].name = q[2].name}}
  /\ pc' = "returned"
  /\ UNCHANGED <<kernel, past, todo, file, fresh, rx, round, sample, gone, failed, lacking>>

-----------------------------------------------------------------------------
(* The kernel *)

Happens == events < MaxEvents /\ events' = events + 1

\* n bytes through a counter.
Traffic(d, f, n) ==
  /\ d \in live /\ Happens
  /\ passed' = [passed EXCEPT ![d][f] = @ + n]
  /\ counter' = [counter EXCEPT ![d][f] = IF @ + n < Modulus THEN @ + n ELSE @ + n - Modulus]
  /\ UNCHANGED <<live, bound, pc, todo, file, fresh, rx, round, sample, rows, kept, held,
                 gone, failed, lacking>>

\* A device goes, with its addresses.
Remove(d) ==
  /\ d \in live /\ Happens
  /\ live' = live \ {d}
  /\ bound' = {a \in bound : a \in Loopback \/ Device[a] # d}
  /\ kept' = kept \ {d}
  /\ held' = held \cap bound'
  /\ gone' = gone \cup {d}
  /\ fresh' = (fresh /\ Name[This] # d)
  /\ UNCHANGED <<counter, pc, todo, file, rx, round, sample, rows, passed, failed,
                 lacking>>

\* A device comes.
Add(d) ==
  /\ d \notin live /\ Happens
  /\ live' = live \cup {d}
  /\ counter' = [counter EXCEPT ![d] = [f \in Directions |-> 0]]
  /\ UNCHANGED <<bound, past, pc, todo, file, fresh, rx, round, sample, rows, gone, failed,
                 lacking>>

\* An address of a device is configured or removed.
Renumber(a) ==
  /\ a \notin Loopback /\ Device[a] \in live /\ Happens
  /\ bound' = IF a \in bound THEN bound \ {a} ELSE bound \cup {a}
  /\ held' = held \cap bound'
  /\ UNCHANGED <<live, counter, pc, todo, file, fresh, rx, round, sample, rows, passed, kept, gone,
                 failed, lacking>>

-----------------------------------------------------------------------------
Call == List \/ Open \/ Read \/ Sampled \/ Match

Kernel ==
  \/ \E d \in Devices : Remove(d) \/ Add(d)
  \/ \E d \in Devices, f \in Directions, n \in 1..Modulus - 1 : Traffic(d, f, n)
  \/ \E a \in Addresses : Renumber(a)

Next == Call \/ Kernel

Spec == Init /\ [][Next]_vars

-----------------------------------------------------------------------------
(* Properties *)

\* The bytes that passed between two readings, as a row should say.
Moved(a, b) == b.at - a.at

\* What a row says of a device that was there all the time is the traffic between
\* its two readings, also over a wrap of the counter and for a device listed under
\* several addresses (network.cpp:95-110).
RowsAreTraffic ==
  \A r \in rows :
    LET a == r.between[1]  b == r.between[2]
    IN  r.name \in kept =>
          /\ Moved(a.rx, b.rx) < Modulus => r.inbound = Moved(a.rx, b.rx) \div Unit
          /\ Moved(a.tx, b.tx) < Modulus => r.outbound = Moved(a.tx, b.tx) \div Unit

\* An address configured all the time is in the report, whatever happens to the
\* others (network.cpp:55-60, 74-78, 95-99).
HeldIsReported ==
  pc = "returned" /\ ~failed =>
    \A a \in held \ Loopback : \E r \in rows : r.between[1].address = a /\ r.between[2].address = a

\* The process dies of a file that cannot be opened, and as long as there are descriptors
\* and memory only if a device goes between its listing and its reading, or if an address
\* has a label of its own (network.cpp:27-32, 36-41, 57-59).
DiesOnlyInTheGap ==
  pc = "dead" => lacking \/ Name[This] \in gone \/ Name[This] \notin Devices

\* Why they hold, as an inductive invariant.
Reading == [value : 0..Modulus - 1, at : Nat]
Entry == [address : Addresses, name : {Name[a] : a \in Addresses}, rx : Reading, tx : Reading]

\* Every variable stays in its range (network.cpp:14-17, 24-48, 70-93).
TypeOK ==
  /\ kept \subseteq live /\ live \subseteq Devices
  /\ held \subseteq bound /\ bound \subseteq Addresses
  /\ counter \in [Devices -> [Directions -> 0..Modulus - 1]]
  /\ passed \in [Devices -> [Directions -> Nat]]
  /\ events \in 0..MaxEvents
  /\ pc \in {"list", "open", "read", "match", "returned", "dead"}
  /\ todo \subseteq Addresses
  /\ file \in Directions
  /\ {fresh, failed, lacking} \subseteq BOOLEAN
  /\ rx \in Reading
  /\ round \in {1, 2}
  /\ sample \in [{1, 2} -> SUBSET Entry]
  /\ gone \subseteq Devices

\* What can be where the call is: the second file of an entry is open after the first,
\* and the second sample is taken after the first.
Stages ==
  /\ pc \in {"read", "dead"} => todo # {}
  /\ file = "tx" => todo # {} /\ pc \in {"open", "read", "dead"}
  /\ pc \in {"match", "returned"} => round = 2
  /\ round = 1 => sample[2] = {}
  /\ pc = "read" => Name[This] \in Devices /\ (Name[This] \in kept => fresh)
  /\ pc # "returned" => rows = {}

\* A reading and the counter differ by what has passed since, but for whole turns.
Follows(d, f, r) ==
  /\ r.at <= passed[d][f]
  /\ \E k \in Int : counter[d][f] - r.value = passed[d][f] - r.at + k * Modulus

\* So does every reading of a device that was there all the time, and the second sample
\* is the later one.
ReadingsFollow ==
  /\ \A i \in {1, 2} : \A e \in sample[i] : e.name \in kept =>
       Follows(e.name, "rx", e.rx) /\ Follows(e.name, "tx", e.tx)
  /\ \A a \in sample[1], b \in sample[2] : a.name = b.name /\ a.name \in kept =>
       a.rx.at <= b.rx.at /\ a.tx.at <= b.tx.at
  /\ file = "tx" /\ Name[This] \in kept =>
       /\ Follows(Name[This], "rx", rx)
       /\ round = 2 => \A a \in sample[1] : a.name = Name[This] => a.rx.at <= rx.at

\* The addresses configured all the time are in a sample, or still to be read.
Sampling(i, rest) ==
  \A a \in held \ Loopback : a \in rest \/ \E e \in sample[i] : e.address = a

HeldSampled ==
  /\ \A i \in {1, 2} : \A e \in sample[i] : e.name = Name[e.address]
  /\ ~failed =>
       /\ pc \in {"open", "read"} => Sampling(round, todo)
       /\ round = 2 => Sampling(1, {})
       /\ pc = "match" => Sampling(2, {})

\* An address has its device, and one that is listed has it or it went since.
ListedLive ==
  /\ \A a \in bound \ Loopback : Device[a] \in live
  /\ \A a \in todo : Name[a] \in live \cup gone \/ Name[a] \notin Devices

\* The invariant the theorems of CollectorsProofs rest on (network.cpp:20-114).
IndInv ==
  /\ TypeOK /\ Stages /\ ReadingsFollow /\ HeldSampled /\ ListedLive
  /\ RowsAreTraffic /\ HeldIsReported /\ DiesOnlyInTheGap
=============================================================================
