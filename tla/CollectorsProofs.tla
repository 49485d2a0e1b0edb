-------------------------- MODULE CollectorsProofs --------------------------
(***************************************************************************)
(* Theorems about the collectors: Network, for any devices, addresses and  *)
(* names, for counters of any width and any number of changes during the   *)
(* call; SysInfo, for any answers; Disk, for any devices, sizes and        *)
(* changes; and Cpu, for counters that start anywhere and wrap anywhere.   *)
(***************************************************************************)
EXTENDS Network, Collectors, TLAPS

-----------------------------------------------------------------------------
(* Division.                                                                 *)

\* What a quotient and a remainder are.
LEMMA DivMod ==
  ASSUME NEW x \in Int, NEW m \in Nat \ {0}
  PROVE  /\ x \div m \in Int /\ x % m \in 0..m - 1
         /\ x = m * (x \div m) + (x % m)
         /\ x - m * (x \div m) \in 0..m - 1
OBVIOUS

\* A multiple less than one time of a number from zero is none.
LEMMA SmallMultiple ==
  ASSUME NEW m \in Nat \ {0}, NEW k \in Int
  PROVE  /\ m * k > -m => k >= 0
         /\ m * k < m => k <= 0
<1>1. ASSUME k <= -1 PROVE m * k <= -m
  BY <1>1
<1>2. ASSUME k >= 1 PROVE m * k >= m
  BY <1>2
<1>. QED BY <1>1, <1>2

-----------------------------------------------------------------------------
(* Network                                                                   *)

\* The address whose turn it is is one of those to be read.
LEMMA ThisInTodo ==
  ASSUME todo # {}
  PROVE  This \in todo
BY DEF This

-----------------------------------------------------------------------------
(* Counters                                                                  *)

\* Two numbers below one turn that differ by another, but for whole turns.
LEMMA Turn ==
  ASSUME NEW v \in Int, NEW m \in Int, NEW t \in Int, NEW M \in Nat \ {0},
         v = m + t * M, m \in 0..M - 1, v \in 1 - M..M - 1
  PROVE  m = IF v >= 0 THEN v ELSE v + M
<1>1. t * M \in Int
  OBVIOUS
<1>2. t >= 1 => t * M >= M
  OBVIOUS
<1>3. t <= -2 => t * M <= -2 * M
  OBVIOUS
<1>4. t = 0 => t * M = 0
  OBVIOUS
<1>5. t = -1 => t * M = -M
  OBVIOUS
<1>6. t = 0 \/ t = -1
  BY <1>1, <1>2, <1>3
<1>. QED BY <1>1, <1>4, <1>5, <1>6

\* Two readings of one counter, the second not before the first: their unsigned
\* difference is what passed between them, if that is less than one turn.
LEMMA Difference ==
  ASSUME TypeOK, NEW d \in Devices, NEW f \in Directions,
         NEW a \in Reading, NEW b \in Reading,
         Follows(d, f, a), Follows(d, f, b), a.at <= b.at, Moved(a, b) < Modulus
  PROVE  Kilobytes(a, b) = Moved(a, b) \div Unit
<1>1. PICK j \in Int : counter[d][f] - a.value = passed[d][f] - a.at + j * Modulus
  BY DEF Follows
<1>2. PICK k \in Int : counter[d][f] - b.value = passed[d][f] - b.at + k * Modulus
  BY DEF Follows
<1>3. /\ counter[d][f] \in Int /\ passed[d][f] \in Int
      /\ a.value \in 0..Modulus - 1 /\ b.value \in 0..Modulus - 1
      /\ a.at \in Int /\ b.at \in Int /\ Modulus \in Nat \ {0}
  BY NetworkAssumption DEF TypeOK, Reading
<1>4. (j - k) * Modulus = j * Modulus - k * Modulus
  BY <1>3
<1>5. b.value - a.value = (b.at - a.at) + (j * Modulus - k * Modulus)
  <2>1. PICK x \in Int, y \in Int : x = j * Modulus /\ y = k * Modulus
    BY <1>3
  <2>2. PICK c \in Int, p \in Int, v \in Int, w \in Int, m \in Int, n \in Int :
          /\ c = counter[d][f] /\ p = passed[d][f] /\ v = a.value /\ w = b.value
          /\ m = a.at /\ n = b.at
    <3>1. a.value \in Int /\ b.value \in Int
      BY <1>3
    <3>. QED BY <1>3, <3>1, Zenon
  <2>3. c - v = p - m + x /\ c - w = p - n + y
    BY <1>1, <1>2, <2>1, <2>2, Zenon
  <2>4. w - v = (n - m) + (x - y)
    BY <2>3
  <2>. QED BY <2>1, <2>2, <2>4, Zenon
<1>6. b.value - a.value = (b.at - a.at) + (j - k) * Modulus
  BY <1>4, <1>5, Zenon
<1>7. /\ b.value - a.value \in Int /\ b.at - a.at \in Int /\ j - k \in Int
      /\ b.value - a.value \in 1 - Modulus..Modulus - 1 /\ b.at - a.at \in 0..Modulus - 1
  BY <1>3 DEF Moved
<1>8. b.at - a.at = IF b.value - a.value >= 0 THEN b.value - a.value
                    ELSE b.value - a.value + Modulus
  BY <1>3, <1>6, <1>7, Turn
<1>9. b.value - a.value >= 0 <=> b.value >= a.value
  BY <1>3
<1>. QED BY <1>8, <1>9 DEF Kilobytes, Moved

\* A reading of a counter follows it.
LEMMA ReadFollows ==
  ASSUME TypeOK, NEW d \in Devices, NEW f \in Directions,
         NEW r \in Reading, r.value = counter[d][f], r.at = passed[d][f]
  PROVE  Follows(d, f, r)
<1>1. counter[d][f] \in Int /\ passed[d][f] \in Int /\ 0 * Modulus = 0
  BY NetworkAssumption DEF TypeOK
<1>. QED BY <1>1 DEF Follows

\* What follows a counter goes on to do so, if the device is not replaced.
LEMMA StillFollows ==
  ASSUME TypeOK, NEW d \in Devices, NEW f \in Directions, NEW r \in Reading, Follows(d, f, r),
         \/ counter'[d][f] = counter[d][f] /\ passed'[d][f] = passed[d][f]
         \/ \E n \in 1..Modulus - 1 :
              /\ passed'[d][f] = passed[d][f] + n
              /\ \/ counter'[d][f] = counter[d][f] + n
                 \/ counter'[d][f] = counter[d][f] + n - Modulus
  PROVE  /\ r.at <= passed'[d][f]
         /\ \E k \in Int : counter'[d][f] - r.value = passed'[d][f] - r.at + k * Modulus
<1>1. PICK k \in Int : counter[d][f] - r.value = passed[d][f] - r.at + k * Modulus
  BY DEF Follows
<1>2. /\ counter[d][f] \in Int /\ passed[d][f] \in Int
      /\ r.value \in Int /\ r.at \in Int /\ Modulus \in Int /\ k * Modulus \in Int
  BY NetworkAssumption DEF TypeOK, Reading
<1>3. (k - 1) * Modulus = k * Modulus - Modulus
  BY <1>2
<1>4. r.at <= passed[d][f]
  BY DEF Follows
<1>5. CASE counter'[d][f] = counter[d][f] /\ passed'[d][f] = passed[d][f]
  BY <1>1, <1>4, <1>5
<1>6. ASSUME NEW n \in 1..Modulus - 1, passed'[d][f] = passed[d][f] + n,
             \/ counter'[d][f] = counter[d][f] + n
             \/ counter'[d][f] = counter[d][f] + n - Modulus
      PROVE  /\ r.at <= passed'[d][f]
             /\ \E i \in Int : counter'[d][f] - r.value = passed'[d][f] - r.at + i * Modulus
  <2>1. r.at <= passed'[d][f]
    BY <1>2, <1>4, <1>6
  <2>2. /\ (counter[d][f] + n) - r.value = (passed[d][f] + n) - r.at + k * Modulus
        /\ (counter[d][f] + n - Modulus) - r.value
              = (passed[d][f] + n) - r.at + (k * Modulus - Modulus)
    <3>1. PICK c \in Int, p \in Int, v \in Int, m \in Int, x \in Int, M \in Int :
            /\ c = counter[d][f] /\ p = passed[d][f] /\ v = r.value /\ m = r.at
            /\ x = k * Modulus /\ M = Modulus
      BY <1>2
    <3>2. c - v = p - m + x
      BY <1>1, <3>1, Zenon
    <3>3. (c + n) - v = (p + n) - m + x /\ (c + n - M) - v = (p + n) - m + (x - M)
      BY <3>2
    <3>. QED BY <3>1, <3>3, Zenon
  <2>3. \/ counter'[d][f] - r.value = passed'[d][f] - r.at + k * Modulus
        \/ counter'[d][f] - r.value = passed'[d][f] - r.at + (k - 1) * Modulus
    BY <1>3, <1>6, <2>2, Zenon
  <2>4. k - 1 \in Int
    OBVIOUS
  <2>. QED BY <2>1, <2>3, <2>4, Zenon
<1>. QED BY <1>5, <1>6

-----------------------------------------------------------------------------
(* The invariant                                                             *)

\* Nothing has been read at the start.
LEMMA InitIndInv == Init => IndInv
<1>. SUFFICES ASSUME Init PROVE IndInv
  OBVIOUS
<1>1. TypeOK
  <2>1. \A d \in Devices : counter[d] \in [Directions -> 0..Modulus - 1]
    BY NetworkAssumption DEF Init
  <2>2. counter \in [Devices -> [Directions -> 0..Modulus - 1]]
    BY <2>1 DEF Init
  <2>3. passed \in [Devices -> [Directions -> Nat]]
    BY DEF Init
  <2>4. sample \in [{1, 2} -> SUBSET Entry]
    BY DEF Init
  <2>5. rx \in Reading
    BY NetworkAssumption DEF Init, Reading
  <2>6. live \subseteq Devices /\ bound \subseteq Addresses /\ events \in 0..MaxEvents
    BY NetworkAssumption DEF Init
  <2>. QED BY <2>2, <2>3, <2>4, <2>5, <2>6 DEF Init, TypeOK, Directions
<1>2. Stages /\ RowsAreTraffic /\ HeldIsReported /\ DiesOnlyInTheGap
  BY DEF Init, Stages, RowsAreTraffic, HeldIsReported, DiesOnlyInTheGap
<1>3. ReadingsFollow /\ HeldSampled
  BY DEF Init, ReadingsFollow, HeldSampled
<1>4. ListedLive
  BY DEF Init, ListedLive
<1>. QED BY <1>1, <1>2, <1>3, <1>4 DEF IndInv

\* Nothing but where the call is and what is open has changed.
LEMMA SameReadings ==
  ASSUME ReadingsFollow, UNCHANGED <<kernel, past, todo, file, rx, round, sample>>
  PROVE  ReadingsFollow'
<1>1. This' = This
  BY DEF This
<1>. QED BY <1>1 DEF ReadingsFollow, Follows, kernel, past

\* Opening a file keeps the invariant.
LEMMA OpenIndInv == IndInv /\ Open => IndInv'
<1>. SUFFICES ASSUME IndInv, Open PROVE IndInv'
  OBVIOUS
<1>1. This' = This
  BY DEF Open, This
<1>2. This \in todo
  BY ThisInTodo DEF Open
<1>3. TypeOK'
  BY DEF IndInv, TypeOK, Open, kernel, past
<1>4. Stages'
  <2>1. pc' = "read" => Name[This] \in Devices /\ fresh'
    BY DEF IndInv, TypeOK, Open
  <2>. QED BY <1>1, <2>1 DEF IndInv, Stages, Open, kernel, past
<1>5. ReadingsFollow'
  BY SameReadings DEF IndInv, Open
<1>6. HeldSampled'
  BY DEF IndInv, HeldSampled, Sampling, Open, kernel, past
<1>7. ListedLive' /\ DiesOnlyInTheGap'
  BY <1>1, <1>2 DEF IndInv, ListedLive, DiesOnlyInTheGap, Open, kernel, past
<1>8. RowsAreTraffic' /\ HeldIsReported'
  BY DEF IndInv, RowsAreTraffic, HeldIsReported, Open, kernel, past
<1>. QED BY <1>3, <1>4, <1>5, <1>6, <1>7, <1>8 DEF IndInv

\* A listing keeps the invariant.
LEMMA ListIndInv == IndInv /\ List => IndInv'
<1>. SUFFICES ASSUME IndInv, List PROVE IndInv'
  OBVIOUS
<1>1. TypeOK'
  BY DEF IndInv, TypeOK, List, kernel, past
<1>2. Stages'
  BY DEF IndInv, Stages, List, kernel, past
<1>3. ReadingsFollow'
  <2>1. file = "rx" /\ file' = "rx"
    BY DEF IndInv, TypeOK, Stages, List, Directions
  <2>. QED BY <2>1 DEF IndInv, ReadingsFollow, Follows, List, kernel, past
<1>4. HeldSampled'
  <2>1. ~failed' => \A a \in held \ Loopback : a \in todo'
    BY DEF IndInv, TypeOK, List
  <2>. QED BY <2>1 DEF IndInv, HeldSampled, Sampling, List, kernel, past
<1>5. ListedLive'
  BY NetworkAssumption DEF IndInv, TypeOK, ListedLive, List, kernel, past
<1>6. RowsAreTraffic' /\ HeldIsReported' /\ DiesOnlyInTheGap'
  BY DEF IndInv, RowsAreTraffic, HeldIsReported, DiesOnlyInTheGap, List, kernel, past
<1>. QED BY <1>1, <1>2, <1>3, <1>4, <1>5, <1>6 DEF IndInv

\* So does the end of a sample.
LEMMA SampledIndInv == IndInv /\ Sampled => IndInv'
<1>. SUFFICES ASSUME IndInv, Sampled PROVE IndInv'
  OBVIOUS
<1>1. file = "rx" /\ file' = "rx"
  BY DEF IndInv, TypeOK, Stages, Sampled, Directions
<1>2. TypeOK'
  BY DEF IndInv, TypeOK, Sampled, kernel, past
<1>3. Stages'
  BY <1>1 DEF IndInv, TypeOK, Stages, Sampled, kernel, past
<1>4. ReadingsFollow'
  BY <1>1 DEF IndInv, ReadingsFollow, Follows, Sampled, kernel, past
<1>5. HeldSampled'
  <2>1. round \in {1, 2}
    BY DEF IndInv, TypeOK
  <2>2. ~failed => Sampling(round, {}) /\ (round = 2 => Sampling(1, {}))
    BY DEF IndInv, HeldSampled, Sampled
  <2>3. ~failed => Sampling(1, {}) /\ (round = 2 => Sampling(2, {}))
    BY <2>1, <2>2
  <2>4. \A i : Sampling(i, {})' <=> Sampling(i, {})
    BY DEF Sampling, Sampled, past
  <2>5. round' = 2 /\ failed' = failed /\ sample' = sample
    BY DEF Sampled
  <2>6. pc' = "list" \/ (pc' = "match" /\ round = 2)
    BY <2>1 DEF Sampled
  <2>. QED BY <2>3, <2>4, <2>5, <2>6 DEF IndInv, HeldSampled
<1>6. ListedLive' /\ RowsAreTraffic' /\ HeldIsReported' /\ DiesOnlyInTheGap'
  BY DEF IndInv, ListedLive, RowsAreTraffic, HeldIsReported, DiesOnlyInTheGap, Sampled, kernel, past
<1>. QED BY <1>2, <1>3, <1>4, <1>5, <1>6 DEF IndInv

\* The result keeps the invariant: here the readings become rows.
LEMMA MatchIndInv == IndInv /\ Match => IndInv'
<1>. SUFFICES ASSUME IndInv, Match PROVE IndInv'
  OBVIOUS
<1>1. round = 2 /\ file = "rx"
  BY DEF IndInv, TypeOK, Stages, Match, Directions
<1>2. TypeOK' /\ Stages'
  BY <1>1 DEF IndInv, TypeOK, Stages, Match, kernel, past
<1>3. ReadingsFollow'
  BY SameReadings DEF IndInv, Match
<1>4. HeldSampled' /\ ListedLive' /\ DiesOnlyInTheGap'
  BY DEF IndInv, HeldSampled, Sampling, ListedLive, DiesOnlyInTheGap, Match, kernel, past
<1>5. RowsAreTraffic'
  <2>. SUFFICES ASSUME NEW a \in sample[1], NEW b \in sample[2], a.name = b.name, a.name \in kept
                PROVE  LET r == Row(a, b)
                       IN  /\ Moved(a.rx, b.rx) < Modulus => r.inbound = Moved(a.rx, b.rx) \div Unit
                           /\ Moved(a.tx, b.tx) < Modulus => r.outbound = Moved(a.tx, b.tx) \div Unit
    BY DEF RowsAreTraffic, Match, Row, past
  <2>1. a \in Entry /\ b \in Entry /\ a.name \in Devices
    BY DEF IndInv, TypeOK
  <2>2. a.rx \in Reading /\ a.tx \in Reading /\ b.rx \in Reading /\ b.tx \in Reading
    BY <2>1 DEF Entry
  <2>3. /\ Follows(a.name, "rx", a.rx) /\ Follows(a.name, "tx", a.tx)
        /\ Follows(a.name, "rx", b.rx) /\ Follows(a.name, "tx", b.tx)
        /\ a.rx.at <= b.rx.at /\ a.tx.at <= b.tx.at
    BY DEF IndInv, ReadingsFollow
  <2>4. "rx" \in Directions /\ "tx" \in Directions /\ TypeOK
    BY DEF Directions, IndInv
  <2>5. Moved(a.rx, b.rx) < Modulus => Kilobytes(a.rx, b.rx) = Moved(a.rx, b.rx) \div Unit
    BY <2>1, <2>2, <2>3, <2>4, Difference, Zenon
  <2>6. Moved(a.tx, b.tx) < Modulus => Kilobytes(a.tx, b.tx) = Moved(a.tx, b.tx) \div Unit
    BY <2>1, <2>2, <2>3, <2>4, Difference, Zenon
  <2>. QED BY <2>5, <2>6 DEF Row
<1>6. HeldIsReported'
  <2>. SUFFICES ASSUME ~failed, NEW a \in held \ Loopback
                PROVE  \E r \in rows' : r.between[1].address = a /\ r.between[2].address = a
    BY DEF HeldIsReported, Match, past
  <2>1. PICK e \in sample[1] : e.address = a
    BY <1>1 DEF IndInv, HeldSampled, Sampling, Match
  <2>2. PICK g \in sample[2] : g.address = a
    BY <1>1 DEF IndInv, HeldSampled, Sampling, Match
  <2>3. e.name = g.name
    BY <2>1, <2>2 DEF IndInv, HeldSampled
  <2>4. Row(e, g) \in rows'
    <3>1. <<e, g>> \in {q \in sample[1] \X sample[2] : q[1].name = q[2].name}
      BY <2>3
    <3>. QED BY <3>1 DEF Match
  <2>5. Row(e, g).between[1] = e /\ Row(e, g).between[2] = g
    BY DEF Row
  <2>. QED BY <2>1, <2>2, <2>4, <2>5
<1>. QED BY <1>2, <1>3, <1>4, <1>5, <1>6 DEF IndInv

\* What is read of a counter: a value in its range, its own if the device was there all
\* the time.
LEMMA ReadingFacts ==
  ASSUME IndInv, pc = "read", NEW r \in Readings
  PROVE  /\ This \in todo /\ This \in Addresses /\ Name[This] \in Devices
         /\ r \in Reading /\ r.at = passed[Name[This]][file]
         /\ Name[This] \in kept => r.value = counter[Name[This]][file]
         /\ Name[This] \in kept => Follows(Name[This], file, r)
<1>1. This \in todo /\ This \in Addresses /\ Name[This] \in Devices /\ file \in Directions
  BY ThisInTodo DEF IndInv, TypeOK, Stages
<1>2. r \in Reading /\ r.at = passed[Name[This]][file]
  <2>1. counter[Name[This]][file] \in 0..Modulus - 1 /\ passed[Name[This]][file] \in Nat
    BY <1>1 DEF IndInv, TypeOK
  <2>. QED BY <2>1 DEF Readings, Reading
<1>3. Name[This] \in kept => r.value = counter[Name[This]][file]
  BY DEF IndInv, Stages, Readings
<1>4. Name[This] \in kept => Follows(Name[This], file, r)
  BY <1>1, <1>2, <1>3, ReadFollows DEF IndInv
<1>. QED BY <1>1, <1>2, <1>3, <1>4

\* The first file of an entry.
LEMMA ReadRx ==
  ASSUME IndInv, Read, file = "rx", file' = "tx", NEW r \in Readings, rx' = r,
         UNCHANGED <<todo, sample>>
  PROVE  IndInv'
<1>1. /\ This \in todo /\ This \in Addresses /\ Name[This] \in Devices
      /\ r \in Reading /\ r.at = passed[Name[This]][file]
      /\ Name[This] \in kept => Follows(Name[This], "rx", r)
  BY ReadingFacts DEF Read
<1>2. This' = This
  BY DEF This
<1>3. TypeOK'
  BY <1>1 DEF IndInv, TypeOK, Read, kernel, past, Directions
<1>4. Stages'
  BY <1>1 DEF IndInv, Stages, Read, kernel, past
<1>5. ReadingsFollow'
  <2>1. UNCHANGED <<counter, passed, kept, round, sample>>
    BY DEF Read, kernel, past
  <2>2. Name[This] \in kept => Follows(Name[This], "rx", rx)'
    BY <1>1, <1>2, <2>1 DEF Follows
  <2>3. ASSUME Name[This] \in kept, round = 2, NEW a \in sample[1], a.name = Name[This]
        PROVE  a.rx.at <= r.at
    BY <1>1, <2>3 DEF IndInv, ReadingsFollow, Follows
  <2>. QED BY <1>2, <2>1, <2>2, <2>3 DEF IndInv, ReadingsFollow, Follows
<1>6. HeldSampled'
  BY DEF IndInv, HeldSampled, Sampling, Read, kernel, past
<1>7. ListedLive' /\ RowsAreTraffic' /\ HeldIsReported' /\ DiesOnlyInTheGap'
  BY DEF IndInv, ListedLive, RowsAreTraffic, HeldIsReported, DiesOnlyInTheGap, Read, kernel, past
<1>. QED BY <1>3, <1>4, <1>5, <1>6, <1>7 DEF IndInv

\* The second file, and the entry they make.
LEMMA ReadTx ==
  ASSUME IndInv, Read, file = "tx", file' = "rx", NEW r \in Readings,
         sample' = [sample EXCEPT ![round] =
                      @ \cup {[address |-> This, name |-> Name[This], rx |-> rx, tx |-> r]}],
         todo' = todo \ {This}, rx' = rx
  PROVE  IndInv'
<1>. DEFINE new == [address |-> This, name |-> Name[This], rx |-> rx, tx |-> r]
<1>1. /\ This \in todo /\ This \in Addresses /\ Name[This] \in Devices
      /\ r \in Reading /\ r.at = passed[Name[This]][file]
      /\ Name[This] \in kept => Follows(Name[This], "tx", r)
  BY ReadingFacts DEF Read
<1>2. new \in Entry /\ new.address = This /\ new.name = Name[This] /\ new.rx = rx /\ new.tx = r
  BY <1>1 DEF Entry, IndInv, TypeOK
<1>. HIDE DEF new
<1>3. /\ round \in {1, 2} /\ sample'[round] = sample[round] \cup {new}
      /\ \A i \in {1, 2} : i # round => sample'[i] = sample[i]
      /\ sample' \in [{1, 2} -> SUBSET Entry]
  BY <1>2 DEF IndInv, TypeOK, new
<1>4. UNCHANGED <<counter, passed, kept, held, live, bound, round, gone, rows, failed>>
  BY DEF Read, kernel, past
<1>5. TypeOK'
  BY <1>3 DEF IndInv, TypeOK, Read, kernel, past, Directions
<1>6. Stages'
  BY <1>3 DEF IndInv, Stages, Read, kernel, past
<1>7. ReadingsFollow'
  <2>1. new.name \in kept => Follows(new.name, "rx", new.rx) /\ Follows(new.name, "tx", new.tx)
    BY <1>1, <1>2 DEF IndInv, ReadingsFollow
  <2>2. \A i \in {1, 2} : \A e \in sample'[i] : e.name \in kept =>
          Follows(e.name, "rx", e.rx) /\ Follows(e.name, "tx", e.tx)
    BY <1>3, <2>1 DEF IndInv, ReadingsFollow
  <2>3. ASSUME NEW a \in sample'[1], NEW b \in sample'[2], a.name = b.name, a.name \in kept
        PROVE  a.rx.at <= b.rx.at /\ a.tx.at <= b.tx.at
    <3>1. CASE a \in sample[1] /\ b \in sample[2]
      BY <2>3, <3>1 DEF IndInv, ReadingsFollow
    <3>2. CASE ~(a \in sample[1] /\ b \in sample[2])
      <4>1. round = 2 /\ b = new /\ a \in sample[1]
        BY <1>3, <3>2 DEF IndInv, Stages
      <4>2. Name[This] \in kept /\ a.name = Name[This]
        BY <1>2, <2>3, <4>1
      <4>3. a.rx.at <= rx.at
        BY <4>1, <4>2 DEF IndInv, ReadingsFollow
      <4>4. a.tx.at <= r.at
        BY <1>1, <2>3, <4>1, <4>2 DEF IndInv, ReadingsFollow, Follows
      <4>. QED BY <1>2, <4>1, <4>3, <4>4
    <3>. QED BY <3>1, <3>2
  <2>. QED BY <1>4, <2>2, <2>3 DEF ReadingsFollow, Follows
<1>8. HeldSampled'
  <2>1. \A i \in {1, 2} : \A e \in sample'[i] : e.name = Name[e.address]
    BY <1>2, <1>3 DEF IndInv, HeldSampled
  <2>2. ~failed => Sampling(round, todo)'
    BY <1>2, <1>3, <1>4 DEF IndInv, HeldSampled, Sampling, Read
  <2>3. ~failed /\ round = 2 => Sampling(1, {})'
    BY <1>3, <1>4 DEF IndInv, HeldSampled, Sampling
  <2>4. pc' = "open"
    BY DEF Read
  <2>. QED BY <1>4, <2>1, <2>2, <2>3, <2>4 DEF HeldSampled
<1>9. ListedLive' /\ RowsAreTraffic' /\ HeldIsReported' /\ DiesOnlyInTheGap'
  BY <1>4 DEF IndInv, ListedLive, RowsAreTraffic, HeldIsReported, DiesOnlyInTheGap, Read
<1>. QED BY <1>5, <1>6, <1>7, <1>8, <1>9 DEF IndInv

\* A reading keeps the invariant.
LEMMA ReadIndInv == IndInv /\ Read => IndInv'
<1>1. Read => \E r \in Readings :
        \/ file = "rx" /\ rx' = r /\ file' = "tx" /\ UNCHANGED <<todo, sample>>
        \/ /\ file = "tx" /\ file' = "rx" /\ rx' = rx /\ todo' = todo \ {This}
           /\ sample' = [sample EXCEPT ![round] =
                @ \cup {[address |-> This, name |-> Name[This], rx |-> rx, tx |-> r]}]
  BY DEF Read
<1>. QED BY <1>1, ReadRx, ReadTx

\* Whatever happens to devices and addresses, what was read of a device that is still
\* there follows its counters.
LEMMA KernelReadings ==
  ASSUME IndInv, UNCHANGED <<todo, file, rx, round, sample>>, kept' \subseteq kept,
         \A d \in kept' : \A f \in Directions :
           \/ counter'[d][f] = counter[d][f] /\ passed'[d][f] = passed[d][f]
           \/ \E n \in 1..Modulus - 1 :
                /\ passed'[d][f] = passed[d][f] + n
                /\ \/ counter'[d][f] = counter[d][f] + n
                   \/ counter'[d][f] = counter[d][f] + n - Modulus
  PROVE  ReadingsFollow'
<1>1. This' = This
  BY DEF This
<1>2. kept \subseteq Devices /\ {"rx", "tx"} \subseteq Directions /\ rx \in Reading
  BY DEF IndInv, TypeOK, Directions
<1>3. ASSUME NEW d \in kept', NEW f \in Directions, NEW r \in Reading, Follows(d, f, r)
      PROVE  /\ r.at <= passed'[d][f]
             /\ \E k \in Int : counter'[d][f] - r.value = passed'[d][f] - r.at + k * Modulus
  <2>1. d \in Devices /\ TypeOK
    BY <1>2 DEF IndInv
  <2>. QED BY <1>3, <2>1, StillFollows
<1>4. ASSUME NEW i \in {1, 2}, NEW e \in sample[i], e.name \in kept'
      PROVE  Follows(e.name, "rx", e.rx)' /\ Follows(e.name, "tx", e.tx)'
  <2>1. e.rx \in Reading /\ e.tx \in Reading
    BY DEF IndInv, TypeOK, Entry
  <2>2. Follows(e.name, "rx", e.rx) /\ Follows(e.name, "tx", e.tx)
    BY <1>4 DEF IndInv, ReadingsFollow
  <2>. QED BY <1>2, <1>3, <1>4, <2>1, <2>2 DEF Follows
<1>5. ASSUME file = "tx", Name[This] \in kept'
      PROVE  Follows(Name[This], "rx", rx)'
  <2>1. Follows(Name[This], "rx", rx)
    BY <1>5 DEF IndInv, ReadingsFollow
  <2>. QED BY <1>1, <1>2, <1>3, <1>5, <2>1 DEF Follows
<1>6. \A a \in sample[1], b \in sample[2] : a.name = b.name /\ a.name \in kept' =>
        a.rx.at <= b.rx.at /\ a.tx.at <= b.tx.at
  BY DEF IndInv, ReadingsFollow
<1>7. file = "tx" /\ Name[This] \in kept' /\ round = 2 =>
        \A a \in sample[1] : a.name = Name[This] => a.rx.at <= rx.at
  BY DEF IndInv, ReadingsFollow
<1>. QED BY <1>1, <1>4, <1>5, <1>6, <1>7 DEF ReadingsFollow

\* The parts of the invariant about the call alone.
LEMMA KernelRest ==
  ASSUME IndInv, UNCHANGED <<pc, todo, file, round, sample, rows, failed, lacking>>,
         kept' \subseteq kept, held' \subseteq held, gone \subseteq gone',
         Name[This] \in kept' /\ fresh => fresh'
  PROVE  Stages' /\ HeldSampled' /\ RowsAreTraffic' /\ HeldIsReported' /\ DiesOnlyInTheGap'
<1>1. This' = This
  BY DEF This
<1>2. Stages'
  BY <1>1 DEF IndInv, Stages
<1>3. HeldSampled'
  <2>1. \A i, rest : Sampling(i, rest) => Sampling(i, rest)'
    BY DEF Sampling
  <2>. QED BY <2>1 DEF IndInv, HeldSampled
<1>4. RowsAreTraffic' /\ HeldIsReported' /\ DiesOnlyInTheGap'
  BY <1>1 DEF IndInv, RowsAreTraffic, HeldIsReported, DiesOnlyInTheGap
<1>. QED BY <1>2, <1>3, <1>4

\* Traffic keeps the invariant.
LEMMA TrafficIndInv ==
  ASSUME IndInv, NEW d \in Devices, NEW f \in Directions, NEW n \in 1..Modulus - 1,
         Traffic(d, f, n)
  PROVE  IndInv'
<1>1. /\ counter[d][f] \in 0..Modulus - 1 /\ passed[d][f] \in Nat
      /\ \A x \in Devices : \A g \in Directions :
           counter[x][g] \in 0..Modulus - 1 /\ passed[x][g] \in Nat
      /\ Modulus \in Nat
  BY NetworkAssumption DEF IndInv, TypeOK
<1>2. \A x \in Devices : \A g \in Directions :
        /\ passed'[x][g] = IF x = d /\ g = f THEN passed[x][g] + n ELSE passed[x][g]
        /\ counter'[x][g] =
             IF x = d /\ g = f
             THEN IF counter[x][g] + n < Modulus THEN counter[x][g] + n
                  ELSE counter[x][g] + n - Modulus
             ELSE counter[x][g]
  BY DEF IndInv, TypeOK, Traffic
<1>3. TypeOK'
  <2>1. passed' \in [Devices -> [Directions -> Nat]]
    BY <1>1 DEF IndInv, TypeOK, Traffic
  <2>2. counter' \in [Devices -> [Directions -> 0..Modulus - 1]]
    BY <1>1 DEF IndInv, TypeOK, Traffic
  <2>3. events' \in 0..MaxEvents
    BY NetworkAssumption DEF IndInv, TypeOK, Traffic, Happens
  <2>. QED BY <2>1, <2>2, <2>3 DEF IndInv, TypeOK, Traffic
<1>4. ReadingsFollow'
  <2>1. kept' = kept /\ kept \subseteq Devices
    BY DEF IndInv, TypeOK, Traffic
  <2>. QED BY <1>2, <2>1, KernelReadings DEF Traffic
<1>5. ListedLive'
  BY DEF IndInv, ListedLive, Traffic
<1>. QED BY <1>3, <1>4, <1>5, KernelRest DEF IndInv, Traffic

\* A device that comes has been nobody's.
LEMMA AddIndInv ==
  ASSUME IndInv, NEW d \in Devices, Add(d)
  PROVE  IndInv'
<1>1. TypeOK'
  <2>1. [f \in Directions |-> 0] \in [Directions -> 0..Modulus - 1]
    BY NetworkAssumption
  <2>2. counter' \in [Devices -> [Directions -> 0..Modulus - 1]]
    BY <2>1 DEF IndInv, TypeOK, Add
  <2>3. events' \in 0..MaxEvents
    BY NetworkAssumption DEF IndInv, TypeOK, Add, Happens
  <2>. QED BY <2>2, <2>3 DEF IndInv, TypeOK, Add, past
<1>2. ReadingsFollow'
  <2>1. \A x \in kept : x # d /\ x \in Devices
    BY DEF IndInv, TypeOK, Add
  <2>2. \A x \in kept : counter'[x] = counter[x] /\ passed'[x] = passed[x]
    BY <2>1 DEF IndInv, TypeOK, Add, past
  <2>. QED BY <2>2, KernelReadings DEF Add, past
<1>3. ListedLive'
  BY DEF IndInv, ListedLive, Add
<1>. QED BY <1>1, <1>2, <1>3, KernelRest DEF IndInv, Add, past

\* A device that goes has been there when it was listed.
LEMMA RemoveIndInv ==
  ASSUME IndInv, NEW d \in Devices, Remove(d)
  PROVE  IndInv'
<1>1. TypeOK'
  <2>1. events' \in 0..MaxEvents
    BY NetworkAssumption DEF IndInv, TypeOK, Remove, Happens
  <2>. QED BY <2>1 DEF IndInv, TypeOK, Remove
<1>2. ReadingsFollow'
  BY KernelReadings DEF Remove
<1>3. ListedLive'
  BY DEF IndInv, ListedLive, Remove
<1>4. Name[This] \in kept' /\ fresh => fresh'
  BY DEF Remove
<1>. QED BY <1>1, <1>2, <1>3, <1>4, KernelRest DEF IndInv, Remove

\* Addresses come and go with no effect on the counters.
LEMMA RenumberIndInv ==
  ASSUME IndInv, NEW a \in Addresses, Renumber(a)
  PROVE  IndInv'
<1>1. TypeOK'
  <2>1. events' \in 0..MaxEvents
    BY NetworkAssumption DEF IndInv, TypeOK, Renumber, Happens
  <2>. QED BY <2>1 DEF IndInv, TypeOK, Renumber
<1>2. ReadingsFollow'
  BY KernelReadings DEF Renumber
<1>3. ListedLive'
  BY DEF IndInv, ListedLive, Renumber
<1>. QED BY <1>1, <1>2, <1>3, KernelRest DEF IndInv, Renumber

\* The invariant holds always.
LEMMA SpecIndInv == Spec => []IndInv
<1>1. IndInv /\ UNCHANGED vars => IndInv'
  <2>. SUFFICES ASSUME IndInv, UNCHANGED vars PROVE IndInv'
    OBVIOUS
  <2>1. TypeOK' /\ ReadingsFollow'
    BY SameReadings DEF IndInv, TypeOK, vars, kernel, past
  <2>2. ListedLive' /\ Stages' /\ HeldSampled' /\ RowsAreTraffic' /\ HeldIsReported'
        /\ DiesOnlyInTheGap'
    BY KernelRest DEF IndInv, ListedLive, vars, kernel, past
  <2>. QED BY <2>1, <2>2 DEF IndInv
<1>2. IndInv /\ Call => IndInv'
  BY ListIndInv, OpenIndInv, ReadIndInv, SampledIndInv, MatchIndInv DEF Call
<1>3. IndInv /\ Kernel => IndInv'
  BY TrafficIndInv, AddIndInv, RemoveIndInv, RenumberIndInv DEF Kernel
<1>4. IndInv /\ [Next]_vars => IndInv'
  BY <1>1, <1>2, <1>3 DEF Next
<1>. QED BY <1>4, InitIndInv, PTL DEF Spec

\* The variables keep their ranges.
THEOREM TypeCorrect == Spec => []TypeOK
BY SpecIndInv, PTL DEF IndInv

\* For counters of any width, any unit, and whatever comes and goes: the row of a device
\* that was there all the time is its traffic.
THEOREM RatesAreTraffic == Spec => []RowsAreTraffic
BY SpecIndInv, PTL DEF IndInv

\* No address that was configured all the time is missing.
THEOREM HeldReported == Spec => []HeldIsReported
BY SpecIndInv, PTL DEF IndInv

\* As long as there are descriptors and memory to open a file with, only a device that goes
\* between its listing and its reading, or a label, ends the process.
THEOREM DiesInTheGap == Spec => []DiesOnlyInTheGap
BY SpecIndInv, PTL DEF IndInv

-----------------------------------------------------------------------------
(* Sysinfo                                                                   *)

\* Megabytes: what an int holds is not changed.
LEMMA Megabytes ==
  ASSUME NEW d \in Nat, 2 * d < Megabyte * IntWidth
  PROVE  S!InMegabyte(d) = d \div Megabyte /\ S!Holds(S!InMegabyte(d), d)
<1>. DEFINE q == d \div Megabyte
<1>1. Megabyte \in Nat \ {0} /\ IntWidth \in Nat \ {0}
  BY CollectorsAssumption DEF S!SysInfoAssumption
<1>2. q \in Int /\ Megabyte * q <= d /\ d < Megabyte * q + Megabyte
  BY <1>1, DivMod
<1>. HIDE DEF q
<1>3. q >= 0
  <2>1. Megabyte * q > -Megabyte
    BY <1>1, <1>2
  <2>. QED BY <1>1, <1>2, <2>1, SmallMultiple
<1>4. 2 * q < IntWidth
  <2>1. ASSUME 2 * q >= IntWidth PROVE FALSE
    <3>1. Megabyte * (2 * q - IntWidth) >= 0
      BY <1>1, <1>2, <2>1
    <3>2. Megabyte * (2 * q - IntWidth) = 2 * (Megabyte * q) - Megabyte * IntWidth
      BY <1>1, <1>2
    <3>. QED BY <1>1, <1>2, <3>1, <3>2
  <2>. QED BY <1>1, <1>2, <2>1
<1>5. q % IntWidth = q
  BY <1>1, <1>2, <1>3, <1>4
<1>6. S!InMegabyte(d) = q
  BY <1>1, <1>2, <1>3, <1>4, <1>5 DEF S!InMegabyte, S!Quotient, S!Signed, q
<1>7. d - q * Megabyte \in 0..Megabyte - 1
  BY <1>1, <1>2
<1>. QED BY <1>6, <1>7 DEF S!Holds, q

\* The whole is its parts, to the megabyte that rounding takes.
LEMMA PartsAgree ==
  ASSUME NEW a \in Nat, NEW b \in Nat, NEW m \in Nat \ {0}
  PROVE  ((a + b) \div m) - ((a \div m) + (b \div m)) \in 0..1
<1>1. PICK p \in Int, q \in Int, r \in Int :
        /\ p = a \div m /\ q = b \div m /\ r = (a + b) \div m
        /\ m * p <= a /\ a < m * p + m
        /\ m * q <= b /\ b < m * q + m
        /\ m * r <= a + b /\ a + b < m * r + m
  <2>1. \A x \in Int : /\ x \div m \in Int
                       /\ m * (x \div m) <= x /\ x < m * (x \div m) + m
    BY DivMod
  <2>2. a \in Int /\ b \in Int /\ a + b \in Int
    OBVIOUS
  <2>. QED BY <2>1, <2>2, Zenon
<1>2. m * (r - (p + q)) = m * r - m * p - m * q
  OBVIOUS
<1>3. m * ((r - (p + q)) - 1) = m * r - m * p - m * q - m
  OBVIOUS
<1>4. m * (r - (p + q)) > -m /\ m * ((r - (p + q)) - 1) < m
  BY <1>1, <1>2, <1>3
<1>5. r - (p + q) >= 0 /\ (r - (p + q)) - 1 <= 0
  BY <1>4, SmallMultiple
<1>. QED BY <1>1, <1>5

\* The three figures of a resource, part of which is used.
LEMMA FiguresOf ==
  ASSUME NEW part \in Nat, NEW rest \in Nat, NEW whole \in Nat, NEW unit \in Nat \ {0},
         whole = part + rest, 2 * whole * unit < Megabyte * IntWidth
  PROVE  S!Agree(S!InMegabyte(part * unit), S!InMegabyte(rest * unit),
                 S!InMegabyte(whole * unit), S!Percent(part, whole), part, whole, unit)
<1>. DEFINE a == part * unit
            b == rest * unit
<1>1. a \in Nat /\ b \in Nat /\ whole * unit = a + b /\ 2 * (a + b) < Megabyte * IntWidth
  OBVIOUS
<1>. HIDE DEF a, b
<1>2. Megabyte \in Nat \ {0} /\ IntWidth \in Nat \ {0}
  BY CollectorsAssumption DEF S!SysInfoAssumption
<1>3. PICK w \in Int : w = Megabyte * IntWidth
  BY <1>2
<1>4. 2 * a < Megabyte * IntWidth /\ 2 * b < Megabyte * IntWidth
  BY <1>1, <1>3
<1>5. /\ S!InMegabyte(a) = a \div Megabyte /\ S!InMegabyte(b) = b \div Megabyte
      /\ S!InMegabyte(a + b) = (a + b) \div Megabyte
      /\ S!Holds(S!InMegabyte(a), a) /\ S!Holds(S!InMegabyte(a + b), a + b)
  BY <1>1, <1>4, Megabytes
<1>6. S!InMegabyte(a + b) - (S!InMegabyte(a) + S!InMegabyte(b)) \in 0..1
  BY <1>1, <1>2, <1>5, PartsAgree
<1>7. /\ whole > 0 => 10000 * part - S!Percent(part, whole) * whole \in 0..whole - 1
      /\ whole = 0 => S!Percent(part, whole) = S!NoNumber
  <2>1. CASE whole = 0
    BY <2>1 DEF S!Percent
  <2>2. CASE whole > 0
    <3>0. PICK x \in Int : x = 10000 * part
      OBVIOUS
    <3>. DEFINE q == x \div whole
    <3>1. q \in Int /\ x - whole * q \in 0..whole - 1
      <4>1. \A y \in Int, m \in Nat \ {0} :
              y \div m \in Int /\ y - m * (y \div m) \in 0..m - 1
        BY DivMod
      <4>2. whole \in Nat \ {0}
        BY <2>2
      <4>. QED BY <4>1, <4>2, Zenon
    <3>. HIDE DEF q
    <3>2. whole * q = q * whole
      BY <3>1
    <3>. QED BY <2>2, <3>0, <3>1, <3>2 DEF S!Percent, q
  <2>. QED BY <2>1, <2>2
<1>. QED BY <1>1, <1>5, <1>6, <1>7 DEF S!Agree, a, b

\* A step of sysinfo's callers.
LEMMA SysInfoStep == [S!Next]_S!vars /\ FiguresAgree => FiguresAgree'
<1>. SUFFICES ASSUME [S!Next]_S!vars, FiguresAgree PROVE FiguresAgree'
  OBVIOUS
<1>. USE DEF FiguresAgree
<1>1. CASE S!Memory
  <2>1. CASE answer' = S!Nothing
    BY <2>1 DEF S!FiguresAgree
  <2>2. ASSUME NEW m \in S!Memories, answer' = m, figures' = S!GetMemoryInfo(m), call' = "memory"
        PROVE  FiguresAgree'
    <3>1. /\ m.unit \in Nat \ {0} /\ m.total \in Nat /\ m.free \in Nat /\ m.free <= m.total
          /\ m.totalswap \in Nat /\ m.freeswap \in Nat /\ m.freeswap <= m.totalswap
          /\ m.unit * m.totalswap < Width \div 2
      BY CollectorsAssumption DEF S!SysInfoAssumption, S!Memories
    <3>2. ASSUME 2 * m.total * m.unit < Megabyte * IntWidth
          PROVE  S!Agree(figures'.used_mb, figures'.free_mb, figures'.total_mb,
                         figures'.used_percent, m.total - m.free, m.total, m.unit)
      <4>1. m.total - m.free \in Nat /\ m.total = (m.total - m.free) + m.free
        BY <3>1
      <4>2. S!Agree(S!InMegabyte((m.total - m.free) * m.unit), S!InMegabyte(m.free * m.unit),
                    S!InMegabyte(m.total * m.unit), S!Percent(m.total - m.free, m.total),
                    m.total - m.free, m.total, m.unit)
        BY <3>1, <3>2, <4>1, FiguresOf
      <4>. QED BY <2>2, <4>2 DEF S!GetMemoryInfo
    <3>3. ASSUME m.unit = 1, 2 * m.totalswap < Megabyte * IntWidth
          PROVE  S!Agree(figures'.swap_used_mb, figures'.swap_free_mb, figures'.swap_total_mb,
                         figures'.swap_used_percent, m.totalswap - m.freeswap, m.totalswap, 1)
      <4>1. PICK t \in Nat, f \in Nat : t = m.totalswap /\ f = m.freeswap /\ f <= t
        BY <3>1
      <4>2. t * 1 = t /\ t * 1 * 1 = t /\ f * 1 = f /\ (t - f) * 1 = t - f /\ 2 * t * 1 = 2 * t
        OBVIOUS
      <4>3. S!Signed(t, Width) = t
        <5>1. Width \in Nat \ {0}
          BY CollectorsAssumption DEF S!SysInfoAssumption
        <5>2. 2 * t < Width
          BY <3>1, <3>3, <4>1, <4>2, <5>1
        <5>3. t % Width = t
          BY <5>1, <5>2
        <5>. QED BY <5>2, <5>3 DEF S!Signed
      <4>4. t - f \in Nat /\ t = (t - f) + f
        BY <4>1
      <4>5. S!Agree(S!InMegabyte((t - f) * 1), S!InMegabyte(f * 1), S!InMegabyte(t * 1),
                    S!Percent(t - f, t), t - f, t, 1)
        <5>1. \A part, rest, whole \in Nat : \A unit \in Nat \ {0} :
                whole = part + rest /\ 2 * whole * unit < Megabyte * IntWidth =>
                  S!Agree(S!InMegabyte(part * unit), S!InMegabyte(rest * unit),
                          S!InMegabyte(whole * unit), S!Percent(part, whole), part, whole, unit)
          BY FiguresOf
        <5>2. 2 * t * 1 < Megabyte * IntWidth /\ 1 \in Nat \ {0}
          BY <3>3, <4>1, <4>2
        <5>. QED BY <4>1, <4>4, <5>1, <5>2, Zenon
      <4>6. /\ figures'.swap_used_mb = S!InMegabyte(t - f)
            /\ figures'.swap_total_mb = S!InMegabyte(t)
            /\ figures'.swap_free_mb = S!InMegabyte(f)
            /\ figures'.swap_used_percent = S!Percent(t - f, t)
        BY <2>2, <3>3, <4>1, <4>2, <4>3 DEF S!GetMemoryInfo
      <4>. QED BY <4>1, <4>2, <4>5, <4>6
    <3>4. ASSUME 2 * m.totalswap * m.unit < Megabyte * IntWidth
          PROVE  S!Holds(figures'.swap_used_mb, (m.totalswap - m.freeswap) * m.unit)
      <4>1. PICK bytes \in Nat, all \in Nat, most \in Int :
              /\ bytes = (m.totalswap - m.freeswap) * m.unit
              /\ all = m.totalswap * m.unit
              /\ most = Megabyte * IntWidth
        BY <3>1, CollectorsAssumption DEF S!SysInfoAssumption
      <4>2. all - bytes = m.freeswap * m.unit /\ m.freeswap * m.unit >= 0
        BY <3>1, <4>1
      <4>3. 2 * bytes < Megabyte * IntWidth
        <5>1. 2 * m.totalswap * m.unit = 2 * all
          BY <3>1, <4>1
        <5>. QED BY <3>4, <4>1, <4>2, <5>1
      <4>4. S!Holds(S!InMegabyte(bytes), bytes)
        BY <4>3, Megabytes
      <4>. QED BY <2>2, <4>1, <4>4 DEF S!GetMemoryInfo
    <3>5. m.unit = 1 => 2 * m.totalswap * m.unit = 2 * m.totalswap
      BY <3>1
    <3>. QED BY <2>2, <3>2, <3>3, <3>4, <3>5 DEF S!FiguresAgree
  <2>. QED BY <1>1, <2>1, <2>2 DEF S!Memory
<1>2. CASE S!Load
  BY <1>2 DEF S!Load, S!FiguresAgree
<1>3. CASE S!Uptime
  <2>1. CASE answer' = S!Nothing
    BY <2>1 DEF S!FiguresAgree
  <2>2. CASE \E seconds \in Uptimes : answer' = [uptime |-> seconds] /\ figures' = S!Parts(seconds)
    <3>1. PICK n \in Uptimes : answer' = [uptime |-> n] /\ figures' = S!Parts(n)
      BY <2>2
    <3>2. n \in Nat
      BY CollectorsAssumption DEF S!SysInfoAssumption
    <3>. DEFINE day == n \div 86400
                rest == n - 86400 * day
                hour == n \div 3600
                left == n - 3600 * hour
    <3>3. S!Quotient(n, 86400) = day /\ S!Quotient(n, 3600) = hour
      BY <3>2 DEF S!Quotient
    <3>4. rest \in Nat /\ left \in Nat
      BY <3>2
    <3>5. S!Quotient(rest, 3600) = rest \div 3600 /\ S!Quotient(left, 60) = left \div 60
      BY <3>4 DEF S!Quotient
    <3>6. figures' = [days |-> day, hours |-> rest \div 3600, minutes |-> left \div 60]
      BY <3>1, <3>3, <3>5 DEF S!Parts
    <3>7. (day * 24 + (rest \div 3600)) * 60 + (left \div 60) = n \div 60
      BY <3>2
    <3>8. call' = "uptime"
      BY <1>3 DEF S!Uptime
    <3>. HIDE DEF day, rest, hour, left
    <3>. QED BY <3>1, <3>6, <3>7, <3>8 DEF S!FiguresAgree
  <2>. QED BY <1>3, <2>1, <2>2 DEF S!Uptime
<1>4. CASE UNCHANGED S!vars
  BY <1>4 DEF S!vars, S!FiguresAgree
<1>. QED BY <1>1, <1>2, <1>3, <1>4 DEF S!Next

\* The figures of a report agree with each other and with the machine, whenever sysinfo is
\* asked and whether or not it fails: those of a memory whose megabytes an int holds, the
\* used part of such a swap, and all of the swap's if the unit is a byte.  They do not for
\* the swap of a larger unit: its total is scaled twice and its free part never
\* (memory.cpp:36-40).
THEOREM FiguresOfOneReport == S!Spec => []FiguresAgree
<1>1. S!Init => FiguresAgree
  BY DEF S!Init, FiguresAgree, S!FiguresAgree
<1>. QED BY <1>1, SysInfoStep, PTL DEF S!Spec

-----------------------------------------------------------------------------
(* Disks                                                                     *)

\* A size in megabytes is not less than a part of it, and a megabyte more is one.
LEMMA DivGrows ==
  ASSUME NEW a \in Nat, NEW b \in Nat, NEW m \in Nat \ {0}, b <= a
  PROVE  /\ b \div m \in Nat /\ a \div m \in Nat
         /\ b \div m <= a \div m
         /\ a - b >= m => b \div m < a \div m
         /\ ((a \div m) - (b \div m)) * m - (a - b) \in 1 - m..m - 1
<1>. DEFINE p == a \div m
            q == b \div m
<1>1. /\ p \in Int /\ m * p <= a /\ a < m * p + m
      /\ q \in Int /\ m * q <= b /\ b < m * q + m
  <2>1. \A x \in Int : x \div m \in Int /\ m * (x \div m) <= x /\ x < m * (x \div m) + m
    BY DivMod
  <2>2. a \in Int /\ b \in Int
    OBVIOUS
  <2>. QED BY <2>1, <2>2, Zenon
<1>. HIDE DEF p, q
<1>2. m * (p - q) = m * p - m * q /\ (p - q) * m = m * p - m * q
  BY <1>1
<1>3. p >= 0 /\ q >= 0
  <2>1. m * p > -m /\ m * q > -m
    BY <1>1
  <2>. QED BY <1>1, <2>1, SmallMultiple
<1>4. p - q >= 0
  <2>1. m * (p - q) > -m
    BY <1>1, <1>2
  <2>. QED BY <1>1, <2>1, SmallMultiple
<1>5. ASSUME a - b >= m PROVE p - q > 0
  <2>1. m * (p - q) > 0
    BY <1>1, <1>2, <1>5
  <2>2. p - q # 0
    BY <1>1, <2>1
  <2>. QED BY <1>1, <1>4, <2>2
<1>6. (p - q) * m - (a - b) \in 1 - m..m - 1
  BY <1>1, <1>2
<1>. QED BY <1>1, <1>3, <1>4, <1>5, <1>6 DEF p, q

\* The invariant.  What has been measured of a device that stayed mounted is its size.
Measured == diskPc = "free" /\ steady => totalMb = Size[D!This] \div PerMB

\* A device is looked at that was found, and with its path known if it stayed mounted.
Looking ==
  /\ unseen \subseteq BlockDevices
  /\ diskPc \in {"mount", "total", "free"} => unseen # {}
  /\ steady => use[D!This] = "mounted" /\ mtpt /\ diskPc \in {"total", "free"}
  /\ diskPc \in {"total", "free"} /\ D!This \in laden => steady

\* A device mounted all the time with something on it is still to be looked at, or in the report.
Accounted ==
  /\ laden \subseteq D!Laden
  /\ diskPc \in {"next", "mount", "total", "free", "returned"} =>
       \A d \in laden : d \in unseen \/ \E r \in disks : r.dev = d /\ r.steady
  /\ diskPc = "returned" => unseen = {}

Filled == free \in [BlockDevices -> Nat] /\ \A d \in BlockDevices : free[d] <= Size[d]

DiskInv ==
  /\ diskPc \in {"probe", "next", "mount", "total", "free", "returned", "dead"}
  /\ steady \in BOOLEAN
  /\ Filled /\ Measured /\ Looking /\ Accounted /\ RowsAddUp

\* What is assumed of the disks.
LEMMA DiskConstants ==
  /\ PerMB \in Nat \ {0} /\ Width \in Nat \ {0}
  /\ \A d \in BlockDevices : Size[d] \in Nat
  /\ \A n \in Blocks : n \in Nat
BY CollectorsAssumption DEF D!DiskAssumption

\* Nothing has been measured yet.
LEMMA DiskInit == D!Init => DiskInv
<1>. SUFFICES ASSUME D!Init PROVE DiskInv
  OBVIOUS
<1>1. Filled
  BY DiskConstants DEF D!Init, D!Frees, Filled
<1>2. Measured /\ Looking /\ Accounted /\ RowsAddUp
  BY DEF D!Init, Measured, Looking, Accounted, RowsAddUp, D!RowsAddUp
<1>. QED BY <1>1, <1>2 DEF DiskInv, D!Init

\* The device whose turn it is, is one of those left.
LEMMA ThisLeft == unseen # {} => D!This \in unseen
BY DEF D!This

\* Finding the devices misses none that is mounted.
LEMMA ProbeInv == DiskInv /\ D!Probe => DiskInv'
<1>. SUFFICES ASSUME DiskInv, D!Probe PROVE DiskInv'
  OBVIOUS
<1>1. /\ diskPc = "probe" /\ diskPc' = "next" /\ ~steady
      /\ unseen' = {d \in BlockDevices : use[d] # "gone"}
      /\ UNCHANGED <<use, free, disks, steady, laden>>
  BY DEF D!Probe, DiskInv, Looking
<1>2. \A d \in laden : d \in unseen'
  BY <1>1 DEF DiskInv, Accounted, D!Laden
<1>3. D!Laden' = D!Laden
  BY <1>1 DEF D!Laden
<1>4. Filled' /\ Measured' /\ Looking' /\ Accounted'
  BY <1>1, <1>2, <1>3 DEF DiskInv, Filled, Measured, Looking, Accounted
<1>5. RowsAddUp'
  BY <1>1 DEF DiskInv, RowsAddUp, D!RowsAddUp
<1>. QED BY <1>1, <1>4, <1>5 DEF DiskInv

\* A device that adds no row is not one that was mounted all the time.
LEMMA SkipInv ==
  ASSUME DiskInv, D!This \notin laden, unseen # {},
         diskPc \in {"next", "mount"}, D!Skip, steady' = FALSE,
         UNCHANGED <<use, free, disks, laden>>
  PROVE  DiskInv'
<1>1. diskPc' = "next" /\ unseen' = unseen \ {D!This}
  BY DEF D!Skip
<1>2. \A d \in laden : d \in unseen' \/ \E r \in disks : r.dev = d /\ r.steady
  BY <1>1 DEF DiskInv, Accounted
<1>3. D!Laden' = D!Laden
  BY DEF D!Laden
<1>4. Filled' /\ Measured' /\ Looking' /\ Accounted'
  BY <1>1, <1>2, <1>3 DEF DiskInv, Filled, Measured, Looking, Accounted
<1>5. RowsAddUp'
  BY DEF DiskInv, RowsAddUp, D!RowsAddUp
<1>. QED BY <1>1, <1>4, <1>5 DEF DiskInv

\* Looking whether a device is still there, and for its path.
LEMMA FindInv == DiskInv /\ (D!Verify \/ D!MountPoint) => DiskInv'
<1>1. ASSUME DiskInv, D!Verify PROVE DiskInv'
  <2>1. ~steady /\ steady' = steady /\ unseen # {} /\ diskPc = "next"
        /\ UNCHANGED <<use, free, disks, laden>>
    BY <1>1 DEF D!Verify, DiskInv, Looking
  <2>2. CASE use[D!This] = "gone"
    <3>1. D!This \notin laden
      BY <1>1, <2>2 DEF DiskInv, Accounted, D!Laden
    <3>2. D!Skip
      BY <1>1, <2>2 DEF D!Verify
    <3>3. steady' = FALSE /\ diskPc \in {"next", "mount"}
      BY <1>1, <2>1 DEF DiskInv
    <3>. QED BY <1>1, <2>1, <3>1, <3>2, <3>3, SkipInv
  <2>3. CASE use[D!This] # "gone"
    <3>1. diskPc' = "mount" /\ unseen' = unseen
      BY <1>1, <2>3 DEF D!Verify
    <3>2. D!Laden' = D!Laden
      BY <2>1 DEF D!Laden
    <3>3. Filled' /\ Measured' /\ Looking' /\ Accounted'
      BY <1>1, <2>1, <3>1, <3>2 DEF DiskInv, Filled, Measured, Looking, Accounted
    <3>4. RowsAddUp'
      BY <1>1, <2>1 DEF DiskInv, RowsAddUp, D!RowsAddUp
    <3>. QED BY <2>1, <3>1, <3>3, <3>4, <1>1 DEF DiskInv
  <2>. QED BY <2>2, <2>3
<1>2. ASSUME DiskInv, D!MountPoint PROVE DiskInv'
  <2>1. /\ unseen # {} /\ diskPc = "mount" /\ ~steady
        /\ mtpt' = (use[D!This] = "mounted") /\ steady' = mtpt'
        /\ UNCHANGED <<use, free, disks, laden>>
    BY <1>2 DEF D!MountPoint, DiskInv, Looking
  <2>2. D!This \in laden => use[D!This] = "mounted"
    BY <1>2 DEF DiskInv, Accounted, D!Laden
  <2>3. CASE use[D!This] \notin {"mounted", "unknown"}
    <3>1. D!This \notin laden /\ steady' = FALSE
      BY <2>1, <2>2, <2>3
    <3>. QED BY <1>2, <2>1, <2>3, <3>1, SkipInv DEF D!MountPoint
  <2>4. CASE use[D!This] \in {"mounted", "unknown"}
    <3>1. diskPc' = "total" /\ unseen' = unseen
      BY <1>2, <2>4 DEF D!MountPoint
    <3>2. D!Laden' = D!Laden /\ D!This' = D!This
      BY <2>1, <3>1 DEF D!Laden, D!This
    <3>3. steady' \in BOOLEAN
      BY <2>1
    <3>4. Looking'
      BY <1>2, <2>1, <2>2, <3>1, <3>2 DEF DiskInv, Looking
    <3>5. Filled' /\ Measured' /\ Accounted'
      BY <1>2, <2>1, <3>1, <3>2 DEF DiskInv, Filled, Measured, Accounted
    <3>6. RowsAddUp'
      BY <1>2, <2>1 DEF DiskInv, RowsAddUp, D!RowsAddUp
    <3>. QED BY <3>1, <3>3, <3>4, <3>5, <3>6 DEF DiskInv
  <2>. QED BY <2>3, <2>4
<1>. QED BY <1>1, <1>2

\* The first measurement: of the device itself, if that stayed mounted.
LEMMA TotalInv == DiskInv /\ D!Total => DiskInv'
<1>. SUFFICES ASSUME DiskInv, D!Total PROVE DiskInv'
  OBVIOUS
<1>1. /\ diskPc = "total" /\ diskPc' = "free" /\ totalMb' = D!Statvfs.size \div PerMB
      /\ UNCHANGED <<use, free, unseen, mtpt, disks, steady, laden>>
  BY DEF D!Total
<1>2. D!Laden' = D!Laden /\ D!This' = D!This
  BY <1>1 DEF D!Laden, D!This
<1>3. Measured'
  BY <1>1, <1>2 DEF DiskInv, Measured, Looking, D!Statvfs
<1>4. Filled' /\ Looking' /\ Accounted'
  BY <1>1, <1>2 DEF DiskInv, Filled, Looking, Accounted
<1>5. RowsAddUp'
  BY <1>1 DEF DiskInv, RowsAddUp, D!RowsAddUp
<1>. QED BY <1>1, <1>3, <1>4, <1>5 DEF DiskInv

\* What the second measurement makes of a device that stayed mounted.
LEMMA RowOf ==
  ASSUME DiskInv, diskPc = "free", steady,
         NEW row, row = D!DevInfo(D!Statvfs.free \div PerMB)
  PROVE  /\ row.dev = D!This /\ row.steady = steady
         /\ row.used <= row.total
         /\ row.used * PerMB - (Size[row.dev] - row.left) \in 1 - PerMB..PerMB - 1
         /\ D!This \in laden => row.total > 0 /\ row.used > 0
<1>. DEFINE a == Size[D!This]
            b == free[D!This]
<1>1. a \in Nat /\ b \in Nat /\ b <= a /\ PerMB \in Nat \ {0}
  BY DiskConstants, ThisLeft DEF DiskInv, Looking, Filled
<1>2. D!Statvfs = [size |-> a, free |-> b]
  BY DEF DiskInv, Looking, D!Statvfs
<1>3. totalMb = a \div PerMB
  BY DEF DiskInv, Measured
<1>4. /\ row.dev = D!This /\ row.total = a \div PerMB /\ row.left = b /\ row.steady = steady
      /\ row.used = D!Minus(a \div PerMB, b \div PerMB)
  BY <1>2, <1>3 DEF D!DevInfo
<1>5. D!This \in laden => a - b >= PerMB
  BY DEF DiskInv, Accounted, D!Laden
<1>. HIDE DEF a, b
<1>6. /\ b \div PerMB \in Nat /\ a \div PerMB \in Nat
      /\ b \div PerMB <= a \div PerMB
      /\ a - b >= PerMB => b \div PerMB < a \div PerMB
      /\ ((a \div PerMB) - (b \div PerMB)) * PerMB - (a - b) \in 1 - PerMB..PerMB - 1
  BY <1>1, DivGrows, Zenon
<1>. DEFINE p == a \div PerMB
            q == b \div PerMB
<1>7. /\ q \in Nat /\ p \in Nat /\ q <= p /\ (a - b >= PerMB => q < p)
      /\ (p - q) * PerMB - (a - b) \in 1 - PerMB..PerMB - 1
  BY <1>6
<1>8. row.total = p /\ row.used = D!Minus(p, q)
  BY <1>4
<1>. HIDE DEF p, q
<1>9. row.used = p - q
  BY <1>7, <1>8 DEF D!Minus
<1>10. row.used <= row.total /\ (q < p => row.total > 0 /\ row.used > 0)
  BY <1>7, <1>8, <1>9
<1>11. Size[row.dev] = a
  BY <1>4 DEF a
<1>. QED BY <1>4, <1>5, <1>7, <1>9, <1>10, <1>11

\* The second measurement, and the row made of both.
LEMMA FreeInv == DiskInv /\ D!Free => DiskInv'
<1>. SUFFICES ASSUME DiskInv, D!Free PROVE DiskInv'
  OBVIOUS
<1>1. /\ diskPc = "free" /\ steady' = FALSE
      /\ UNCHANGED <<use, free, totalMb, laden>>
  BY DEF D!Free
<1>2. D!Laden' = D!Laden
  BY <1>1 DEF D!Laden
<1>3. Filled'
  BY <1>1 DEF DiskInv, Filled
<1>4. CASE diskPc' = "dead" /\ UNCHANGED <<unseen, disks>>
  <2>1. Measured' /\ Looking' /\ Accounted'
    BY <1>1, <1>2, <1>4 DEF DiskInv, Measured, Looking, Accounted
  <2>2. RowsAddUp'
    BY <1>4 DEF DiskInv, RowsAddUp, D!RowsAddUp
  <2>. QED BY <1>1, <1>3, <1>4, <2>1, <2>2 DEF DiskInv
<1>5. ASSUME NEW row, row = D!DevInfo(D!Statvfs.free \div PerMB),
             disks' = IF row.total > 0 /\ row.used > 0 THEN disks \cup {row} ELSE disks,
             diskPc' = "next", unseen' = unseen \ {D!This}
      PROVE  DiskInv'
  <2>0. row.dev = D!This /\ row.steady = steady
    BY <1>5 DEF D!DevInfo
  <2>1. RowsAddUp'
    <3>1. steady => /\ row.used <= row.total
                    /\ row.used * PerMB - (Size[row.dev] - row.left) \in 1 - PerMB..PerMB - 1
      BY <1>1, <1>5, RowOf
    <3>2. \A r \in disks' : r \in disks \/ r = row
      BY <1>5
    <3>. QED BY <2>0, <3>1, <3>2 DEF DiskInv, RowsAddUp, D!RowsAddUp
  <2>2. D!This \in laden => row \in disks' /\ row.steady
    <3>1. D!This \in laden => steady
      BY <1>1 DEF DiskInv, Looking
    <3>. QED BY <1>1, <1>5, <2>0, <3>1, RowOf
  <2>3. disks \subseteq disks'
    BY <1>5
  <2>4. Accounted'
    <3>1. \A d \in laden' : d \in unseen' \/ \E r \in disks' : r.dev = d /\ r.steady
      <4>1. \A d \in laden : d \in unseen \/ \E r \in disks : r.dev = d /\ r.steady
        BY <1>1 DEF DiskInv, Accounted
      <4>. QED BY <1>1, <1>5, <2>0, <2>2, <2>3, <4>1
    <3>2. laden' \subseteq D!Laden'
      BY <1>1, <1>2 DEF DiskInv, Accounted
    <3>. QED BY <1>5, <3>1, <3>2 DEF Accounted
  <2>5. Measured' /\ Looking'
    BY <1>1, <1>5 DEF DiskInv, Measured, Looking
  <2>. QED BY <1>1, <1>3, <1>5, <2>1, <2>4, <2>5 DEF DiskInv
<1>. QED BY <1>4, <1>5 DEF D!Free, D!Skip

\* All devices have been looked at.
LEMMA ReturnInv == DiskInv /\ D!Return => DiskInv'
<1>. SUFFICES ASSUME DiskInv, D!Return PROVE DiskInv'
  OBVIOUS
<1>1. /\ diskPc = "next" /\ unseen = {} /\ diskPc' = "returned" /\ ~steady
      /\ UNCHANGED <<use, free, unseen, disks, steady, laden>>
  BY DEF D!Return, DiskInv, Looking
<1>2. D!Laden' = D!Laden
  BY <1>1 DEF D!Laden
<1>3. Filled' /\ Measured' /\ Looking' /\ Accounted'
  BY <1>1, <1>2 DEF DiskInv, Filled, Measured, Looking, Accounted
<1>4. RowsAddUp'
  BY <1>1 DEF DiskInv, RowsAddUp, D!RowsAddUp
<1>. QED BY <1>1, <1>3, <1>4 DEF DiskInv

\* Devices come, go and fill.
LEMMA ChangeInv ==
  ASSUME NEW d \in BlockDevices, DiskInv, D!Change(d) \/ D!Write(d)
  PROVE  DiskInv'
<1>1. /\ UNCHANGED <<diskPc, unseen, mtpt, totalMb, disks>>
      /\ laden' = laden \cap D!Laden'
      /\ steady' \in BOOLEAN /\ (steady' <=> steady /\ use'[D!This] = "mounted")
  <2>1. CASE D!Change(d)
    BY <2>1 DEF D!Change, DiskInv
  <2>2. CASE D!Write(d)
    BY <2>2 DEF D!Write, DiskInv, Looking
  <2>. QED BY <2>1, <2>2
<1>2. Filled'
  BY DiskConstants DEF DiskInv, Filled, D!Change, D!Write
<1>3. D!This' = D!This
  BY <1>1 DEF D!This
<1>4. Looking'
  <2>1. \A e \in laden' : e \in laden /\ use'[e] = "mounted"
    BY <1>1 DEF D!Laden
  <2>. QED BY <1>1, <1>3, <2>1 DEF DiskInv, Looking
<1>5. Measured' /\ Accounted'
  BY <1>1, <1>3 DEF DiskInv, Measured, Accounted
<1>6. RowsAddUp'
  BY <1>1 DEF DiskInv, RowsAddUp, D!RowsAddUp
<1>. QED BY <1>1, <1>2, <1>4, <1>5, <1>6 DEF DiskInv

\* The invariant holds always.
LEMMA DiskAlways == D!Spec => []DiskInv
<1>1. DiskInv /\ UNCHANGED D!vars => DiskInv'
  <2>. SUFFICES ASSUME DiskInv, UNCHANGED D!vars PROVE DiskInv'
    OBVIOUS
  <2>1. UNCHANGED <<use, free, changes, diskPc, unseen, mtpt, totalMb, disks, steady, laden>>
    BY DEF D!vars
  <2>2. D!Laden' = D!Laden /\ D!This' = D!This
    BY <2>1 DEF D!Laden, D!This
  <2>3. Filled' /\ Measured' /\ Looking' /\ Accounted'
    BY <2>1, <2>2 DEF DiskInv, Filled, Measured, Looking, Accounted
  <2>4. RowsAddUp'
    BY <2>1 DEF DiskInv, RowsAddUp, D!RowsAddUp
  <2>. QED BY <2>1, <2>3, <2>4 DEF DiskInv
<1>2. DiskInv /\ [D!Next]_D!vars => DiskInv'
  BY <1>1, ProbeInv, FindInv, TotalInv, FreeInv, ReturnInv, ChangeInv DEF D!Next
<1>. QED BY <1>2, DiskInit, PTL DEF D!Spec

\* The rows add up, for devices of any size and whatever is mounted and written meanwhile.
THEOREM DisksAddUp == D!Spec => []RowsAddUp
BY DiskAlways, PTL DEF DiskInv

\* No device that stays mounted and in use is missing from the report.
THEOREM DisksReported == D!Spec => []LadenIsReported
<1>1. DiskInv => LadenIsReported
  BY DEF DiskInv, Accounted, LadenIsReported, D!LadenIsReported
<1>. QED BY <1>1, DiskAlways, PTL

-----------------------------------------------------------------------------
(* Processors                                                                *)

\* What is assumed of the counters.
LEMMA CpuConstants ==
  /\ Width \in Nat \ {0} /\ Ticked \subseteq 0..Width - 1
  /\ MaxTicks \in Nat /\ 2 * MaxTicks < Width
BY CollectorsAssumption DEF C!CpuAssumption

\* A number is another one but for wrapping.
Wrapped(a, b) == \E t \in Int : a = b + t * Width

\* Wrapped numbers may be added.
LEMMA WrappedPlus ==
  ASSUME NEW a \in Int, NEW b \in Int, NEW c \in Int, NEW d \in Int,
         Wrapped(a, b), Wrapped(c, d)
  PROVE  Wrapped(a + c, b + d)
<1>1. PICK t \in Int, u \in Int : a = b + t * Width /\ c = d + u * Width
  BY DEF Wrapped
<1>2. (t + u) * Width = t * Width + u * Width /\ t * Width \in Int /\ u * Width \in Int
  BY CpuConstants
<1>3. a + c = b + d + (t + u) * Width /\ t + u \in Int
  BY <1>1, <1>2
<1>. QED BY <1>3 DEF Wrapped

\* So may four of them.
LEMMA WrappedFour ==
  ASSUME NEW a \in Int, NEW b \in Int, NEW c \in Int, NEW d \in Int,
         NEW e \in Int, NEW f \in Int, NEW g \in Int, NEW h \in Int,
         Wrapped(a, e), Wrapped(b, f), Wrapped(c, g), Wrapped(d, h)
  PROVE  Wrapped(a + b + c + d, e + f + g + h)
<1>1. Wrapped(a + b, e + f) /\ Wrapped(c + d, g + h)
  BY WrappedPlus
<1>2. a + b \in Int /\ e + f \in Int /\ c + d \in Int /\ g + h \in Int
  OBVIOUS
<1>3. Wrapped((a + b) + (c + d), (e + f) + (g + h))
  BY <1>1, <1>2, WrappedPlus
<1>4. (a + b) + (c + d) = a + b + c + d /\ (e + f) + (g + h) = e + f + g + h
  OBVIOUS
<1>. QED BY <1>3, <1>4

\* The remainder is the number but for wrapping.
LEMMA WrappedMod ==
  ASSUME NEW a \in Int
  PROVE  a % Width \in 0..Width - 1 /\ Wrapped(a % Width, a)
<1>. DEFINE q == a \div Width
            r == a % Width
<1>1. q \in Int /\ r \in 0..Width - 1 /\ a = Width * q + r
  BY CpuConstants, DivMod
<1>. HIDE DEF q, r
<1>2. (-q) * Width = -(Width * q) /\ -q \in Int
  BY <1>1, CpuConstants
<1>3. r = a + (-q) * Width
  BY <1>1, <1>2, CpuConstants
<1>. QED BY <1>1, <1>2, <1>3 DEF Wrapped, r

\* The unsigned difference is what was added, if that is in range.
LEMMA PassedIs ==
  ASSUME NEW a \in Int, NEW b \in Int, NEW s \in 0..Width - 1, Wrapped(a, b + s)
  PROVE  C!Passed(a, b) = s
<1>. DEFINE q == (a - b) \div Width
            r == (a - b) % Width
<1>1. q \in Int /\ r \in 0..Width - 1 /\ a - b = Width * q + r
  <2>1. a - b \in Int
    OBVIOUS
  <2>. QED BY <2>1, CpuConstants, DivMod
<1>2. PICK t \in Int : a = b + s + t * Width
  BY DEF Wrapped
<1>. HIDE DEF q, r
<1>3. Width * (q - t) = Width * q - t * Width /\ q - t \in Int
  BY <1>1, <1>2, CpuConstants
<1>4. Width * (q - t) = s - r
  BY <1>1, <1>2, <1>3, CpuConstants
<1>5. q - t = 0
  <2>1. Width * (q - t) < Width /\ Width * (q - t) > -Width
    BY <1>1, <1>4, CpuConstants
  <2>. QED BY <1>3, <2>1, CpuConstants, SmallMultiple
<1>6. Width * (q - t) = 0
  BY <1>5, CpuConstants
<1>7. r = s
  BY <1>1, <1>4, <1>6
<1>. QED BY <1>7 DEF C!Passed, r

\* A share is the quotient, rounded down.
LEMMA ShareIs ==
  ASSUME NEW part \in Nat, NEW total \in Nat \ {0}
  PROVE  /\ C!Share(part, total) \in Int
         /\ C!Share(part, total) * total - 10000 * part \in 1 - total..0
         /\ part <= total => 0 <= C!Share(part, total) /\ C!Share(part, total) <= 10000
<1>0. PICK x \in Nat : x = 10000 * part
  OBVIOUS
<1>. DEFINE q == x \div total
<1>1. q \in Int /\ total * q <= x /\ x < total * q + total
  <2>1. \A y \in Int, m \in Nat \ {0} :
          y \div m \in Int /\ m * (y \div m) <= y /\ y < m * (y \div m) + m
    BY DivMod
  <2>2. x \in Int
    OBVIOUS
  <2>. QED BY <2>1, <2>2, Zenon
<1>. HIDE DEF q
<1>2. C!Share(part, total) = q
  BY <1>0 DEF C!Share, q
<1>3. q * total = total * q /\ total * q \in Int
  BY <1>1
<1>4. q * total - 10000 * part \in 1 - total..0
  BY <1>0, <1>1, <1>3
<1>5. q >= 0
  <2>1. total * q > -total
    BY <1>1
  <2>. QED BY <1>1, <2>1, SmallMultiple
<1>6. ASSUME part <= total PROVE q <= 10000
  <2>1. total * (q - 10000) = total * q - 10000 * total
    BY <1>1
  <2>2. total * (q - 10000) < total
    BY <1>0, <1>1, <1>3, <1>6, <2>1
  <2>3. q - 10000 \in Int
    BY <1>1
  <2>4. q - 10000 <= 0
    BY <2>2, <2>3, SmallMultiple
  <2>. QED BY <1>1, <2>4
<1>. QED BY <1>1, <1>2, <1>4, <1>5, <1>6

\* A part has no more than the whole.
LEMMA ShareInRange ==
  ASSUME NEW part \in Nat, NEW total \in Nat \ {0}, part <= total
  PROVE  0 <= C!Share(part, total) /\ C!Share(part, total) <= 10000
BY ShareIs

\* The invariant.  A counter holds what it held at the first sample and what was
\* counted since, but for wrapping.
Counted ==
  /\ e1 \in [C!CpuStat -> Int]
  /\ \A k \in C!CpuStat : Wrapped(stat[k], e1[k] + spent[k])

\* The time counted: a guest's also as user or nice time, and a tick twice at most.
Bounded ==
  /\ \A k \in C!CpuStat \ C!Idle : spent[k] >= 0
  /\ ~back => \A k \in C!Idle : spent[k] >= 0
  /\ spent["S_GUEST"] <= spent["S_USER"] /\ spent["S_GUEST_NICE"] <= spent["S_NICE"]
  /\ C!ActiveTime(spent) <= 2 * ticks
  /\ C!IdleTime(spent) <= ticks

CpuInv ==
  /\ cpuPc \in {"first", "second", "done", "dead"}
  /\ stat \in [C!CpuStat -> 0..Width - 1] /\ spent \in [C!CpuStat -> Int]
  /\ ticks \in 0..MaxTicks /\ back \in BOOLEAN
  /\ cpuPc = "second" => Counted /\ Bounded
  /\ SharesAddUp

\* The kinds of time, one by one.
LEMMA Kinds ==
  C!CpuStat = {"S_USER", "S_NICE", "S_SYSTEM", "S_STEAL", "S_IDLE", "S_IOWAIT", "S_IRQ",
             "S_SOFTIRQ", "S_GUEST", "S_GUEST_NICE"}
BY DEF C!CpuStat, C!Reported, C!Running, C!Idle, C!Hidden, C!Guest

\* The call begins.
LEMMA CpuInit == C!Init => CpuInv
<1>. SUFFICES ASSUME C!Init PROVE CpuInv
  OBVIOUS
<1>1. PICK b \in Ticked : stat = [k \in C!CpuStat |-> b]
  BY DEF C!Init
<1>2. b \in 0..Width - 1
  BY CpuConstants
<1>3. spent \in [C!CpuStat -> Int]
  BY DEF C!Init, C!Nothing
<1>4. stat \in [C!CpuStat -> 0..Width - 1]
  BY <1>1, <1>2
<1>5. cpuPc = "first" /\ ticks \in 0..MaxTicks /\ back \in BOOLEAN
  <2>1. cpuPc = "first" /\ ticks = 0 /\ back = FALSE
    BY DEF C!Init
  <2>2. 0 \in 0..MaxTicks
    BY CpuConstants
  <2>. QED BY <2>1, <2>2
<1>6. SharesAddUp
  BY <1>5 DEF SharesAddUp, C!SharesAddUp
<1>. QED BY <1>3, <1>4, <1>5, <1>6 DEF CpuInv

\* The first sample is what the counters hold.
LEMMA FirstInv == CpuInv /\ C!First => CpuInv'
<1>. SUFFICES ASSUME CpuInv, C!First PROVE CpuInv'
  OBVIOUS
<1>1. /\ cpuPc' \in {"second", "dead"}
      /\ cpuPc' = "second" => e1' = stat
      /\ spent' = [k \in C!CpuStat |-> 0] /\ back' = FALSE
      /\ UNCHANGED <<stat, ticks, shares>>
  BY DEF C!First, C!Nothing
<1>2. ASSUME cpuPc' = "second" PROVE Counted' /\ Bounded'
  <2>1. \A k \in C!CpuStat : stat[k] = stat[k] + 0 + 0 * Width /\ stat[k] \in Int
    BY CpuConstants DEF CpuInv
  <2>2. \A k \in C!CpuStat : spent'[k] = 0
    BY <1>1
  <2>3. Counted'
    <3>1. e1' \in [C!CpuStat -> Int]
      BY <1>1, <1>2, <2>1 DEF CpuInv
    <3>2. \A k \in C!CpuStat : stat'[k] = e1'[k] + spent'[k] + 0 * Width
      BY <1>1, <1>2, <2>1, <2>2
    <3>3. \A k \in C!CpuStat : Wrapped(stat'[k], e1'[k] + spent'[k])
      BY <3>2 DEF Wrapped
    <3>. QED BY <3>1, <3>3 DEF Counted
  <2>4. C!ActiveTime(spent') = 0 /\ C!IdleTime(spent') = 0
    BY <2>2, Kinds DEF C!ActiveTime, C!IdleTime
  <2>5. 0 <= ticks' /\ 0 <= 2 * ticks'
    <3>1. ticks \in Nat
      BY CpuConstants DEF CpuInv
    <3>. QED BY <1>1, <3>1
  <2>6. C!Idle \subseteq C!CpuStat
    BY Kinds DEF C!Idle
  <2>7. Bounded'
    <3>1. \A k \in C!CpuStat : spent'[k] >= 0
      BY <2>2
    <3>2. spent'["S_GUEST"] <= spent'["S_USER"] /\ spent'["S_GUEST_NICE"] <= spent'["S_NICE"]
      BY <2>2, Kinds
    <3>3. C!ActiveTime(spent') <= 2 * ticks' /\ C!IdleTime(spent') <= ticks'
      BY <2>4, <2>5
    <3>. QED BY <2>6, <3>1, <3>2, <3>3 DEF Bounded
  <2>. QED BY <2>3, <2>7
<1>3. SharesAddUp'
  BY <1>1 DEF SharesAddUp, C!SharesAddUp
<1>4. spent' \in [C!CpuStat -> Int]
  BY <1>1
<1>. QED BY <1>1, <1>2, <1>3, <1>4 DEF CpuInv

\* A tick goes to one kind of time, or to a guest's and the one it is part of.
LEMMA TickInv ==
  ASSUME CpuInv, NEW k \in C!CpuStat, C!Tick(k), cpuPc \in {"first", "second"}
  PROVE  CpuInv'
<1>. DEFINE kinds == {k} \cup {u \in {"S_USER"} : k = "S_GUEST"}
                         \cup {u \in {"S_NICE"} : k = "S_GUEST_NICE"}
            Inc(n) == IF n \in kinds THEN 1 ELSE 0
<1>1. /\ ticks < MaxTicks /\ ticks' = ticks + 1
      /\ UNCHANGED <<cpuPc, e1, shares, back>>
  BY DEF C!Tick
<1>2. ticks' \in 0..MaxTicks
  BY <1>1, CpuConstants DEF CpuInv
<1>3. /\ stat' = [n \in C!CpuStat |-> IF n \in kinds THEN (stat[n] + 1) % Width ELSE stat[n]]
      /\ spent' = [n \in C!CpuStat |-> IF n \in kinds THEN spent[n] + 1 ELSE spent[n]]
  BY DEF C!Tick
<1>4. ASSUME NEW n \in C!CpuStat
      PROVE  /\ stat[n] \in Int /\ spent[n] \in Int
             /\ stat'[n] \in 0..Width - 1 /\ Wrapped(stat'[n], stat[n] + Inc(n))
             /\ spent'[n] = spent[n] + Inc(n)
  <2>1. stat[n] \in 0..Width - 1 /\ stat[n] \in Int /\ spent[n] \in Int
    BY CpuConstants DEF CpuInv
  <2>2. CASE n \in kinds
    <3>1. stat'[n] = (stat[n] + 1) % Width /\ spent'[n] = spent[n] + 1
      BY <1>3, <2>2, Zenon
    <3>. QED BY <2>1, <2>2, <3>1, WrappedMod
  <2>3. CASE n \notin kinds
    <3>1. stat'[n] = stat[n] /\ spent'[n] = spent[n]
      BY <1>3, <2>3, Zenon
    <3>2. stat[n] = stat[n] + 0 + 0 * Width
      BY <2>1, CpuConstants
    <3>3. Wrapped(stat[n], stat[n] + 0)
      BY <3>2 DEF Wrapped
    <3>. QED BY <2>1, <2>3, <3>1, <3>3
  <2>. QED BY <2>2, <2>3
<1>5. stat' \in [C!CpuStat -> 0..Width - 1] /\ spent' \in [C!CpuStat -> Int]
  <2>1. \A n \in C!CpuStat : spent[n] + 1 \in Int /\ spent[n] \in Int
    BY DEF CpuInv
  <2>. QED BY <1>3, <1>4, <2>1
<1>6. ASSUME cpuPc = "second" PROVE Counted'
  <2>1. ASSUME NEW n \in C!CpuStat PROVE Wrapped(stat'[n], e1[n] + spent'[n])
    <3>1. e1[n] \in Int /\ Wrapped(stat[n], e1[n] + spent[n])
      BY <1>6 DEF CpuInv, Counted
    <3>2. PICK t \in Int, u \in Int :
            stat[n] = e1[n] + spent[n] + t * Width /\ stat'[n] = stat[n] + Inc(n) + u * Width
      BY <1>4, <3>1 DEF Wrapped
    <3>3. (t + u) * Width = t * Width + u * Width /\ t * Width \in Int /\ u * Width \in Int
      BY <3>2, CpuConstants
    <3>4. stat'[n] = e1[n] + spent'[n] + (t + u) * Width
      BY <1>4, <3>1, <3>2, <3>3
    <3>. QED BY <3>4 DEF Wrapped
  <2>. QED BY <1>1, <1>6, <2>1 DEF CpuInv, Counted
<1>7. ASSUME cpuPc = "second" PROVE Bounded'
  <2>1. \A n \in C!CpuStat : spent'[n] = spent[n] + Inc(n) /\ spent[n] \in Int
    BY <1>4
  <2>2. Bounded
    BY <1>7 DEF CpuInv
  <2>3. \A n \in C!CpuStat : Inc(n) \in {0, 1}
    OBVIOUS
  <2>4. ticks \in Int
    BY CpuConstants DEF CpuInv
  <2>. HIDE DEF Inc, kinds
  <2>5. Inc("S_GUEST") <= Inc("S_USER") /\ Inc("S_GUEST_NICE") <= Inc("S_NICE")
    BY Kinds DEF Inc, kinds
  <2>6. /\ Inc("S_USER") + Inc("S_NICE") + Inc("S_SYSTEM") + Inc("S_IRQ") + Inc("S_SOFTIRQ")
            + Inc("S_STEAL") + Inc("S_GUEST") + Inc("S_GUEST_NICE") <= 2
        /\ Inc("S_IDLE") + Inc("S_IOWAIT") <= 1
    BY Kinds DEF Inc, kinds
  <2>7. C!Idle \subseteq C!CpuStat
    BY Kinds DEF C!Idle
  <2>8. \A n \in C!CpuStat : spent[n] >= 0 => spent'[n] >= 0
    BY <2>1, <2>3
  <2>9. /\ C!ActiveTime(spent') <= 2 * ticks' /\ C!IdleTime(spent') <= ticks'
        /\ spent'["S_GUEST"] <= spent'["S_USER"] /\ spent'["S_GUEST_NICE"] <= spent'["S_NICE"]
    <3>1. \A n \in C!CpuStat : spent[n] \in Int /\ Inc(n) \in Int
      BY <1>1, <2>3 DEF CpuInv
    <3>2. /\ C!ActiveTime(spent) <= 2 * ticks /\ C!IdleTime(spent) <= ticks
          /\ spent["S_GUEST"] <= spent["S_USER"] /\ spent["S_GUEST_NICE"] <= spent["S_NICE"]
      BY <2>2 DEF Bounded
    <3>3. C!ActiveTime(spent') = C!ActiveTime(spent) +
            (Inc("S_USER") + Inc("S_NICE") + Inc("S_SYSTEM") + Inc("S_IRQ") + Inc("S_SOFTIRQ")
               + Inc("S_STEAL") + Inc("S_GUEST") + Inc("S_GUEST_NICE"))
      BY <2>1, <3>1, Kinds DEF C!ActiveTime
    <3>4. C!IdleTime(spent') = C!IdleTime(spent) + (Inc("S_IDLE") + Inc("S_IOWAIT"))
      BY <2>1, <3>1, Kinds DEF C!IdleTime
    <3>5. C!ActiveTime(spent) \in Int /\ C!IdleTime(spent) \in Int
      BY <3>1, Kinds DEF C!ActiveTime, C!IdleTime
    <3>6. ticks' = ticks + 1
      BY <1>1
    <3>7. C!ActiveTime(spent') <= 2 * ticks'
      BY <2>3, <2>4, <2>6, <3>2, <3>3, <3>5, <3>6, Kinds
    <3>8. C!IdleTime(spent') <= ticks'
      BY <2>3, <2>4, <2>6, <3>2, <3>4, <3>5, <3>6, Kinds
    <3>9. spent'["S_GUEST"] <= spent'["S_USER"] /\ spent'["S_GUEST_NICE"] <= spent'["S_NICE"]
      BY <2>1, <2>5, <3>1, <3>2, Kinds
    <3>. QED BY <3>7, <3>8, <3>9
  <2>. QED BY <1>1, <2>2, <2>7, <2>8, <2>9 DEF Bounded
<1>8. SharesAddUp'
  BY <1>1 DEF SharesAddUp, C!SharesAddUp
<1>. QED BY <1>1, <1>2, <1>5, <1>6, <1>7, <1>8 DEF CpuInv

\* Time taken back is taken from the idle kinds.
LEMMA TakeBackInv ==
  ASSUME CpuInv, NEW k \in C!Idle, C!TakeBack(k), cpuPc = "second"
  PROVE  CpuInv'
<1>1. /\ ticks < MaxTicks /\ ticks' = ticks + 1 /\ back' = TRUE
      /\ UNCHANGED <<cpuPc, e1, shares>>
      /\ stat' = [stat EXCEPT ![k] = (stat[k] - 1) % Width]
      /\ spent' = [spent EXCEPT ![k] = spent[k] - 1]
  BY DEF C!TakeBack
<1>2. ticks' \in 0..MaxTicks /\ ticks \in Int
  BY <1>1, CpuConstants DEF CpuInv
<1>3. k \in C!CpuStat /\ k \in {"S_IDLE", "S_IOWAIT"} /\ C!Idle \subseteq C!CpuStat
  BY Kinds DEF C!Idle
<1>4. stat[k] \in Int /\ spent[k] \in Int
  BY <1>3, CpuConstants DEF CpuInv
<1>5. (stat[k] - 1) % Width \in 0..Width - 1 /\ Wrapped((stat[k] - 1) % Width, stat[k] - 1)
  BY <1>4, WrappedMod
<1>6. stat' \in [C!CpuStat -> 0..Width - 1] /\ spent' \in [C!CpuStat -> Int]
  BY <1>1, <1>3, <1>4, <1>5 DEF CpuInv
<1>7. Counted'
  <2>1. ASSUME NEW n \in C!CpuStat PROVE Wrapped(stat'[n], e1[n] + spent'[n])
    <3>1. e1[n] \in Int /\ Wrapped(stat[n], e1[n] + spent[n])
      BY DEF CpuInv, Counted
    <3>2. CASE n # k
      <4>1. stat'[n] = stat[n] /\ spent'[n] = spent[n]
        BY <1>1, <3>2 DEF CpuInv
      <4>. QED BY <3>1, <4>1
    <3>3. CASE n = k
      <4>1. stat'[n] = (stat[n] - 1) % Width /\ spent'[n] = spent[n] - 1
        BY <1>1, <3>3 DEF CpuInv
      <4>2. PICK t \in Int, u \in Int :
              stat[n] = e1[n] + spent[n] + t * Width /\ stat'[n] = stat[n] - 1 + u * Width
        BY <1>5, <3>1, <3>3, <4>1 DEF Wrapped
      <4>3. (t + u) * Width = t * Width + u * Width /\ t * Width \in Int /\ u * Width \in Int
        BY <4>2, CpuConstants
      <4>4. stat'[n] = e1[n] + spent'[n] + (t + u) * Width
        BY <1>4, <3>1, <3>3, <4>1, <4>2, <4>3
      <4>. QED BY <4>4 DEF Wrapped
    <3>. QED BY <3>2, <3>3
  <2>. QED BY <1>1, <2>1 DEF CpuInv, Counted
<1>8. Bounded'
  <2>1. \A n \in C!CpuStat : spent[n] \in Int
    BY DEF CpuInv
  <2>2. \A n \in C!CpuStat \ C!Idle : spent'[n] = spent[n]
    BY <1>1 DEF CpuInv
  <2>3. Bounded
    BY DEF CpuInv
  <2>4. spent'["S_IDLE"] + spent'["S_IOWAIT"] = spent["S_IDLE"] + spent["S_IOWAIT"] - 1
    <3>1. CASE k = "S_IDLE"
      <4>1. spent'["S_IDLE"] = spent["S_IDLE"] - 1 /\ spent'["S_IOWAIT"] = spent["S_IOWAIT"]
        BY <1>1, <3>1, Kinds DEF CpuInv
      <4>. QED BY <2>1, <4>1, Kinds
    <3>2. CASE k = "S_IOWAIT"
      <4>1. spent'["S_IOWAIT"] = spent["S_IOWAIT"] - 1 /\ spent'["S_IDLE"] = spent["S_IDLE"]
        BY <1>1, <3>2, Kinds DEF CpuInv
      <4>. QED BY <2>1, <4>1, Kinds
    <3>. QED BY <1>3, <3>1, <3>2
  <2>5. C!ActiveTime(spent') = C!ActiveTime(spent)
    BY <2>2, Kinds DEF C!ActiveTime, C!Idle
  <2>6. C!ActiveTime(spent) \in Int
    BY <2>1, Kinds DEF C!ActiveTime
  <2>7. C!ActiveTime(spent') <= 2 * ticks' /\ C!IdleTime(spent') <= ticks'
    BY <1>1, <1>2, <2>1, <2>3, <2>4, <2>5, <2>6, Kinds DEF Bounded, C!IdleTime
  <2>8. spent'["S_GUEST"] <= spent'["S_USER"] /\ spent'["S_GUEST_NICE"] <= spent'["S_NICE"]
    BY <2>2, <2>3, Kinds DEF Bounded, C!Idle
  <2>. QED BY <1>1, <2>2, <2>3, <2>7, <2>8 DEF Bounded
<1>9. SharesAddUp'
  BY <1>1 DEF SharesAddUp, C!SharesAddUp
<1>. QED BY <1>1, <1>2, <1>6, <1>7, <1>8, <1>9 DEF CpuInv

\* What passed between the samples is what was counted.
LEMMA SecondSample ==
  ASSUME CpuInv, cpuPc = "second"
  PROVE  /\ C!Passed(C!ActiveTime(stat), C!ActiveTime(e1)) = C!ActiveTime(spent)
         /\ C!IdleTime(spent) >= 0 =>
              C!Passed(C!IdleTime(stat), C!IdleTime(e1)) = C!IdleTime(spent)
         /\ \A k \in C!CpuStat : (~back \/ k \notin C!Idle) =>
              C!Passed(stat[k], e1[k]) = spent[k]
<1>1. Counted /\ Bounded /\ Width \in Nat \ {0} /\ ticks \in Nat /\ 2 * ticks < Width
  BY CpuConstants DEF CpuInv
<1>2. \A k \in C!CpuStat :
        /\ stat[k] \in Int /\ e1[k] \in Int /\ spent[k] \in Int /\ e1[k] + spent[k] \in Int
        /\ Wrapped(stat[k], e1[k] + spent[k])
  BY CpuConstants DEF CpuInv, Counted
<1>3. Wrapped(C!ActiveTime(stat), C!ActiveTime(e1) + C!ActiveTime(spent))
  <2>. DEFINE a == stat
              b == [k \in C!CpuStat |-> e1[k] + spent[k]]
  <2>1. \A k \in C!CpuStat : a[k] \in Int /\ b[k] \in Int /\ Wrapped(a[k], b[k])
    BY <1>2
  <2>. HIDE DEF a, b
  <2>2. Wrapped(a["S_USER"] + a["S_NICE"] + a["S_SYSTEM"] + a["S_IRQ"],
                b["S_USER"] + b["S_NICE"] + b["S_SYSTEM"] + b["S_IRQ"])
    <3>1. \A k \in {"S_USER", "S_NICE", "S_SYSTEM", "S_IRQ"} : k \in C!CpuStat
      BY Kinds
    <3>. QED BY <2>1, <3>1, WrappedFour, Zenon
  <2>3. Wrapped(a["S_SOFTIRQ"] + a["S_STEAL"] + a["S_GUEST"] + a["S_GUEST_NICE"],
                b["S_SOFTIRQ"] + b["S_STEAL"] + b["S_GUEST"] + b["S_GUEST_NICE"])
    <3>1. \A k \in {"S_SOFTIRQ", "S_STEAL", "S_GUEST", "S_GUEST_NICE"} : k \in C!CpuStat
      BY Kinds
    <3>. QED BY <2>1, <3>1, WrappedFour, Zenon
  <2>. DEFINE Front4(x) == x["S_USER"] + x["S_NICE"] + x["S_SYSTEM"] + x["S_IRQ"]
              Rear4(x) == x["S_SOFTIRQ"] + x["S_STEAL"] + x["S_GUEST"] + x["S_GUEST_NICE"]
  <2>4. Front4(a) \in Int /\ Front4(b) \in Int /\ Rear4(a) \in Int /\ Rear4(b) \in Int
    BY <2>1, Kinds
  <2>5. C!ActiveTime(a) = Front4(a) + Rear4(a)
    BY <2>1, Kinds DEF C!ActiveTime
  <2>6. C!ActiveTime(e1) + C!ActiveTime(spent) = Front4(b) + Rear4(b)
    <3>1. \A k \in C!CpuStat : b[k] = e1[k] + spent[k]
      BY DEF b
    <3>. QED BY <1>2, <3>1, Kinds DEF C!ActiveTime
  <2>7. Wrapped(Front4(a), Front4(b)) /\ Wrapped(Rear4(a), Rear4(b))
    BY <2>2, <2>3
  <2>. HIDE DEF Front4, Rear4
  <2>8. Wrapped(Front4(a) + Rear4(a), Front4(b) + Rear4(b))
    BY <2>4, <2>7, WrappedPlus
  <2>. QED BY <2>5, <2>6, <2>8 DEF a
<1>4. Wrapped(C!IdleTime(stat), C!IdleTime(e1) + C!IdleTime(spent))
  <2>1. Wrapped(stat["S_IDLE"] + stat["S_IOWAIT"],
                (e1["S_IDLE"] + spent["S_IDLE"]) + (e1["S_IOWAIT"] + spent["S_IOWAIT"]))
    BY <1>2, Kinds, WrappedPlus
  <2>2. (e1["S_IDLE"] + spent["S_IDLE"]) + (e1["S_IOWAIT"] + spent["S_IOWAIT"])
          = (e1["S_IDLE"] + e1["S_IOWAIT"]) + (spent["S_IDLE"] + spent["S_IOWAIT"])
    BY <1>2, Kinds
  <2>. QED BY <2>1, <2>2 DEF C!IdleTime
<1>5. \A e \in {stat, e1, spent} : C!ActiveTime(e) \in Int /\ C!IdleTime(e) \in Int
  BY <1>2, Kinds DEF C!ActiveTime, C!IdleTime
<1>6. \A k \in C!CpuStat \ C!Idle : spent[k] \in 0..C!ActiveTime(spent)
  <2>1. /\ "S_USER" \notin C!Idle /\ "S_NICE" \notin C!Idle /\ "S_SYSTEM" \notin C!Idle
        /\ "S_STEAL" \notin C!Idle /\ "S_IRQ" \notin C!Idle /\ "S_SOFTIRQ" \notin C!Idle
        /\ "S_GUEST" \notin C!Idle /\ "S_GUEST_NICE" \notin C!Idle
    BY DEF C!Idle
  <2>2. \A k \in C!CpuStat \ C!Idle :
          k \in {"S_USER", "S_NICE", "S_SYSTEM", "S_STEAL", "S_IRQ", "S_SOFTIRQ", "S_GUEST",
                 "S_GUEST_NICE"}
    BY Kinds DEF C!Idle
  <2>. QED BY <1>1, <1>2, <2>1, <2>2, Kinds DEF Bounded, C!ActiveTime
<1>7. ~back => \A k \in C!Idle : spent[k] \in 0..ticks
  BY <1>1, <1>2, Kinds DEF Bounded, C!Idle, C!IdleTime
<1>8. C!ActiveTime(spent) \in 0..Width - 1
  <2>1. "S_USER" \in C!CpuStat \ C!Idle
    BY Kinds DEF C!Idle
  <2>2. C!ActiveTime(spent) <= 2 * ticks
    BY <1>1 DEF Bounded
  <2>. QED BY <1>1, <1>5, <1>6, <2>1, <2>2
<1>9. C!IdleTime(spent) >= 0 => C!IdleTime(spent) \in 0..Width - 1
  BY <1>1, <1>5 DEF Bounded
<1>10. ASSUME NEW k \in C!CpuStat, ~back \/ k \notin C!Idle
       PROVE  C!Passed(stat[k], e1[k]) = spent[k]
  <2>1. spent[k] \in 0..Width - 1
    BY <1>1, <1>2, <1>5, <1>6, <1>7, <1>8, <1>10
  <2>. QED BY <1>2, <2>1, PassedIs
<1>. QED BY <1>3, <1>4, <1>5, <1>8, <1>9, <1>10, PassedIs

\* Six products.
LEMMA SixTimes ==
  ASSUME NEW t \in Nat, NEW a \in Int, NEW b \in Int, NEW c \in Int, NEW d \in Int,
         NEW e \in Int, NEW f \in Int
  PROVE  t * (a + b + c + d + e + f - 10000)
           = a * t + b * t + c * t + d * t + e * t + f * t - 10000 * t
OBVIOUS

\* A share of a time that has some of it counted twice is too small, by no more than that
\* and its rounding.
LEMMA TrueShare ==
  ASSUME NEW s \in Nat, NEW p \in Nat, NEW E \in Nat \ {0}, NEW G \in Nat, p <= E,
         s * (E + G) - 10000 * p \in 1 - (E + G)..0
  PROVE  /\ s * E <= 10000 * p
         /\ 10000 * p - s * E < E + 10000 * G
<1>1. s * (E + G) = s * E + s * G /\ s * E \in Nat /\ s * G \in Nat
  OBVIOUS
<1>2. s * E + s * G <= 10000 * p /\ 10000 * p < s * E + s * G + E + G
  BY <1>1
<1>3. s * G + G <= 10000 * G
  <2>1. CASE G = 0
    BY <2>1
  <2>2. CASE G > 0
    <3>1. (E + G) * (s - 10000) = s * (E + G) - 10000 * E - 10000 * G
      OBVIOUS
    <3>2. (E + G) * (s - 10000) < 0
      BY <1>1, <1>2, <2>2, <3>1
    <3>3. s - 10000 < 0
      <4>1. ASSUME s - 10000 >= 0 PROVE (E + G) * (s - 10000) >= 0
        BY <4>1
      <4>. QED BY <3>2, <4>1
    <3>4. s + 1 <= 10000
      BY <3>3
    <3>5. (s + 1) * G <= 10000 * G
      BY <3>4
    <3>. QED BY <3>5
  <2>. QED BY <2>1, <2>2
<1>. QED BY <1>1, <1>2, <1>3

\* What SharesAddUp says of one share, and that it holds of one rounded down from the time
\* with the guests' twice.
OneShare(s, p, elapsed, guests) ==
  IF elapsed = 0 THEN s = C!NoNumber
  ELSE /\ s * elapsed <= 10000 * p
       /\ 10000 * p - s * elapsed < elapsed + 10000 * guests

\* The result is right.
LEMMA SecondInv == CpuInv /\ C!Second => CpuInv'
<1>. SUFFICES ASSUME CpuInv, C!Second PROVE CpuInv'
  OBVIOUS
<1>1. /\ cpuPc = "second" /\ cpuPc' \in {"dead", "done"}
      /\ cpuPc' = "done" =>
           shares' = [k \in C!Reported |-> C!Share(C!Passed(stat[k], e1[k]), C!Total)]
      /\ UNCHANGED <<stat, ticks, e1, spent, back>>
  BY DEF C!Second
<1>2. ASSUME cpuPc' = "done" PROVE C!SharesAddUp'
  <2>. DEFINE A == C!ActiveTime(spent)
              I == C!IdleTime(spent)
              T == A + I
  <2>1. \A k \in C!CpuStat : spent[k] \in Int
    BY DEF CpuInv
  <2>2. Bounded
    BY <1>1 DEF CpuInv
  <2>3. A \in Int /\ I \in Int /\ C!GuestTime \in Int /\ C!Elapsed \in Int
        /\ C!Elapsed + C!GuestTime = T
    BY <2>1, Kinds DEF C!ActiveTime, C!IdleTime, C!GuestTime, C!Elapsed
  <2>4. I >= 0 => C!Total = T
    BY <1>1, SecondSample DEF C!Total
  <2>5. \A k \in C!Reported : ~back \/ k \notin C!Idle => shares'[k] = C!Share(spent[k], C!Total)
    <3>1. C!Reported \subseteq C!CpuStat
      BY DEF C!CpuStat
    <3>. QED BY <1>1, <1>2, <3>1, SecondSample
  <2>6. /\ spent["S_USER"] >= 0 /\ spent["S_NICE"] >= 0 /\ spent["S_SYSTEM"] >= 0
        /\ spent["S_STEAL"] >= 0 /\ spent["S_IRQ"] >= 0 /\ spent["S_SOFTIRQ"] >= 0
        /\ spent["S_GUEST"] >= 0 /\ spent["S_GUEST_NICE"] >= 0
        /\ ~back => spent["S_IDLE"] >= 0 /\ spent["S_IOWAIT"] >= 0
    BY <2>2, Kinds DEF Bounded, C!Idle
  <2>7. C!GuestTime >= 0
    BY <2>1, <2>6, Kinds DEF C!GuestTime
  <2>8. C!Running \subseteq C!Reported /\ C!Running \cap C!Idle = {}
        /\ C!Reported = {"S_USER", "S_NICE", "S_SYSTEM", "S_STEAL", "S_IDLE", "S_IOWAIT"}
        /\ C!Running = {"S_USER", "S_NICE", "S_SYSTEM", "S_STEAL"}
    BY DEF C!Reported, C!Running, C!Idle
  <2>14. I >= 0 /\ ~back => \A k \in C!Reported : spent[k] <= C!Elapsed
    BY <2>1, <2>2, <2>6, <2>8, Kinds
       DEF Bounded, C!GuestTime, C!Elapsed, C!ActiveTime, C!IdleTime
  <2>9. ASSUME I >= 0, C!Elapsed > 0, NEW k \in C!Running
        PROVE  0 <= shares'[k] /\ shares'[k] <= 10000
    <3>1. spent[k] \in Nat /\ T \in Nat \ {0} /\ spent[k] <= T
      BY <2>1, <2>3, <2>6, <2>7, <2>8, <2>9, Kinds DEF C!ActiveTime
    <3>2. shares'[k] = C!Share(spent[k], T)
      BY <2>4, <2>5, <2>8, <2>9
    <3>. HIDE DEF T
    <3>3. 0 <= C!Share(spent[k], T) /\ C!Share(spent[k], T) <= 10000
      BY <3>1, ShareInRange
    <3>. QED BY <3>2, <3>3
  <2>10. ASSUME ~back
         PROVE  /\ \A k \in C!Reported :
                     OneShare(shares'[k], spent[k], C!Elapsed, C!GuestTime)
                /\ C!AllShares' <= 10000
    <3>1. I >= 0 /\ C!Total = T
      BY <2>1, <2>4, <2>6, <2>10, Kinds DEF C!IdleTime
    <3>2. \A k \in C!Reported : spent[k] \in Nat /\ shares'[k] = C!Share(spent[k], T)
      BY <2>1, <2>5, <2>6, <2>8, <2>10, <3>1, Kinds
    <3>3. CASE C!Elapsed = 0
      <4>1. T = 0
        BY <2>1, <2>2, <2>6, <2>10, <3>3, Kinds
           DEF Bounded, C!GuestTime, C!Elapsed, C!ActiveTime, C!IdleTime
      <4>2. \A k \in C!Reported : shares'[k] = -1
        BY <3>2, <4>1 DEF C!Share, C!NoNumber
      <4>3. C!AllShares' <= 10000
        BY <2>8, <4>2 DEF C!AllShares
      <4>. QED BY <3>3, <4>2, <4>3 DEF OneShare, C!NoNumber
    <3>4. CASE C!Elapsed # 0
      <4>0. C!Elapsed >= 0
        BY <2>1, <2>2, <2>3, <2>6, <3>1, Kinds
           DEF Bounded, C!GuestTime, C!Elapsed, C!ActiveTime
      <4>1. T \in Nat \ {0}
        <5>. HIDE DEF T
        <5>. QED BY <2>3, <2>7, <3>4, <4>0
      <4>2. ASSUME NEW k \in C!Reported
            PROVE  shares'[k] \in Int /\ shares'[k] * T - 10000 * spent[k] \in 1 - T..0
        <5>. HIDE DEF T
        <5>. QED BY <3>2, <4>1, ShareIs
      <4>. DEFINE s == shares'
      <4>3. \A k \in C!Reported : s[k] * T \in Int /\ s[k] * T <= 10000 * spent[k]
        BY <2>3, <3>2, <4>1, <4>2
      <4>4. s["S_USER"] * T + s["S_NICE"] * T + s["S_SYSTEM"] * T + s["S_IDLE"] * T
              + s["S_STEAL"] * T + s["S_IOWAIT"] * T <= 10000 * T
        <5>1. spent["S_USER"] + spent["S_NICE"] + spent["S_SYSTEM"] + spent["S_IDLE"]
                + spent["S_STEAL"] + spent["S_IOWAIT"] <= T
          BY <2>1, <2>6, Kinds DEF C!ActiveTime, C!IdleTime
        <5>. HIDE DEF T, s
        <5>. QED BY <2>1, <2>8, <4>1, <4>3, <5>1, Kinds
      <4>. HIDE DEF T, s
      <4>. DEFINE a == s["S_USER"]
                  b == s["S_NICE"]
                  c == s["S_SYSTEM"]
                  d == s["S_IDLE"]
                  e == s["S_STEAL"]
                  f == s["S_IOWAIT"]
      <4>5. a \in Int /\ b \in Int /\ c \in Int /\ d \in Int /\ e \in Int /\ f \in Int
        BY <2>8, <4>2 DEF s
      <4>6. a * T + b * T + c * T + d * T + e * T + f * T <= 10000 * T
        BY <4>4
      <4>. HIDE DEF a, b, c, d, e, f
      <4>7. T * (a + b + c + d + e + f - 10000)
              = a * T + b * T + c * T + d * T + e * T + f * T - 10000 * T
        BY <4>1, <4>5, SixTimes
      <4>8. T * (a + b + c + d + e + f - 10000) < T
        <5>2. a * T \in Int /\ b * T \in Int /\ c * T \in Int /\ d * T \in Int /\ e * T \in Int
              /\ f * T \in Int /\ 10000 * T \in Int
          BY <4>1, <4>5
        <5>. QED BY <4>1, <4>7, <4>6, <5>2
      <4>9. a + b + c + d + e + f - 10000 <= 0
        BY <4>1, <4>5, <4>8, SmallMultiple
      <4>10. C!AllShares' <= 10000
        BY <4>5, <4>9 DEF C!AllShares, s, a, b, c, d, e, f
      <4>11. \A k \in C!Reported : shares'[k] >= 0
        <5>1. \A k \in C!Reported : spent[k] <= T
          <6>. HIDE DEF T
          <6>. QED BY <2>1, <2>3, <2>7, <2>8, <2>10, <2>14, <3>1, <4>0, Kinds
        <5>2. \A p \in Nat, t \in Nat \ {0} : p <= t => C!Share(p, t) >= 0
          BY ShareIs
        <5>. HIDE DEF T
        <5>. QED BY <3>2, <4>1, <5>1, <5>2
      <4>12. ASSUME NEW k \in C!Reported
             PROVE  OneShare(shares'[k], spent[k], C!Elapsed, C!GuestTime)
        <5>1. PICK E \in Nat \ {0}, G \in Nat : E = C!Elapsed /\ G = C!GuestTime /\ T = E + G
          BY <2>3, <2>7, <3>4, <4>0
        <5>2. PICK p \in Nat : p = spent[k] /\ p <= E
          BY <2>10, <2>14, <3>1, <3>2, <4>12, <5>1
        <5>3. PICK q \in Nat : q = shares'[k]
          BY <4>2, <4>12, <4>11
        <5>4. q * (E + G) - 10000 * p \in 1 - (E + G)..0
          <6>1. shares'[k] * T - 10000 * spent[k] \in 1 - T..0
            BY <4>2, <4>12
          <6>. HIDE DEF T
          <6>. QED BY <5>1, <5>2, <5>3, <6>1
        <5>5. q * E <= 10000 * p /\ 10000 * p - q * E < E + 10000 * G
          BY <5>2, <5>4, TrueShare
        <5>. QED BY <3>4, <5>1, <5>2, <5>3, <5>5 DEF OneShare
      <4>. QED BY <4>10, <4>12
    <3>. QED BY <3>3, <3>4
  <2>11. C!Elapsed' = C!Elapsed /\ C!GuestTime' = C!GuestTime /\ C!IdleTime(spent') = I
    BY <1>1 DEF C!Elapsed, C!GuestTime
  <2>12. ASSUME ~back'
         PROVE  /\ \A k \in C!Reported :
                     OneShare(shares'[k], spent'[k], C!Elapsed', C!GuestTime')
                /\ C!AllShares' <= 10000
    BY <1>1, <2>10, <2>11, <2>12
  <2>13. ASSUME C!IdleTime(spent') >= 0, C!Elapsed' > 0
         PROVE  \A k \in C!Running : 0 <= shares'[k] /\ shares'[k] <= 10000
    BY <2>9, <2>11, <2>13
  <2>. HIDE DEF T, A, I
  <2>. QED BY <2>12, <2>13 DEF C!SharesAddUp, OneShare
<1>3. SharesAddUp'
  <2>1. CASE cpuPc' = "done"
    BY <1>2, <2>1 DEF SharesAddUp
  <2>2. CASE cpuPc' # "done"
    BY <2>2 DEF SharesAddUp, C!SharesAddUp
  <2>. QED BY <2>1, <2>2
<1>. QED BY <1>1, <1>3 DEF CpuInv

LEMMA CpuStep == CpuInv /\ [C!Next]_C!vars => CpuInv'
<1>1. ASSUME CpuInv, C!Next PROVE CpuInv'
  BY <1>1, FirstInv, SecondInv, TickInv, TakeBackInv DEF C!Next
<1>2. ASSUME CpuInv, UNCHANGED C!vars PROVE CpuInv'
  <2>1. UNCHANGED <<stat, ticks, cpuPc, e1, shares, spent, back>>
    BY <1>2 DEF C!vars
  <2>2. SharesAddUp'
    <3>1. SharesAddUp
      BY <1>2 DEF CpuInv
    <3>2. CASE cpuPc' # "done"
      BY <3>2 DEF SharesAddUp, C!SharesAddUp
    <3>3. CASE cpuPc' = "done"
      <4>1. C!AllShares' = C!AllShares /\ C!Elapsed' = C!Elapsed /\ C!GuestTime' = C!GuestTime
            /\ C!IdleTime(spent') = C!IdleTime(spent)
        BY <2>1 DEF C!AllShares, C!Elapsed, C!GuestTime
      <4>2. ASSUME ~back', NEW k \in C!Reported
            PROVE  OneShare(shares'[k], spent'[k], C!Elapsed', C!GuestTime')
        BY <2>1, <3>1, <3>3, <4>1, <4>2 DEF SharesAddUp, C!SharesAddUp, OneShare
      <4>3. ~back' => C!AllShares' <= 10000
        BY <2>1, <3>1, <3>3, <4>1 DEF SharesAddUp, C!SharesAddUp
      <4>4. C!IdleTime(spent') >= 0 /\ C!Elapsed' > 0 =>
              \A k \in C!Running : 0 <= shares'[k] /\ shares'[k] <= 10000
        BY <2>1, <3>1, <3>3, <4>1 DEF SharesAddUp, C!SharesAddUp
      <4>. QED BY <4>2, <4>3, <4>4 DEF SharesAddUp, C!SharesAddUp, OneShare
    <3>. QED BY <3>2, <3>3
  <2>3. cpuPc = "second" => Counted' /\ Bounded'
    BY <1>2, <2>1 DEF CpuInv, Counted, Bounded
  <2>. QED BY <1>2, <2>1, <2>2, <2>3 DEF CpuInv
<1>. QED BY <1>1, <1>2

\* The shares add up, whatever the counters held, however they grow and wrap, and
\* whatever part of idle time the kernel takes back.
THEOREM SharesOfASecond == C!Spec => []SharesAddUp
<1>1. CpuInv => SharesAddUp
  BY DEF CpuInv
<1>. QED BY <1>1, CpuInit, CpuStep, PTL DEF C!Spec
=============================================================================
