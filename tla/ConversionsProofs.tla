-------------------------- MODULE ConversionsProofs --------------------------
(***************************************************************************)
(* Theorems about the conversions of text: Base64, for every text, every   *)
(* message and whatever the uninitialised octets hold; Signing, for any    *)
(* secrets and a hash of any length; DelSpaces, for strings of any length  *)
(* over any characters.                                                    *)
(***************************************************************************)
EXTENDS Conversions, SequenceTheorems, FiniteSetTheorems, TLAPS

-----------------------------------------------------------------------------
(* Base64.                                                                   *)

\* get_inverse gives a sextet or -1.
LEMMA InverseRange ==
  ASSUME NEW c \in Octet
  PROVE  get_inverse(c) \in Sextet \cup {-1}
BY DEF Octet, Sextet, get_inverse

\* get_inverse undoes get_alphabet.
LEMMA InverseAlphabet ==
  ASSUME NEW v \in Sextet
  PROVE  /\ get_alphabet(v) \in Octet \ {Pad}
         /\ get_inverse(get_alphabet(v)) = v
BY DEF Octet, Sextet, get_inverse, get_alphabet, Pad

\* Three octets of a group, each out of two neighbouring sextets.
LEMMA GroupOctets ==
  ASSUME NEW c \in [0..3 -> Octet]
  PROVE  /\ Group(c) \in Seq(Octet)
         /\ Len(Group(c)) = 3
         /\ c[0] \in Sextet /\ c[1] \in Sextet =>
              Group(c)[1] = ((64 * c[0] + c[1]) \div 16) % 256
         /\ c[1] \in Sextet /\ c[2] \in Sextet =>
              Group(c)[2] = ((64 * c[1] + c[2]) \div 4) % 256
         /\ c[2] \in Sextet /\ c[3] \in Sextet =>
              Group(c)[3] = (64 * c[2] + c[3]) % 256
<1>1. c[0] \in Octet /\ c[1] \in Octet /\ c[2] \in Octet /\ c[3] \in Octet
  OBVIOUS
<1>2. /\ (4 * c[0] + ((c[1] \div 16) % 4)) % 256 \in Octet
      /\ (16 * (c[1] % 16) + ((c[2] \div 4) % 16)) % 256 \in Octet
      /\ (64 * (c[2] % 4) + c[3]) % 256 \in Octet
  <2>1. ASSUME NEW x \in Int PROVE x % 256 \in Octet
    BY DEF Octet
  <2>2. ASSUME NEW x \in Int, NEW d \in {4, 16}
        PROVE  x \div d \in Int /\ x % d \in Int
    OBVIOUS
  <2>3. c[0] \in Int /\ c[1] \in Int /\ c[2] \in Int /\ c[3] \in Int
    BY <1>1 DEF Octet
  <2>4. /\ 4 * c[0] + ((c[1] \div 16) % 4) \in Int
        /\ 16 * (c[1] % 16) + ((c[2] \div 4) % 16) \in Int
        /\ 64 * (c[2] % 4) + c[3] \in Int
    BY <2>2, <2>3
  <2>. QED
    BY <2>1, <2>4
<1>3. Group(c) \in Seq(Octet) /\ Len(Group(c)) = 3
  BY <1>2 DEF Group
<1>4. c[0] \in Sextet /\ c[1] \in Sextet =>
        (4 * c[0] + ((c[1] \div 16) % 4)) % 256 = ((64 * c[0] + c[1]) \div 16) % 256
  BY <1>1 DEF Sextet
<1>5. c[1] \in Sextet /\ c[2] \in Sextet =>
        (16 * (c[1] % 16) + ((c[2] \div 4) % 16)) % 256
          = ((64 * c[1] + c[2]) \div 4) % 256
  BY <1>1 DEF Sextet
<1>6. c[2] \in Sextet /\ c[3] \in Sextet =>
        (64 * (c[2] % 4) + c[3]) % 256 = (64 * c[2] + c[3]) % 256
  BY <1>1 DEF Sextet
<1>. QED
  BY <1>3, <1>4, <1>5, <1>6 DEF Group

\* Where the octets of the stream lie in its sextets.
LEMMA OctetPlaces ==
  ASSUME NEW t, NEW q \in Nat
  PROVE  /\ OctetAt(t, 3 * q) = ((64 * SextetAt(t, 4 * q) + SextetAt(t, 4 * q + 1)) \div 16) % 256
         /\ OctetAt(t, 3 * q + 1) = ((64 * SextetAt(t, 4 * q + 1) + SextetAt(t, 4 * q + 2)) \div 4) % 256
         /\ OctetAt(t, 3 * q + 2) = ((64 * SextetAt(t, 4 * q + 2) + SextetAt(t, 4 * q + 3)) \div 1) % 256
<1>1. /\ (8 * (3 * q)) \div 6 = 4 * q /\ (8 * (3 * q)) % 6 = 0
      /\ (8 * (3 * q + 1)) \div 6 = 4 * q + 1 /\ (8 * (3 * q + 1)) % 6 = 2
      /\ (8 * (3 * q + 2)) \div 6 = 4 * q + 2 /\ (8 * (3 * q + 2)) % 6 = 4
  OBVIOUS
<1>2. (4 * q + 1) + 1 = 4 * q + 2 /\ (4 * q + 2) + 1 = 4 * q + 3
  OBVIOUS
<1>. QED
  BY <1>1, <1>2 DEF OctetAt

\* All of a group.
LEMMA SubSeqOfThree ==
  ASSUME NEW s \in Seq(Octet), Len(s) = 3
  PROVE  SubSeq(s, 1, 3) = s
OBVIOUS

\* Where the elements of a concatenation are.
LEMMA ConcatAt ==
  ASSUME NEW s \in Seq(Octet), NEW t \in Seq(Octet)
  PROVE  /\ \A k \in 1..Len(s) : (s \o t)[k] = s[k]
         /\ \A k \in 1..Len(t) : (s \o t)[Len(s) + k] = t[k]
OBVIOUS

\* Writing the first n octets of the group after 3 * q octets of the stream.
LEMMA Written ==
  ASSUME TypeOK, NEW q \in Nat, Len(dest) = 3 * q,
         NEW c \in [0..3 -> Octet], NEW n \in 0..3,
         \A k \in 0..n : n > 0 /\ k < 4 => c[k] \in Sextet /\ c[k] = SextetAt(text, 4 * q + k),
         \A k \in 1..Len(dest) : dest[k] = OctetAt(text, k - 1)
  PROVE  LET d == dest \o SubSeq(Group(c), 1, n)
         IN  /\ d \in Seq(Octet)
             /\ Len(d) = 3 * q + n
             /\ \A k \in 1..Len(d) : d[k] = OctetAt(text, k - 1)
<1>. DEFINE g == SubSeq(Group(c), 1, n)
            d == dest \o g
<1>1. dest \in Seq(Octet)
  BY DEF TypeOK
<1>2. /\ g \in Seq(Octet) /\ Len(g) = n
      /\ \A k \in 1..n : g[k] = Group(c)[k]
  BY GroupOctets
<1>3. d \in Seq(Octet) /\ Len(d) = 3 * q + n
  BY <1>1, <1>2
<1>4. /\ \A k \in 1..Len(dest) : d[k] = dest[k]
      /\ \A k \in 1..n : d[3 * q + k] = g[k]
  <2>1. d = dest \o g
    OBVIOUS
  <2>. HIDE DEF g
  <2>2. /\ \A k \in 1..Len(dest) : (dest \o g)[k] = dest[k]
        /\ \A k \in 1..Len(g) : (dest \o g)[Len(dest) + k] = g[k]
    BY <1>1, <1>2, ConcatAt
  <2>3. Len(dest) = 3 * q /\ Len(g) = n
    BY <1>2
  <2>. QED BY <2>1, <2>2, <2>3, Zenon
<1>5. ASSUME NEW k \in 1..n
      PROVE  g[k] = OctetAt(text, 3 * q + k - 1)
  <2>1. g[k] = Group(c)[k]
    BY <1>2
  <2>2. CASE k = 1
    <3>1. c[0] \in Sextet /\ c[1] \in Sextet /\ c[0] = SextetAt(text, 4 * q) /\ c[1] = SextetAt(text, 4 * q + 1)
      BY <2>2
    <3>2. Group(c)[1] = ((64 * c[0] + c[1]) \div 16) % 256
      BY <3>1, GroupOctets
    <3>3. Group(c)[1] = OctetAt(text, 3 * q)
      BY <3>1, <3>2, OctetPlaces
    <3>. QED BY <2>1, <2>2, <3>3
  <2>3. CASE k = 2
    <3>1. c[1] \in Sextet /\ c[2] \in Sextet /\ c[1] = SextetAt(text, 4 * q + 1) /\ c[2] = SextetAt(text, 4 * q + 2)
      BY <2>3
    <3>2. Group(c)[2] = ((64 * c[1] + c[2]) \div 4) % 256
      BY <3>1, GroupOctets
    <3>3. Group(c)[2] = OctetAt(text, 3 * q + 1)
      BY <3>1, <3>2, OctetPlaces
    <3>. QED BY <2>1, <2>3, <3>3
  <2>4. CASE k = 3
    <3>1. c[2] \in Sextet /\ c[3] \in Sextet /\ c[2] = SextetAt(text, 4 * q + 2) /\ c[3] = SextetAt(text, 4 * q + 3)
      BY <2>4
    <3>2. Group(c)[3] = (64 * c[2] + c[3]) % 256
      BY <3>1, GroupOctets
    <3>3. (64 * c[2] + c[3]) \div 1 = 64 * c[2] + c[3]
      <4>. HIDE <2>4
      <4>1. \A x, y \in Sextet : (64 * x + y) \div 1 = 64 * x + y
        BY DEF Sextet
      <4>. QED BY <4>1, <3>1
    <3>4. Group(c)[3] = OctetAt(text, 3 * q + 2)
      BY <3>1, <3>2, <3>3, OctetPlaces
    <3>. QED BY <2>1, <2>4, <3>4
  <2>. QED BY <2>2, <2>3, <2>4
<1>6. ASSUME NEW k \in 1..Len(d)
      PROVE  d[k] = OctetAt(text, k - 1)
  <2>1. CASE k <= 3 * q
    BY <1>4, <2>1
  <2>2. CASE k > 3 * q
    <3>1. PICK m \in 1..n : k = 3 * q + m
      <4>1. k - 3 * q \in 1..n /\ k = 3 * q + (k - 3 * q)
        BY <1>3, <2>2
      <4>. QED BY <4>1
    <3>. HIDE DEF d, g
    <3>2. d[k] = g[m]
      BY <1>4, <3>1
    <3>3. g[m] = OctetAt(text, 3 * q + m - 1)
      BY <1>5
    <3>4. 3 * q + m - 1 = k - 1
      BY <3>1
    <3>. QED BY <3>2, <3>3, <3>4
  <2>3. k <= 3 * q \/ k > 3 * q
    <3>1. Len(d) \in Nat
      BY <1>3
    <3>. HIDE DEF d
    <3>. QED BY <3>1
  <2>. HIDE DEF d
  <2>. QED BY <2>1, <2>2, <2>3
<1>. QED BY <1>3, <1>6

-----------------------------------------------------------------------------
(* The invariant.                                                           *)

\* Initially nothing has been read.
LEMMA InitIndInv == Init => IndInv
<1>. SUFFICES ASSUME Init PROVE IndInv
  OBVIOUS
<1>1. TypeOK
  <2>1. text \in Seq(Octet) /\ c4 \in [0..3 -> Octet]
    BY Base64Assumption DEF Init
  <2>2. dest \in Seq(Octet) /\ pc = "loop"
    BY DEF Init
  <2>3. read \in 0..Len(text) /\ i \in 0..3
    BY <2>1 DEF Init
  <2>. QED BY <2>1, <2>2, <2>3 DEF TypeOK
<1>2. Collected
  BY DEF Init, Collected
<1>. QED BY <1>1, <1>2 DEF IndInv

\* Reading a character keeps the invariant.
LEMMA TakeIndInv == IndInv /\ Take => IndInv'
<1>. SUFFICES ASSUME IndInv, Take PROVE IndInv'
  OBVIOUS
<1>. USE DEF IndInv
<1>. DEFINE v == get_inverse(text[read + 1])
            group == [c4 EXCEPT ![i] = v]
<1>1. /\ read \in Nat /\ i \in 0..3 /\ c4 \in [0..3 -> Octet] /\ dest \in Seq(Octet)
      /\ text \in Seq(Octet) /\ read < Len(text) /\ pc = "loop"
  BY DEF TypeOK, Take, Readable
<1>2. v \in Sextet /\ v = SextetAt(text, read)
  <2>1. text[read + 1] \in Octet
    BY <1>1
  <2>. QED BY <2>1, InverseRange DEF Take, Readable, SextetAt
<1>3. group \in [0..3 -> Octet] /\ group[i] = v /\ \A k \in 0..3 : k # i => group[k] = c4[k]
  <2>1. v \in Octet
    BY <1>2 DEF Sextet, Octet
  <2>. HIDE DEF v
  <2>. QED BY <1>1, <2>1
<1>4. c4' = group /\ read' = read + 1 /\ text' = text /\ pc' = pc
  BY DEF Take
<1>5. \A p \in 0..read' - 1 : SextetAt(text, p) \in Sextet
  BY <1>1, <1>2, <1>4 DEF Collected, SextetAt
<1>6. ASSUME NEW k \in 0..i
      PROVE  group[k] = SextetAt(text, read - i + k)
  <2>. HIDE DEF group, v
  <2>1. CASE k = i
    <3>1. read - i + k = read
      BY <1>1, <2>1
    <3>. QED BY <1>2, <1>3, <2>1, <3>1
  <2>2. CASE k # i
    <3>1. k \in 0..i - 1 /\ k \in 0..3
      BY <1>1, <2>2
    <3>2. c4[k] = SextetAt(text, read - i + k)
      BY <3>1 DEF Collected
    <3>. QED BY <1>3, <2>2, <3>1, <3>2
  <2>. QED BY <2>1, <2>2
<1>7. i = read % 4 /\ Len(dest) = 3 * (read \div 4)
  BY <1>1 DEF Collected
<1>9. CASE i = 3
  <2>. DEFINE q == read \div 4
  <2>1. q \in Nat /\ read = 4 * q + 3
    BY <1>1, <1>7, <1>9
  <2>2. \A k \in 0..3 : group[k] \in Sextet /\ group[k] = SextetAt(text, 4 * q + k)
    BY <1>5, <1>6, <1>9, <2>1, <1>4
  <2>3. dest' = dest \o SubSeq(Group(group), 1, 3)
    <3>1. SubSeq(Group(group), 1, 3) = Group(group)
      <4>. HIDE DEF group
      <4>1. Group(group) \in Seq(Octet) /\ Len(Group(group)) = 3
        BY <1>3, GroupOctets
      <4>. QED BY <4>1, SubSeqOfThree
    <3>2. dest' = dest \o Group(group)
      BY <1>9 DEF Take
    <3>. QED BY <3>1, <3>2
  <2>. HIDE DEF group
  <2>a. /\ \A k \in 0..3 : 3 > 0 /\ k < 4 => group[k] \in Sextet /\ group[k] = SextetAt(text, 4 * q + k)
        /\ \A k \in 1..Len(dest) : dest[k] = OctetAt(text, k - 1)
        /\ 3 \in 0..3 /\ TypeOK /\ Len(dest) = 3 * q
    BY <2>2, <1>7 DEF Collected
  <2>4. /\ dest' \in Seq(Octet)
        /\ Len(dest') = 3 * q + 3
        /\ \A k \in 1..Len(dest') : dest'[k] = OctetAt(text, k - 1)
    <3>. HIDE DEF q, IndInv
    <3>1. LET d == dest \o SubSeq(Group(group), 1, 3)
          IN  /\ d \in Seq(Octet)
              /\ Len(d) = 3 * q + 3
              /\ \A k \in 1..Len(d) : d[k] = OctetAt(text, k - 1)
      BY <1>3, <2>1, <2>a, Written
    <3>. QED BY <2>3, <3>1, Zenon
  <2>5. i' = 0 /\ read' % 4 = 0 /\ read' \div 4 = q + 1
    BY <1>1, <1>4, <1>9, <2>1 DEF Take
  <2>6. TypeOK'
    <3>. HIDE DEF q
    <3>1. text' \in Seq(Octet) /\ c4' \in [0..3 -> Octet] /\ dest' \in Seq(Octet)
      BY <1>1, <1>3, <1>4, <2>4
    <3>2. read' \in 0..Len(text') /\ i' \in 0..3 /\ pc' = "loop"
      BY <1>1, <1>4, <2>5
    <3>. QED BY <3>1, <3>2 DEF TypeOK
  <2>7. Collected'
    BY <1>1, <1>4, <1>5, <2>1, <2>4, <2>5 DEF Collected
  <2>. QED BY <2>6, <2>7
<1>10. CASE i # 3
  <2>1. i' = i + 1 /\ dest' = dest
    BY <1>10 DEF Take
  <2>2. i' = read' % 4 /\ read' \div 4 = read \div 4 /\ i' \in 0..3
    BY <1>1, <1>4, <1>7, <1>10, <2>1
  <2>3. TypeOK'
    BY <1>1, <1>3, <1>4, <2>1, <2>2 DEF TypeOK
  <2>. HIDE DEF group
  <2>4. \A k \in 0..i' - 1 : c4'[k] = SextetAt(text', read' - i' + k)
    <3>1. read' - i' = read - i /\ i' - 1 = i
      BY <1>1, <1>4, <2>1
    <3>. QED BY <1>4, <1>6, <3>1, Zenon
  <2>5. Collected'
    BY <1>1, <1>4, <1>5, <1>7, <2>1, <2>2, <2>4 DEF Collected
  <2>. QED BY <2>3, <2>5
<1>. QED BY <1>9, <1>10

\* Stopping keeps the invariant.
LEMMA StopIndInv == IndInv /\ Stop => IndInv'
<1>. SUFFICES ASSUME IndInv, Stop PROVE IndInv'
  OBVIOUS
<1>1. TypeOK'
  BY DEF IndInv, TypeOK, Stop
<1>2. Collected'
  BY DEF IndInv, Collected, Stop, Readable, OctetAt, SextetAt
<1>. QED BY <1>1, <1>2 DEF IndInv

\* Writing the unfinished group keeps the invariant: only octets that two read
\* characters determine are written.
LEMMA FlushIndInv == IndInv /\ Flush => IndInv'
<1>. SUFFICES ASSUME IndInv, Flush PROVE IndInv'
  OBVIOUS
<1>. USE DEF IndInv
<1>. DEFINE q == read \div 4
            n == IF i = 0 THEN 0 ELSE i - 1
<1>1. /\ read \in Nat /\ i \in 0..3 /\ c4 \in [0..3 -> Octet] /\ dest \in Seq(Octet)
      /\ i = read % 4 /\ Len(dest) = 3 * q /\ pc = "tail"
  BY DEF TypeOK, Flush, Collected
<1>2. q \in Nat /\ read = 4 * q + i /\ n \in 0..2
  BY <1>1
<1>3. \A k \in 0..i - 1 : c4[k] \in Sextet /\ c4[k] = SextetAt(text, 4 * q + k)
  BY <1>1, <1>2 DEF Collected
<1>4. \A k \in 0..n : n > 0 /\ k < 4 => c4[k] \in Sextet /\ c4[k] = SextetAt(text, 4 * q + k)
  BY <1>1, <1>3
<1>5. dest' = dest \o SubSeq(Group(c4), 1, n)
  <2>1. CASE i = 0
    <3>1. SubSeq(Group(c4), 1, n) = <<>>
      BY <1>1, <2>1, GroupOctets
    <3>2. dest' = dest /\ dest \o <<>> = dest
      BY <1>1, <2>1 DEF Flush
    <3>. QED BY <3>1, <3>2
  <2>2. CASE i # 0
    BY <2>2 DEF Flush
  <2>. QED BY <2>1, <2>2
<1>. HIDE DEF n
<1>6. /\ dest' \in Seq(Octet)
      /\ Len(dest') = 3 * q + n
      /\ \A k \in 1..Len(dest') : dest'[k] = OctetAt(text, k - 1)
  <2>1. /\ \A k \in 1..Len(dest) : dest[k] = OctetAt(text, k - 1)
        /\ n \in 0..3 /\ TypeOK
    BY <1>2 DEF Collected
  <2>. HIDE DEF q, IndInv
  <2>2. LET d == dest \o SubSeq(Group(c4), 1, n)
        IN  /\ d \in Seq(Octet)
            /\ Len(d) = 3 * q + n
            /\ \A k \in 1..Len(d) : d[k] = OctetAt(text, k - 1)
    BY <1>1, <1>2, <1>4, <2>1, Written
  <2>. QED BY <1>5, <2>2, Zenon
<1>7. Len(dest') = (6 * read) \div 8
  BY <1>1, <1>2, <1>6 DEF n
<1>8. text' = text /\ read' = read /\ i' = i /\ c4' = c4 /\ pc' = "done"
  BY DEF Flush
<1>9. TypeOK'
  BY <1>6, <1>8 DEF TypeOK
<1>11. Readable' <=> Readable
  BY <1>8 DEF Readable
<1>12. Collected'
  BY <1>1, <1>6, <1>7, <1>8, <1>11 DEF Collected
<1>. QED BY <1>9, <1>12

\* Every step keeps the invariant.
LEMMA StepIndInv == IndInv /\ [Next]_vars => IndInv'
<1>1. IndInv /\ UNCHANGED vars => IndInv'
  BY DEF IndInv, TypeOK, Collected, Readable, OctetAt, SextetAt, vars
<1>. QED BY <1>1, TakeIndInv, StopIndInv, FlushIndInv DEF Next

\* The invariant holds always.
LEMMA SpecIndInv == Spec => []IndInv
BY InitIndInv, StepIndInv, PTL DEF Spec

\* The variables keep their ranges; the index of the group stays inside it.
THEOREM TypeCorrect == Spec => []TypeOK
BY SpecIndInv, PTL DEF IndInv

\* decode never writes past the buffer base64_decode gives it.
THEOREM WritesBounded == Spec => []WritesInBounds
<1>1. IndInv => WritesInBounds
  <2>. SUFFICES ASSUME IndInv PROVE WritesInBounds
    OBVIOUS
  <2>. DEFINE n == Len(text)
  <2>1. n \in Nat /\ read \in 0..n
    BY DEF IndInv, TypeOK
  <2>2. Len(dest) = 3 * (read \div 4) \/ Len(dest) = (6 * read) \div 8
    BY DEF IndInv, Collected
  <2>. HIDE DEF n
  <2>3. 3 * (read \div 4) <= 3 * (n \div 4) + 2 /\ (6 * read) \div 8 <= 3 * (n \div 4) + 2
    BY <2>1
  <2>. QED BY <2>2, <2>3 DEF WritesInBounds, decoded_size, n
<1>. QED BY <1>1, SpecIndInv, PTL

\* What decode returns is the bit stream of the characters it read: nothing of
\* it depends on the uninitialised octets.
THEOREM StreamDecoded == Spec => []DecodesStream
<1>1. IndInv => DecodesStream
  BY DEF IndInv, Collected, DecodesStream
<1>. QED BY <1>1, SpecIndInv, PTL

-----------------------------------------------------------------------------
(* Decoding what was encoded.                                               *)

\* The sextets of the octets a, b and c, put together again.
LEMMA Reassembled ==
  ASSUME NEW a \in Octet, NEW b \in Octet, NEW c \in Octet
  PROVE  /\ a \div 4 \in Sextet
         /\ (16 * (a % 4)) + (b \div 16) \in Sextet
         /\ (4 * (b % 16)) + (c \div 64) \in Sextet
         /\ c % 64 \in Sextet
         /\ ((64 * (a \div 4) + ((16 * (a % 4)) + (b \div 16))) \div 16) % 256 = a
         /\ ((64 * ((16 * (a % 4)) + (b \div 16)) + ((4 * (b % 16)) + (c \div 64))) \div 4) % 256 = b
         /\ ((64 * ((4 * (b % 16)) + (c \div 64)) + (c % 64)) \div 1) % 256 = c
<1>1. a \div 4 \in Sextet /\ c % 64 \in Sextet
  BY DEF Octet, Sextet
<1>2. (16 * (a % 4)) + (b \div 16) \in Sextet
  BY DEF Octet, Sextet
<1>3. (4 * (b % 16)) + (c \div 64) \in Sextet
  BY DEF Octet, Sextet
<1>4. ((64 * (a \div 4) + ((16 * (a % 4)) + (b \div 16))) \div 16) % 256 = a
  BY DEF Octet
<1>5. ((64 * ((16 * (a % 4)) + (b \div 16)) + ((4 * (b % 16)) + (c \div 64))) \div 4) % 256 = b
  BY DEF Octet
<1>6. ((64 * ((4 * (b % 16)) + (c \div 64)) + (c % 64)) \div 1) % 256 = c
  BY DEF Octet
<1>. QED BY <1>1, <1>2, <1>3, <1>4, <1>5, <1>6, Zenon

\* An octet of a message, or the zero after its end.
LEMMA AtOctet ==
  ASSUME NEW m \in Seq(Octet), NEW p \in Nat
  PROVE  At(m, p) \in Octet
<1>1. CASE p < Len(m)
  <2>1. p + 1 \in 1..Len(m)
    BY <1>1
  <2>2. m[p + 1] \in Octet
    BY <2>1
  <2>. QED BY <1>1, <2>2 DEF At
<1>2. CASE ~(p < Len(m))
  <2>1. 0 \in Octet
    BY DEF Octet
  <2>. QED BY <1>2, <2>1 DEF At
<1>. QED BY <1>1, <1>2

\* How many characters of an encoding are not '='.
Significant(m) == (8 * Len(m) + 5) \div 6

\* The sextets of an encoding, group by group.
LEMMA EncodedGroup ==
  ASSUME NEW m \in Seq(Octet), NEW q \in Nat
  PROVE  LET t == Encode(m)
             a == At(m, 3 * q)
             b == At(m, 3 * q + 1)
             c == At(m, 3 * q + 2)
         IN  /\ 4 * q < Significant(m) =>
                  SextetAt(t, 4 * q) = a \div 4
             /\ 4 * q + 1 < Significant(m) =>
                  SextetAt(t, 4 * q + 1) = (16 * (a % 4)) + (b \div 16)
             /\ 4 * q + 2 < Significant(m) =>
                  SextetAt(t, 4 * q + 2) = (4 * (b % 16)) + (c \div 64)
             /\ 4 * q + 3 < Significant(m) =>
                  SextetAt(t, 4 * q + 3) = c % 64
             /\ 4 * q + 2 = Significant(m) => t[4 * q + 3] = Pad
             /\ 4 * q + 3 = Significant(m) => t[4 * q + 4] = Pad
<1>. DEFINE n == Len(m)
            t == Encode(m)
            a == At(m, 3 * q)
            b == At(m, 3 * q + 1)
            c == At(m, 3 * q + 2)
<1>1. n \in Nat /\ a \in Octet /\ b \in Octet /\ c \in Octet
  BY AtOctet
<1>2. \A k \in 1..4 * ((n + 2) \div 3) : t[k] = EncodedChar(m, k - 1)
  BY DEF Encode, encoded_size
<1>. HIDE DEF n, t, a, b, c
<1>4. /\ (4 * q) \div 4 = q /\ (4 * q) % 4 = 0
      /\ (4 * q + 1) \div 4 = q /\ (4 * q + 1) % 4 = 1
      /\ (4 * q + 2) \div 4 = q /\ (4 * q + 2) % 4 = 2
      /\ (4 * q + 3) \div 4 = q /\ (4 * q + 3) % 4 = 3
  OBVIOUS
<1>5. /\ 4 * q + 2 < (8 * n + 5) \div 6 => 3 * q + 1 < n
      /\ 4 * q + 3 < (8 * n + 5) \div 6 => 3 * q + 2 < n
      /\ 4 * q + 2 = (8 * n + 5) \div 6 => ~(3 * q + 1 < n)
      /\ 4 * q + 3 = (8 * n + 5) \div 6 => ~(3 * q + 2 < n)
  BY <1>1
<1>6. /\ EncodedChar(m, 4 * q) = get_alphabet(a \div 4)
      /\ EncodedChar(m, 4 * q + 1) = get_alphabet((16 * (a % 4)) + (b \div 16))
      /\ EncodedChar(m, 4 * q + 2) =
           IF 3 * q + 1 < n THEN get_alphabet((4 * (b % 16)) + (c \div 64)) ELSE Pad
      /\ EncodedChar(m, 4 * q + 3) =
           IF 3 * q + 2 < n THEN get_alphabet(c % 64) ELSE Pad
  <2>1. ASSUME NEW k \in Nat, k \div 4 = q
        PROVE  /\ k % 4 = 0 => EncodedChar(m, k) = get_alphabet(a \div 4)
               /\ k % 4 = 1 => EncodedChar(m, k) = get_alphabet((16 * (a % 4)) + (b \div 16))
               /\ k % 4 = 2 => EncodedChar(m, k) =
                    IF 3 * q + 1 < n THEN get_alphabet((4 * (b % 16)) + (c \div 64)) ELSE Pad
               /\ k % 4 = 3 => EncodedChar(m, k) =
                    IF 3 * q + 2 < n THEN get_alphabet(c % 64) ELSE Pad
    <3>. DEFINE g == 3 * (k \div 4)
    <3>1. g = 3 * q
      BY <2>1
    <3>. HIDE DEF g
    <3>2. EncodedChar(m, k) =
            CASE k % 4 = 0 -> get_alphabet(At(m, g) \div 4)
              [] k % 4 = 1 -> get_alphabet((16 * (At(m, g) % 4)) + (At(m, g + 1) \div 16))
              [] k % 4 = 2 -> IF g + 1 < Len(m)
                              THEN get_alphabet((4 * (At(m, g + 1) % 16)) + (At(m, g + 2) \div 64))
                              ELSE Pad
              [] OTHER -> IF g + 2 < Len(m) THEN get_alphabet(At(m, g + 2) % 64) ELSE Pad
      BY Zenon DEF EncodedChar, g
    <3>. QED BY <3>1, <3>2 DEF a, b, c, n
  <2>2. 4 * q \in Nat /\ 4 * q + 1 \in Nat /\ 4 * q + 2 \in Nat /\ 4 * q + 3 \in Nat
    OBVIOUS
  <2>. QED BY <1>4, <2>1, <2>2
<1>7. /\ get_inverse(get_alphabet(a \div 4)) = a \div 4
      /\ get_inverse(get_alphabet((16 * (a % 4)) + (b \div 16))) = (16 * (a % 4)) + (b \div 16)
      /\ get_inverse(get_alphabet((4 * (b % 16)) + (c \div 64))) = (4 * (b % 16)) + (c \div 64)
      /\ get_inverse(get_alphabet(c % 64)) = c % 64
  BY <1>1, Reassembled, InverseAlphabet
<1>8. /\ 4 * q < Significant(m) => t[4 * q + 1] = EncodedChar(m, 4 * q)
      /\ 4 * q + 1 < Significant(m) => t[(4 * q + 1) + 1] = EncodedChar(m, 4 * q + 1)
      /\ 4 * q + 2 <= Significant(m) => t[(4 * q + 2) + 1] = EncodedChar(m, 4 * q + 2)
      /\ 4 * q + 3 <= Significant(m) => t[(4 * q + 3) + 1] = EncodedChar(m, 4 * q + 3)
  <2>1. /\ 4 * q < (8 * n + 5) \div 6 => 4 * q + 1 \in 1..4 * ((n + 2) \div 3)
        /\ 4 * q + 1 < (8 * n + 5) \div 6 => (4 * q + 1) + 1 \in 1..4 * ((n + 2) \div 3)
        /\ 4 * q + 2 <= (8 * n + 5) \div 6 => (4 * q + 2) + 1 \in 1..4 * ((n + 2) \div 3)
        /\ 4 * q + 3 <= (8 * n + 5) \div 6 => (4 * q + 3) + 1 \in 1..4 * ((n + 2) \div 3)
    BY <1>1
  <2>2. /\ (4 * q + 1) - 1 = 4 * q
        /\ ((4 * q + 1) + 1) - 1 = 4 * q + 1
        /\ ((4 * q + 2) + 1) - 1 = 4 * q + 2
        /\ ((4 * q + 3) + 1) - 1 = 4 * q + 3
    OBVIOUS
  <2>. QED BY <1>2, <2>1, <2>2, Zenon DEF Significant, n
<1>. QED BY <1>5, <1>6, <1>7, <1>8 DEF Significant, SextetAt, n, t, a, b, c

\* A finished decoding of an encoding has read all of it but the '='.
LEMMA ReadsSignificant ==
  ASSUME IndInv, pc = "done", NEW m \in Seq(Octet), text = Encode(m)
  PROVE  read = Significant(m)
<1>. DEFINE n == Len(m)
            s == Significant(m)
<1>1. n \in Nat /\ s \in Nat /\ read \in Nat /\ read <= Len(text)
  BY DEF IndInv, TypeOK, Significant
<1>2. Len(text) = 4 * ((n + 2) \div 3)
  <2>1. 4 * ((n + 2) \div 3) \in Nat
    BY <1>1
  <2>. QED BY <2>1 DEF Encode, encoded_size
<1>3. \A p \in 0..read - 1 : SextetAt(text, p) \in Sextet
  BY DEF IndInv, Collected
<1>4. \A p \in Nat : p < s => SextetAt(text, p) \in Sextet
  <2>. SUFFICES ASSUME NEW p \in Nat, p < s PROVE SextetAt(text, p) \in Sextet
    OBVIOUS
  <2>. DEFINE q == p \div 4
  <2>1. q \in Nat /\ (p = 4 * q \/ p = 4 * q + 1 \/ p = 4 * q + 2 \/ p = 4 * q + 3)
    OBVIOUS
  <2>. DEFINE a == At(m, 3 * q)
              b == At(m, 3 * q + 1)
              c == At(m, 3 * q + 2)
  <2>2. a \in Octet /\ b \in Octet /\ c \in Octet
    BY <2>1, AtOctet
  <2>. HIDE DEF q, a, b, c
  <2>3. /\ a \div 4 \in Sextet
        /\ (16 * (a % 4)) + (b \div 16) \in Sextet
        /\ (4 * (b % 16)) + (c \div 64) \in Sextet
        /\ c % 64 \in Sextet
    BY <2>2, Reassembled
  <2>4. /\ 4 * q < s => SextetAt(text, 4 * q) = a \div 4
        /\ 4 * q + 1 < s => SextetAt(text, 4 * q + 1) = (16 * (a % 4)) + (b \div 16)
        /\ 4 * q + 2 < s => SextetAt(text, 4 * q + 2) = (4 * (b % 16)) + (c \div 64)
        /\ 4 * q + 3 < s => SextetAt(text, 4 * q + 3) = c % 64
    BY <2>1, EncodedGroup DEF a, b, c
  <2>. HIDE DEF s
  <2>. QED BY <2>1, <2>3, <2>4
<1>5. s <= Len(text) /\ (s < Len(text) => s % 4 = 2 \/ s % 4 = 3)
  BY <1>1, <1>2 DEF Significant
<1>6. s < Len(text) => text[s + 1] = Pad
  <2>. DEFINE q == s \div 4
  <2>1. q \in Nat /\ (s % 4 = 2 => s = 4 * q + 2) /\ (s % 4 = 3 => s = 4 * q + 3)
    <3>. HIDE DEF s
    <3>. QED BY <1>1
  <2>2. /\ 4 * q + 2 = s => text[4 * q + 3] = Pad
        /\ 4 * q + 3 = s => text[4 * q + 4] = Pad
    BY <2>1, EncodedGroup
  <2>. HIDE DEF s, q
  <2>. QED BY <1>5, <2>1, <2>2
<1>7. get_inverse(Pad) = -1 /\ -1 \notin Sextet
  BY DEF get_inverse, Pad, Sextet
<1>8. ~Readable
  BY DEF IndInv, Collected
<1>. HIDE DEF s
<1>9. ~(read < s)
  <2>1. read < s => SextetAt(text, read) \in Sextet
    BY <1>1, <1>4
  <2>. QED BY <1>1, <1>5, <1>7, <1>8, <2>1 DEF Readable, SextetAt
<1>10. ~(s < read)
  <2>. SUFFICES ASSUME s < read PROVE FALSE
    OBVIOUS
  <2>1. s \in 0..read - 1 /\ s < Len(text)
    BY <1>1
  <2>2. SextetAt(text, s) = -1
    BY <1>6, <1>7, <2>1 DEF SextetAt
  <2>. QED BY <1>3, <1>7, <2>1, <2>2
<1>. QED BY <1>1, <1>9, <1>10 DEF s

\* base64_decode undoes base64_encode, for every message.
THEOREM RoundTrips == Spec => []RoundTrip
<1>1. ASSUME IndInv, pc = "done", NEW m \in Messages, text = Encode(m)
      PROVE  dest = m
  <2>1. m \in Seq(Octet)
    BY Base64Assumption
  <2>2. read = Significant(m)
    BY <1>1, <2>1, ReadsSignificant
  <2>3. /\ dest \in Seq(Octet) /\ Len(dest) = (6 * read) \div 8
        /\ \A k \in 1..Len(dest) : dest[k] = OctetAt(text, k - 1)
    BY <1>1 DEF IndInv, TypeOK, Collected
  <2>. DEFINE n == Len(m)
  <2>4. n \in Nat
    BY <2>1
  <2>. HIDE DEF n
  <2>5. (6 * ((8 * n + 5) \div 6)) \div 8 = n
    BY <2>4
  <2>6. Len(dest) = n
    BY <2>2, <2>3, <2>5 DEF Significant, n
  <2>7. ASSUME NEW k \in 1..n
        PROVE  OctetAt(text, k - 1) = m[k]
    <3>. DEFINE q == (k - 1) \div 3
                a == At(m, 3 * q)
                b == At(m, 3 * q + 1)
                c == At(m, 3 * q + 2)
    <3>1. q \in Nat /\ (k = 3 * q + 1 \/ k = 3 * q + 2 \/ k = 3 * q + 3)
      BY <2>4
    <3>2. a \in Octet /\ b \in Octet /\ c \in Octet
      BY <2>1, <3>1, AtOctet
    <3>. HIDE DEF q, a, b, c
    <3>3. /\ 4 * q < Significant(m) => SextetAt(text, 4 * q) = a \div 4
          /\ 4 * q + 1 < Significant(m) =>
               SextetAt(text, 4 * q + 1) = (16 * (a % 4)) + (b \div 16)
          /\ 4 * q + 2 < Significant(m) =>
               SextetAt(text, 4 * q + 2) = (4 * (b % 16)) + (c \div 64)
          /\ 4 * q + 3 < Significant(m) => SextetAt(text, 4 * q + 3) = c % 64
      BY <1>1, <2>1, <3>1, EncodedGroup DEF a, b, c
    <3>4. /\ OctetAt(text, 3 * q) =
               ((64 * SextetAt(text, 4 * q) + SextetAt(text, 4 * q + 1)) \div 16) % 256
          /\ OctetAt(text, 3 * q + 1) =
               ((64 * SextetAt(text, 4 * q + 1) + SextetAt(text, 4 * q + 2)) \div 4) % 256
          /\ OctetAt(text, 3 * q + 2) =
               ((64 * SextetAt(text, 4 * q + 2) + SextetAt(text, 4 * q + 3)) \div 1) % 256
      BY <3>1, OctetPlaces
    <3>5. Significant(m) = (8 * n + 5) \div 6
      BY DEF Significant, n
    <3>6. CASE k = 3 * q + 1
      <4>1. 4 * q < Significant(m) /\ 4 * q + 1 < Significant(m)
        BY <2>4, <3>1, <3>5, <3>6
      <4>2. OctetAt(text, 3 * q) = a
        <5>1. /\ SextetAt(text, 4 * q) = a \div 4
              /\ SextetAt(text, 4 * q + 1) = (16 * (a % 4)) + (b \div 16)
          BY <3>3, <4>1
        <5>2. ((64 * (a \div 4) + ((16 * (a % 4)) + (b \div 16))) \div 16) % 256 = a
          BY <3>2, Reassembled
        <5>. QED BY <3>4, <5>1, <5>2, Zenon
      <4>3. a = m[k] /\ k - 1 = 3 * q
        BY <2>4, <3>1, <3>6 DEF At, a, n
      <4>. QED BY <4>2, <4>3
    <3>7. CASE k = 3 * q + 2
      <4>1. 4 * q + 1 < Significant(m) /\ 4 * q + 2 < Significant(m)
        BY <2>4, <3>1, <3>5, <3>7
      <4>2. OctetAt(text, 3 * q + 1) = b
        <5>1. /\ SextetAt(text, 4 * q + 1) = (16 * (a % 4)) + (b \div 16)
              /\ SextetAt(text, 4 * q + 2) = (4 * (b % 16)) + (c \div 64)
          BY <3>3, <4>1
        <5>2. ((64 * ((16 * (a % 4)) + (b \div 16)) + ((4 * (b % 16)) + (c \div 64))) \div 4) % 256 = b
          BY <3>2, Reassembled
        <5>. QED BY <3>4, <5>1, <5>2, Zenon
      <4>3. b = m[k] /\ k - 1 = 3 * q + 1
        BY <2>4, <3>1, <3>7 DEF At, b, n
      <4>. QED BY <4>2, <4>3
    <3>8. CASE k = 3 * q + 3
      <4>1. 4 * q + 2 < Significant(m) /\ 4 * q + 3 < Significant(m)
        BY <2>4, <3>1, <3>5, <3>8
      <4>2. OctetAt(text, 3 * q + 2) = c
        <5>1. /\ SextetAt(text, 4 * q + 2) = (4 * (b % 16)) + (c \div 64)
              /\ SextetAt(text, 4 * q + 3) = c % 64
          BY <3>3, <4>1
        <5>. DEFINE Third(x, y) == ((64 * x + y) \div 1) % 256
        <5>2. Third((4 * (b % 16)) + (c \div 64), c % 64) = c
          BY <3>2, Reassembled
        <5>3. OctetAt(text, 3 * q + 2) =
                Third(SextetAt(text, 4 * q + 2), SextetAt(text, 4 * q + 3))
          BY <3>4, Zenon
        <5>. HIDE DEF Third
        <5>. QED BY <5>1, <5>2, <5>3, Zenon
      <4>3. c = m[k] /\ k - 1 = 3 * q + 2
        BY <2>4, <3>1, <3>8 DEF At, c, n
      <4>. QED BY <4>2, <4>3
    <3>. QED BY <3>1, <3>6, <3>7, <3>8
  <2>. QED BY <2>1, <2>3, <2>6, <2>7 DEF n
<1>2. IndInv => RoundTrip
  <2>. SUFFICES ASSUME IndInv, pc = "done", NEW m \in Messages, Encode(m) = text
                PROVE  dest = m
    BY DEF RoundTrip, Encodings
  <2>. QED BY <1>1
<1>. QED BY <1>2, SpecIndInv, PTL

-----------------------------------------------------------------------------
(* Signing.                                                                  *)

\* What is assumed of the bytes and the secrets.
LEMMA KeyConstants ==
  /\ Bytes \subseteq 0..255 /\ Half \in Nat \ {0}
  /\ Secrets \subseteq Seq(STRING) /\ Scalars \subseteq [1..Half -> 0..255]
BY ConversionsAssumption DEF K!SigningAssumption

\* No two digits are alike, in one case or in both.
LEMMA DigitsDiffer ==
  ASSUME NEW m \in 1..16, NEW n \in 1..16
  PROVE  /\ K!hexes[m] = K!hexes[n] => m = n
         /\ K!lowercase[m] = K!lowercase[n] => m = n
         /\ K!lowercase[m] = K!hexes[n] => m = n
BY DEF K!hexes, K!lowercase

\* HexDecoder knows what HexEncoder wrote.
LEMMA ValueOfDigit ==
  ASSUME NEW n \in 0..15
  PROVE  K!Value(K!hexes[n + 1]) = n
<1>1. DOMAIN K!hexes = 1..16
  BY DEF K!hexes
<1>2. n + 1 \in 1..16
  OBVIOUS
<1>. DEFINE at == CHOOSE m \in DOMAIN K!hexes : K!hexes[m] = K!hexes[n + 1]
<1>3. at = n + 1
  BY <1>1, <1>2, DigitsDiffer
<1>4. K!Value(K!hexes[n + 1]) = at - 1
  BY DEF K!Value
<1>. HIDE DEF at
<1>. QED BY <1>3, <1>4

\* A character of _hexes has a value, whose digit it is.
LEMMA DigitOfValue ==
  ASSUME NEW c, K!Contains(K!hexes, c)
  PROVE  K!Value(c) \in 0..15 /\ c = K!hexes[K!Value(c) + 1]
<1>1. DOMAIN K!hexes = 1..16 /\ Len(K!hexes) = 16
  BY DEF K!hexes
<1>2. PICK n \in 1..16 : K!hexes[n] = c
  BY <1>1 DEF K!Contains
<1>. DEFINE at == CHOOSE m \in DOMAIN K!hexes : K!hexes[m] = c
<1>3. at \in 1..16 /\ K!hexes[at] = c
  BY <1>1, <1>2
<1>4. K!Value(c) = at - 1
  BY DEF K!Value
<1>. HIDE DEF at
<1>5. K!Value(c) \in 0..15 /\ K!Value(c) + 1 = at
  BY <1>3, <1>4
<1>. QED BY <1>3, <1>5

\* A reader of either case knows what a stream wrote.
LEMMA DigitOfLowercase ==
  ASSUME NEW n \in 0..15
  PROVE  K!Digit(K!lowercase[n + 1]) = n
<1>1. \A m \in 0..15 :
        K!lowercase[n + 1] \in {K!hexes[m + 1], K!lowercase[m + 1]} => m = n
  <2>1. ASSUME NEW m \in 0..15, K!lowercase[n + 1] \in {K!hexes[m + 1], K!lowercase[m + 1]}
        PROVE  m = n
    <3>1. m + 1 \in 1..16 /\ n + 1 \in 1..16
      OBVIOUS
    <3>2. m + 1 = n + 1
      BY <2>1, <3>1, DigitsDiffer
    <3>. QED BY <3>2
  <2>. QED BY <2>1
<1>. QED BY <1>1 DEF K!Digit

\* The digits of a byte.
LEMMA TwoDigits ==
  ASSUME NEW b \in 0..255
  PROVE  b \div 16 \in 0..15 /\ b % 16 \in 0..15 /\ 16 * (b \div 16) + (b % 16) = b
OBVIOUS

\* A place among the digits is one of the two of a byte.
LEMMA PlaceOfByte ==
  ASSUME NEW n \in Nat, NEW p \in 1..2 * n
  PROVE  \E k \in 1..n : p = 2 * k - 1 \/ p = 2 * k
<1>. DEFINE q == (p + 1) \div 2
            r == (p + 1) % 2
<1>1. q \in Int /\ r \in 0..1 /\ p + 1 = 2 * q + r
  <2>1. \A x \in Int : x \div 2 \in Int /\ x % 2 \in 0..1 /\ x = 2 * (x \div 2) + (x % 2)
    OBVIOUS
  <2>2. p + 1 \in Int
    OBVIOUS
  <2>. QED BY <2>1, <2>2, Zenon
<1>. HIDE DEF q, r
<1>2. q \in 1..n /\ (p = 2 * q - 1 \/ p = 2 * q)
  BY <1>1
<1>. QED BY <1>2

\* A text spells n bytes, two digits for every one.
Spells(h, n, b, digits) ==
  /\ DOMAIN h = 1..2 * n /\ Len(h) = 2 * n
  /\ h = [p \in 1..2 * n |-> h[p]]
  /\ \A k \in 1..n : /\ h[2 * k - 1] = digits[(b[k] \div 16) + 1]
                     /\ h[2 * k] = digits[(b[k] % 16) + 1]

LEMMA HexDigits ==
  ASSUME NEW n \in Nat, NEW b \in [1..n -> 0..255], NEW digits
  PROVE  Spells(K!Hex(b, digits), n, b, digits)
<1>1. b \in Seq(0..255) /\ Len(b) = n
  OBVIOUS
<1>2. K!Hex(b, digits) =
        [p \in 1..2 * n |-> digits[1 + (IF p % 2 = 1 THEN b[(p + 1) \div 2] \div 16
                                        ELSE b[(p + 1) \div 2] % 16)]]
  BY <1>1 DEF K!Hex
<1>3. DOMAIN K!Hex(b, digits) = 1..2 * n /\ Len(K!Hex(b, digits)) = 2 * n
  BY <1>2
<1>4. ASSUME NEW k \in 1..n
      PROVE  /\ K!Hex(b, digits)[2 * k - 1] = digits[(b[k] \div 16) + 1]
             /\ K!Hex(b, digits)[2 * k] = digits[(b[k] % 16) + 1]
  <2>1. /\ 2 * k - 1 \in 1..2 * n /\ 2 * k \in 1..2 * n
        /\ (2 * k - 1) % 2 = 1 /\ (2 * k) % 2 = 0
        /\ ((2 * k - 1) + 1) \div 2 = k /\ (2 * k + 1) \div 2 = k
    OBVIOUS
  <2>2. b[k] \in 0..255
    OBVIOUS
  <2>3. (b[k] \div 16) + 1 = 1 + (b[k] \div 16) /\ (b[k] % 16) + 1 = 1 + (b[k] % 16)
    <3>1. \A x \in 0..255 : (x \div 16) + 1 = 1 + (x \div 16) /\ (x % 16) + 1 = 1 + (x % 16)
      OBVIOUS
    <3>. QED BY <2>2, <3>1, Zenon
  <2>. QED BY <1>2, <2>1, <2>3
<1>. QED BY <1>2, <1>3, <1>4 DEF Spells

\* What has been encoded is accepted, at its length, and decoded to itself.
LEMMA HexRoundTrip ==
  ASSUME NEW n \in Nat, NEW b \in [1..n -> 0..255]
  PROVE  /\ K!Accepts(n, K!Hex(b, K!hexes))
         /\ K!Decoded(K!Hex(b, K!hexes)) = b
         /\ K!Read(K!Hex(b, K!lowercase)) = b
<1>. DEFINE h == K!Hex(b, K!hexes)
            l == K!Hex(b, K!lowercase)
<1>1. /\ DOMAIN h = 1..2 * n /\ Len(h) = 2 * n /\ Len(l) = 2 * n
      /\ \A k \in 1..n : /\ h[2 * k - 1] = K!hexes[(b[k] \div 16) + 1]
                         /\ h[2 * k] = K!hexes[(b[k] % 16) + 1]
                         /\ l[2 * k - 1] = K!lowercase[(b[k] \div 16) + 1]
                         /\ l[2 * k] = K!lowercase[(b[k] % 16) + 1]
  <2>1. Spells(h, n, b, K!hexes) /\ Spells(l, n, b, K!lowercase)
    BY HexDigits
  <2>. HIDE DEF h, l
  <2>. QED BY <2>1 DEF Spells
<1>. HIDE DEF h, l
<1>2. (2 * n) % 2 = 0 /\ (2 * n) \div 2 = n
  OBVIOUS
<1>3. \A k \in 1..n : /\ b[k] \div 16 \in 0..15 /\ b[k] % 16 \in 0..15
                      /\ 16 * (b[k] \div 16) + (b[k] % 16) = b[k]
  BY TwoDigits
<1>4. K!Accepts(n, h)
  <2>1. ASSUME NEW p \in 1..2 * n PROVE K!Contains(K!hexes, h[p])
    <3>1. PICK k \in 1..n : p = 2 * k - 1 \/ p = 2 * k
      BY PlaceOfByte
    <3>2. PICK v \in 0..15 : h[p] = K!hexes[v + 1]
      <4>1. /\ h[2 * k - 1] = K!hexes[(b[k] \div 16) + 1] /\ h[2 * k] = K!hexes[(b[k] % 16) + 1]
            /\ b[k] \div 16 \in 0..15 /\ b[k] % 16 \in 0..15
        BY <1>1, <1>3, Zenon
      <4>. QED BY <3>1, <4>1, Zenon
    <3>3. v + 1 \in 1..Len(K!hexes)
      BY DEF K!hexes
    <3>. QED BY <3>2, <3>3 DEF K!Contains
  <2>. QED BY <1>1, <1>2, <2>1 DEF K!Accepts
<1>5. K!Decoded(h) = b
  <2>1. \A k \in 1..n : 16 * K!Value(h[2 * k - 1]) + K!Value(h[2 * k]) = b[k]
    <3>1. ASSUME NEW k \in 1..n
          PROVE  16 * K!Value(h[2 * k - 1]) + K!Value(h[2 * k]) = b[k]
      <4>1. K!Value(h[2 * k - 1]) = b[k] \div 16 /\ K!Value(h[2 * k]) = b[k] % 16
        <5>1. /\ h[2 * k - 1] = K!hexes[(b[k] \div 16) + 1]
              /\ h[2 * k] = K!hexes[(b[k] % 16) + 1]
              /\ b[k] \div 16 \in 0..15 /\ b[k] % 16 \in 0..15
          BY <1>1, <1>3, Zenon
        <5>2. \A v \in 0..15 : K!Value(K!hexes[v + 1]) = v
          BY ValueOfDigit
        <5>3. /\ K!Value(K!hexes[(b[k] \div 16) + 1]) = b[k] \div 16
              /\ K!Value(K!hexes[(b[k] % 16) + 1]) = b[k] % 16
          BY <5>1, <5>2, Zenon
        <5>. QED BY <5>1, <5>3, Zenon
      <4>. QED BY <1>3, <4>1
    <3>. QED BY <3>1
  <2>2. K!Decoded(h) = [p \in 1..n |-> 16 * K!Value(h[2 * p - 1]) + K!Value(h[2 * p])]
    BY <1>1, <1>2 DEF K!Decoded
  <2>3. b = [p \in 1..n |-> b[p]]
    OBVIOUS
  <2>. QED BY <2>1, <2>2, <2>3
<1>6. K!Read(l) = b
  <2>1. \A k \in 1..n : 16 * K!Digit(l[2 * k - 1]) + K!Digit(l[2 * k]) = b[k]
    <3>1. ASSUME NEW k \in 1..n
          PROVE  16 * K!Digit(l[2 * k - 1]) + K!Digit(l[2 * k]) = b[k]
      <4>1. K!Digit(l[2 * k - 1]) = b[k] \div 16 /\ K!Digit(l[2 * k]) = b[k] % 16
        <5>1. /\ l[2 * k - 1] = K!lowercase[(b[k] \div 16) + 1]
              /\ l[2 * k] = K!lowercase[(b[k] % 16) + 1]
              /\ b[k] \div 16 \in 0..15 /\ b[k] % 16 \in 0..15
          BY <1>1, <1>3, Zenon
        <5>2. \A v \in 0..15 : K!Digit(K!lowercase[v + 1]) = v
          BY DigitOfLowercase
        <5>3. /\ K!Digit(K!lowercase[(b[k] \div 16) + 1]) = b[k] \div 16
              /\ K!Digit(K!lowercase[(b[k] % 16) + 1]) = b[k] % 16
          BY <5>1, <5>2, Zenon
        <5>. QED BY <5>1, <5>3, Zenon
      <4>. QED BY <1>3, <4>1
    <3>. QED BY <3>1
  <2>2. K!Read(l) = [p \in 1..n |-> 16 * K!Digit(l[2 * p - 1]) + K!Digit(l[2 * p])]
    BY <1>1, <1>2 DEF K!Read
  <2>3. b = [p \in 1..n |-> b[p]]
    OBVIOUS
  <2>. QED BY <2>1, <2>2, <2>3
<1>. QED BY <1>4, <1>5, <1>6 DEF h, l

\* What is accepted is the encoding of what it is decoded to.
LEMMA Reencoded ==
  ASSUME NEW n \in Nat, NEW s \in Seq(STRING), K!Accepts(n, s)
  PROVE  K!Decoded(s) \in [1..n -> 0..255] /\ s = K!Hex(K!Decoded(s), K!hexes)
<1>. DEFINE b == K!Decoded(s)
            h == K!Hex(b, K!hexes)
<1>1. Len(s) = 2 * n /\ \A p \in 1..2 * n : K!Contains(K!hexes, s[p])
  <2>1. Len(s) \in Nat /\ Len(s) % 2 = 0 /\ Len(s) \div 2 = n /\ DOMAIN s = 1..Len(s)
    BY DEF K!Accepts
  <2>2. Len(s) = 2 * n
    <3>1. \A x \in Nat : x % 2 = 0 => x = 2 * (x \div 2)
      OBVIOUS
    <3>2. Len(s) = 2 * (Len(s) \div 2)
      BY <2>1, <3>1, Zenon
    <3>. QED BY <2>1, <3>2
  <2>. QED BY <2>1, <2>2 DEF K!Accepts
<1>2. \A p \in 1..2 * n : K!Value(s[p]) \in 0..15 /\ s[p] = K!hexes[K!Value(s[p]) + 1]
  BY <1>1, DigitOfValue
<1>3. ASSUME NEW k \in 1..n
      PROVE  /\ 16 * K!Value(s[2 * k - 1]) + K!Value(s[2 * k]) \in 0..255
             /\ (16 * K!Value(s[2 * k - 1]) + K!Value(s[2 * k])) \div 16 = K!Value(s[2 * k - 1])
             /\ (16 * K!Value(s[2 * k - 1]) + K!Value(s[2 * k])) % 16 = K!Value(s[2 * k])
  <2>1. 2 * k - 1 \in 1..2 * n /\ 2 * k \in 1..2 * n
    OBVIOUS
  <2>2. PICK u \in 0..15, v \in 0..15 : u = K!Value(s[2 * k - 1]) /\ v = K!Value(s[2 * k])
    BY <1>2, <2>1
  <2>3. 16 * u + v \in 0..255 /\ (16 * u + v) \div 16 = u /\ (16 * u + v) % 16 = v
    OBVIOUS
  <2>. QED BY <2>2, <2>3
<1>4. b = [p \in 1..n |-> 16 * K!Value(s[2 * p - 1]) + K!Value(s[2 * p])]
  <2>1. (2 * n) \div 2 = n
    OBVIOUS
  <2>. QED BY <1>1, <2>1 DEF K!Decoded
<1>5. b \in [1..n -> 0..255]
  BY <1>3, <1>4
<1>6. Spells(h, n, b, K!hexes)
  BY <1>5, HexDigits
<1>7. \A k \in 1..n : b[k] = 16 * K!Value(s[2 * k - 1]) + K!Value(s[2 * k])
  BY <1>4
<1>. HIDE DEF b, h
<1>8. \A k \in 1..n : h[2 * k - 1] = s[2 * k - 1] /\ h[2 * k] = s[2 * k]
  <2>1. ASSUME NEW k \in 1..n PROVE h[2 * k - 1] = s[2 * k - 1] /\ h[2 * k] = s[2 * k]
    <3>1. 2 * k - 1 \in 1..2 * n /\ 2 * k \in 1..2 * n
      OBVIOUS
    <3>2. b[k] \div 16 = K!Value(s[2 * k - 1]) /\ b[k] % 16 = K!Value(s[2 * k])
      BY <1>3, <1>7
    <3>. QED BY <1>2, <1>6, <3>1, <3>2 DEF Spells
  <2>. QED BY <2>1
<1>9. ASSUME NEW p \in 1..2 * n PROVE h[p] = s[p]
  <2>1. PICK k \in 1..n : p = 2 * k - 1 \/ p = 2 * k
    BY PlaceOfByte
  <2>. QED BY <1>8, <2>1
<1>10. s = h
  <2>1. h = [p \in 1..2 * n |-> h[p]]
    BY <1>6 DEF Spells
  <2>2. s = [p \in 1..2 * n |-> s[p]]
    BY <1>1
  <2>. QED BY <1>9, <2>1, <2>2
<1>. QED BY <1>5, <1>10 DEF b, h

\* A function on places is a sequence.
LEMMA Places ==
  ASSUME NEW m \in Nat, NEW f, NEW S, f = [p \in 1..m |-> f[p]], \A p \in 1..m : f[p] \in S
  PROVE  f \in Seq(S) /\ Len(f) = m
<1>1. f \in [1..m -> S]
  OBVIOUS
<1>. QED BY <1>1

\* One more byte is two more digits.
Longer(n, b, c) ==
  /\ Append(b, c) \in [1..n + 1 -> 0..255]
  /\ K!Hex(b, K!hexes) \o K!Hex(<<c>>, K!hexes) = K!Hex(Append(b, c), K!hexes)

LEMMA HexAppend ==
  ASSUME NEW n \in Nat, NEW b \in [1..n -> 0..255], NEW c \in 0..255
  PROVE  Longer(n, b, c)
<1>. DEFINE d == Append(b, c)
            h == K!Hex(b, K!hexes)
            t == K!Hex(<<c>>, K!hexes)
            w == K!Hex(d, K!hexes)
<1>1. /\ d \in [1..n + 1 -> 0..255] /\ d[n + 1] = c
      /\ \A k \in 1..n : d[k] = b[k]
  <2>1. b \in Seq(0..255) /\ Len(b) = n
    OBVIOUS
  <2>2. /\ d \in Seq(0..255) /\ Len(d) = n + 1 /\ d[n + 1] = c
        /\ \A k \in 1..n : d[k] = b[k]
    BY <2>1, AppendProperties
  <2>. HIDE DEF d
  <2>3. d \in [1..Len(d) -> 0..255]
    <3>1. d \in Seq(0..255)
      BY <2>2
    <3>. QED BY <3>1, LenProperties
  <2>. QED BY <2>2, <2>3, Zenon
<1>2. <<c>> \in [1..1 -> 0..255] /\ <<c>>[1] = c
  <2>1. <<c>> \in Seq(0..255) /\ Len(<<c>>) = 1 /\ <<c>>[1] = c
    OBVIOUS
  <2>2. <<c>> \in [1..Len(<<c>>) -> 0..255]
    BY <2>1, LenProperties
  <2>. QED BY <2>1, <2>2, Zenon
<1>3. Spells(h, n, b, K!hexes) /\ Spells(t, 1, <<c>>, K!hexes) /\ Spells(w, n + 1, d, K!hexes)
  <2>1. Spells(h, n, b, K!hexes)
    BY HexDigits
  <2>2. Spells(t, 1, <<c>>, K!hexes)
    <3>1. 1 \in Nat
      OBVIOUS
    <3>. QED BY <1>2, <3>1, HexDigits
  <2>3. Spells(w, n + 1, d, K!hexes)
    <3>1. n + 1 \in Nat
      OBVIOUS
    <3>. HIDE DEF d
    <3>. QED BY <1>1, <3>1, HexDigits
  <2>. QED BY <2>1, <2>2, <2>3
<1>. HIDE DEF d, h, t, w
<1>4. /\ h = [p \in 1..2 * n |-> h[p]] /\ Len(h) = 2 * n /\ t = [p \in 1..2 |-> t[p]]
      /\ w = [p \in 1..2 * n + 2 |-> w[p]]
  <2>1. 2 * (n + 1) = 2 * n + 2 /\ 2 * 1 = 2
    OBVIOUS
  <2>. QED BY <1>3, <2>1 DEF Spells
<1>5. w[2 * n + 1] = t[1] /\ w[2 * n + 2] = t[2]
  <2>1. /\ 2 * (n + 1) - 1 = 2 * n + 1 /\ 2 * (n + 1) = 2 * n + 2 /\ n + 1 \in 1..n + 1
        /\ 2 * 1 - 1 = 1 /\ 2 * 1 = 2 /\ 1 \in 1..1
    OBVIOUS
  <2>2. /\ w[2 * n + 1] = K!hexes[(d[n + 1] \div 16) + 1]
        /\ w[2 * n + 2] = K!hexes[(d[n + 1] % 16) + 1]
    <3>1. PICK k \in 1..n + 1 : k = n + 1 /\ 2 * k - 1 = 2 * n + 1 /\ 2 * k = 2 * n + 2
      BY <2>1
    <3>2. w[2 * k - 1] = K!hexes[(d[k] \div 16) + 1] /\ w[2 * k] = K!hexes[(d[k] % 16) + 1]
      BY <1>3 DEF Spells
    <3>. QED BY <3>1, <3>2
  <2>3. /\ t[1] = K!hexes[(<<c>>[1] \div 16) + 1]
        /\ t[2] = K!hexes[(<<c>>[1] % 16) + 1]
    <3>. DEFINE x == <<c>>
    <3>1. Spells(t, 1, x, K!hexes)
      BY <1>3
    <3>. HIDE DEF x
    <3>2. /\ t[1] = K!hexes[(x[1] \div 16) + 1]
          /\ t[2] = K!hexes[(x[1] % 16) + 1]
      BY <2>1, <3>1 DEF Spells
    <3>. QED BY <3>2 DEF x
  <2>. QED BY <1>1, <1>2, <2>2, <2>3
<1>6. ASSUME NEW p \in 1..2 * n PROVE w[p] = h[p]
  <2>1. PICK k \in 1..n : p = 2 * k - 1 \/ p = 2 * k
    BY PlaceOfByte
  <2>2. k \in 1..n + 1 /\ d[k] = b[k]
    BY <1>1
  <2>3. /\ w[2 * k - 1] = K!hexes[(d[k] \div 16) + 1] /\ w[2 * k] = K!hexes[(d[k] % 16) + 1]
        /\ h[2 * k - 1] = K!hexes[(b[k] \div 16) + 1] /\ h[2 * k] = K!hexes[(b[k] % 16) + 1]
    BY <1>3, <2>2 DEF Spells
  <2>. QED BY <2>1, <2>2, <2>3
<1>. DEFINE S == {w[p] : p \in 1..2 * n + 2}
<1>7. /\ h \in Seq(S) /\ t \in Seq(S) /\ w \in Seq(S)
      /\ Len(h) = 2 * n /\ Len(t) = 2 /\ Len(w) = 2 * n + 2
  <2>1. ASSUME NEW p \in 1..2 * n PROVE h[p] \in S
    BY <1>6
  <2>2. t[1] \in S /\ t[2] \in S
    BY <1>5
  <2>3. \A p \in 1..2 * n + 2 : w[p] \in S
    OBVIOUS
  <2>. HIDE DEF S
  <2>4. 2 * n \in Nat /\ 2 * n + 2 \in Nat /\ 2 \in Nat /\ \A p \in 1..2 : p = 1 \/ p = 2
    OBVIOUS
  <2>5. h \in Seq(S) /\ Len(h) = 2 * n
    <3>1. h = [p \in 1..2 * n |-> h[p]]
      BY <1>4
    <3>. HIDE DEF h
    <3>. QED BY <2>1, <2>4, <3>1, Places
  <2>6. t \in Seq(S) /\ Len(t) = 2
    BY <1>4, <2>2, <2>4, Places
  <2>7. w \in Seq(S) /\ Len(w) = 2 * n + 2
    BY <1>4, <2>3, <2>4, Places
  <2>. QED BY <2>5, <2>6, <2>7
<1>. HIDE DEF S
<1>8. h \o t = w
  <2>1. /\ h \o t \in Seq(S) /\ Len(h \o t) = 2 * n + 2
        /\ \A p \in 1..2 * n + 2 :
             (h \o t)[p] = IF p <= 2 * n THEN h[p] ELSE t[p - 2 * n]
    <3>1. /\ h \o t \in Seq(S) /\ Len(h \o t) = Len(h) + Len(t)
          /\ \A p \in 1..Len(h) + Len(t) :
               (h \o t)[p] = IF p <= Len(h) THEN h[p] ELSE t[p - Len(h)]
      BY <1>7, ConcatProperties
    <3>. QED BY <1>7, <3>1
  <2>2. ASSUME NEW p \in 1..2 * n + 2 PROVE (h \o t)[p] = w[p]
    <3>1. CASE p <= 2 * n
      <4>1. p \in 1..2 * n
        BY <3>1
      <4>. QED BY <1>6, <2>1, <3>1, <4>1
    <3>2. CASE p = 2 * n + 1
      <4>1. ~(p <= 2 * n) /\ p - 2 * n = 1
        BY <3>2
      <4>2. (h \o t)[p] = t[p - 2 * n] /\ t[p - 2 * n] = t[1]
        BY <2>1, <4>1
      <4>. QED BY <1>5, <3>2, <4>2
    <3>3. CASE p = 2 * n + 2
      <4>1. ~(p <= 2 * n) /\ p - 2 * n = 2
        BY <3>3
      <4>2. (h \o t)[p] = t[p - 2 * n] /\ t[p - 2 * n] = t[2]
        BY <2>1, <4>1
      <4>. QED BY <1>5, <3>3, <4>2
    <3>4. p <= 2 * n \/ p = 2 * n + 1 \/ p = 2 * n + 2
      OBVIOUS
    <3>. QED BY <3>1, <3>2, <3>3, <3>4, Zenon
  <2>. QED BY <1>7, <2>1, <2>2, SeqEqual
<1>. QED BY <1>1, <1>8, Zenon DEF Longer, d, h, t, w

\* Octets, of the length a ByteSet has.
Octets(n) == [1..n -> 0..255]

\* The invariant.  The secret has been decoded, and nothing is made without a scalar.
Keyed ==
  keyPc \notin {"secret", "threw"} => K!Accepts(Half, secret) /\ secretKey = K!Decoded(secret)

\* What is on its way is the text of what the curve made, or that itself.
OnItsWay ==
  /\ keyPc = "signature" => made \in Octets(2 * Half + 1)
  /\ keyPc = "public" => made \in Octets(2 * Half)
  /\ keyPc \in {"signature", "public"} => buf = K!Hex(made, K!hexes)
  /\ keyPc = "print" => blob = made /\ \E n \in Nat : made \in Octets(n)
  /\ keyPc \in {"signature", "public", "print"} => secretKey \in Scalars

KeyInv ==
  /\ keyPc \in {"secret", "digest", "sign", "signature", "derive", "public", "print", "done",
                "threw"}
  /\ secret \in Seq(STRING)
  /\ Keyed /\ OnItsWay /\ KeyDecides

\* A secret that is not accepted, or is decoded to no scalar, is no key.
LEMMA NoKeyThrows ==
  ASSUME K!IsKey
  PROVE  K!Accepts(Half, secret) /\ K!Decoded(secret) \in Scalars
<1>1. PICK key \in Scalars : secret = K!Hex(key, K!hexes)
  BY DEF K!IsKey
<1>2. key \in [1..Half -> 0..255] /\ Half \in Nat
  BY KeyConstants
<1>. QED BY <1>1, <1>2, HexRoundTrip

LEMMA KeyInit == K!Init => KeyInv
BY KeyConstants DEF K!Init, KeyInv, Keyed, OnItsWay, KeyDecides, K!KeyDecides

LEMMA SecretInv == KeyInv /\ K!MakeSecretKey => KeyInv'
<1>. SUFFICES ASSUME KeyInv, K!MakeSecretKey PROVE KeyInv'
  OBVIOUS
<1>1. /\ UNCHANGED <<secret, digest, buf, blob, printed, made>>
      /\ IF K!Accepts(Half, secret)
         THEN secretKey' = K!Decoded(secret) /\ keyPc' \in {"digest", "derive"}
         ELSE keyPc' = "threw"
  BY DEF K!MakeSecretKey, K!Construct
<1>2. KeyDecides'
  <2>1. keyPc' = "threw" => ~K!IsKey
    BY <1>1, NoKeyThrows
  <2>2. K!IsKey' = K!IsKey
    BY <1>1 DEF K!IsKey
  <2>. QED BY <1>1, <2>1, <2>2 DEF KeyDecides, K!KeyDecides
<1>. QED BY <1>1, <1>2 DEF KeyInv, Keyed, OnItsWay

LEMMA DigestInv == KeyInv /\ K!MakeDigest => KeyInv'
<1>. SUFFICES ASSUME KeyInv, K!MakeDigest PROVE KeyInv'
  OBVIOUS
<1>1. PICK h \in K!Blob(Half) : K!Construct(Half, K!Hex(h, K!hexes), digest', "sign")
  BY DEF K!MakeDigest
<1>2. h \in [1..Half -> 0..255] /\ Half \in Nat
  BY KeyConstants DEF K!Blob
<1>3. keyPc = "digest" /\ keyPc' = "sign"
      /\ UNCHANGED <<secret, secretKey, buf, blob, printed, made>>
  <2>1. K!Accepts(Half, K!Hex(h, K!hexes))
    BY <1>2, HexRoundTrip
  <2>. QED BY <1>1, <2>1 DEF K!MakeDigest, K!Construct
<1>. QED BY <1>3 DEF KeyInv, Keyed, OnItsWay, KeyDecides, K!KeyDecides

LEMMA CurveInv == KeyInv /\ (K!Sign \/ K!Derive) => KeyInv'
<1>. SUFFICES ASSUME KeyInv, K!Sign \/ K!Derive PROVE KeyInv'
  OBVIOUS
<1>1. keyPc \in {"sign", "derive"} /\ UNCHANGED <<secret, secretKey, digest, blob, printed>>
  BY DEF K!Sign, K!Derive
<1>2. K!IsKey' = K!IsKey
  BY <1>1 DEF K!IsKey
<1>3. CASE secretKey \notin Scalars
  <2>1. keyPc' = "threw" /\ ~K!IsKey
    BY <1>1, <1>3, NoKeyThrows DEF K!Sign, K!Derive, KeyInv, Keyed
  <2>. QED BY <1>1, <1>2, <2>1 DEF KeyInv, Keyed, OnItsWay, KeyDecides, K!KeyDecides
<1>4. CASE secretKey \in Scalars
  <2>1. CASE K!Sign
    <3>1. PICK rs \in K!Blob(2 * Half), v \in 0..3 :
            /\ made' = Append(rs, v + 27)
            /\ buf' = K!Hex(rs, K!hexes) \o K!Hex(<<v + 27>>, K!hexes)
      BY <1>4, <2>1 DEF K!Sign
    <3>2. keyPc' = "signature"
      BY <1>4, <2>1 DEF K!Sign
    <3>3. 2 * Half \in Nat /\ rs \in [1..2 * Half -> 0..255] /\ v + 27 \in 0..255
      <4>1. 2 * Half \in Nat /\ v + 27 \in 0..255
        BY KeyConstants
      <4>2. rs \in [1..2 * Half -> 0..255]
        <5>1. rs \in [1..2 * Half -> Bytes] /\ Bytes \subseteq 0..255
          BY KeyConstants, Zenon DEF K!Blob
        <5>. QED BY <5>1
      <4>. QED BY <4>1, <4>2
    <3>4. made' \in Octets(2 * Half + 1) /\ buf' = K!Hex(made', K!hexes)
      <4>1. PICK n \in Nat, c \in 0..255 : n = 2 * Half /\ c = v + 27
        BY <3>3
      <4>2. Longer(n, rs, c)
        <5>1. rs \in [1..n -> 0..255]
          BY <3>3, <4>1
        <5>. QED BY <5>1, HexAppend
      <4>3. /\ Append(rs, c) \in [1..n + 1 -> 0..255]
            /\ K!Hex(rs, K!hexes) \o K!Hex(<<c>>, K!hexes) = K!Hex(Append(rs, c), K!hexes)
        BY <4>2, Zenon DEF Longer
      <4>. QED BY <3>1, <4>1, <4>3 DEF Octets
    <3>. QED BY <1>1, <1>4, <3>2, <3>4 DEF KeyInv, Keyed, OnItsWay, KeyDecides, K!KeyDecides
  <2>2. CASE K!Derive
    <3>1. PICK xy \in K!Blob(2 * Half) :
            made' = xy /\ buf' = K!Hex(Tail(<<4>> \o xy), K!hexes)
      BY <1>4, <2>2 DEF K!Derive
    <3>2. keyPc' = "public"
      BY <1>4, <2>2 DEF K!Derive
    <3>3. 2 * Half \in Nat /\ xy \in [1..2 * Half -> 0..255]
      <4>1. 2 * Half \in Nat
        BY KeyConstants
      <4>2. xy \in [1..2 * Half -> 0..255]
        BY KeyConstants DEF K!Blob
      <4>. QED BY <4>1, <4>2
    <3>4. Tail(<<4>> \o xy) = xy
      <4>1. PICK n \in Nat : n = 2 * Half
        BY <3>3
      <4>. QED BY <3>3, <4>1
    <3>5. made' \in Octets(2 * Half) /\ buf' = K!Hex(made', K!hexes)
      BY <3>1, <3>3, <3>4 DEF Octets
    <3>. QED BY <1>1, <1>4, <3>2, <3>5 DEF KeyInv, Keyed, OnItsWay, KeyDecides, K!KeyDecides
  <2>. QED BY <2>1, <2>2
<1>. QED BY <1>3, <1>4

LEMMA BlobInv == KeyInv /\ K!MakeBlob => KeyInv'
<1>. SUFFICES ASSUME KeyInv, K!MakeBlob PROVE KeyInv'
  OBVIOUS
<1>1. PICK n \in {2 * Half, 2 * Half + 1} :
        /\ keyPc \in {"signature", "public"} /\ made \in Octets(n)
        /\ K!Construct(n, buf, blob', "print")
  BY DEF K!MakeBlob, KeyInv, OnItsWay
<1>2. n \in Nat
  BY KeyConstants
<1>3. K!Accepts(n, buf) /\ K!Decoded(buf) = made
  BY <1>1, <1>2, HexRoundTrip DEF KeyInv, OnItsWay, Octets
<1>4. keyPc' = "print" /\ blob' = made
      /\ UNCHANGED <<secret, secretKey, digest, buf, printed, made>>
  BY <1>1, <1>3 DEF K!MakeBlob, K!Construct
<1>. QED BY <1>1, <1>2, <1>4 DEF KeyInv, Keyed, OnItsWay, KeyDecides, K!KeyDecides

LEMMA StreamInv == KeyInv /\ K!Stream => KeyInv'
<1>. SUFFICES ASSUME KeyInv, K!Stream PROVE KeyInv'
  OBVIOUS
<1>1. /\ keyPc = "print" /\ keyPc' = "done" /\ printed' = K!Hex(blob, K!lowercase)
      /\ UNCHANGED <<secret, secretKey, digest, buf, blob, made>>
  BY DEF K!Stream
<1>2. PICK n \in Nat : made \in [1..n -> 0..255] /\ blob = made
  BY <1>1 DEF KeyInv, OnItsWay, Octets
<1>3. K!Read(printed') = made
  BY <1>1, <1>2, HexRoundTrip
<1>4. K!IsKey
  <2>1. secret = K!Hex(secretKey, K!hexes) /\ secretKey \in Scalars
    BY <1>1, KeyConstants, Reencoded DEF KeyInv, Keyed, OnItsWay
  <2>. QED BY <2>1 DEF K!IsKey
<1>5. K!IsKey' = K!IsKey
  BY <1>1 DEF K!IsKey
<1>6. KeyDecides'
  BY <1>1, <1>3, <1>4, <1>5 DEF KeyDecides, K!KeyDecides
<1>. QED BY <1>1, <1>6 DEF KeyInv, Keyed, OnItsWay

\* Whatever is signed, and whatever the hash and the curve make of it, the secret alone
\* decides whether something is printed, and it is what the curve made.
THEOREM SecretDecides == K!Spec => []KeyDecides
<1>1. KeyInv /\ UNCHANGED K!vars => KeyInv'
  BY DEF KeyInv, Keyed, OnItsWay, KeyDecides, K!KeyDecides, K!IsKey, K!vars
<1>2. KeyInv /\ [K!Next]_K!vars => KeyInv'
  BY <1>1, SecretInv, DigestInv, CurveInv, BlobInv, StreamInv DEF K!Next
<1>3. KeyInv => KeyDecides
  BY DEF KeyInv
<1>. QED BY <1>2, <1>3, KeyInit, PTL DEF K!Spec

-----------------------------------------------------------------------------
(* DelSpaces.                                                                *)

Chars == Letters \cup {T!Blank}

\* How many characters are to be left.
Remaining == Cardinality(T!Kept(string))

\* h tells where the characters left were in the string: in the same order, and none
\* that is to be kept is missing.
Embeds(h) ==
  /\ h \in [1..Len(str) -> 1..Len(string)]
  /\ \A k, l \in 1..Len(str) : k < l => h[k] < h[l]
  /\ \A k \in 1..Len(str) : str[k] = string[h[k]]
  /\ \A p \in T!Kept(string) : \E k \in 1..Len(str) : h[k] = p

\* The first m turns of a pass would erase nothing.
Clean(m) ==
  /\ \A k \in 1..m : k < Len(str) => ~(str[k] = T!Blank /\ str[k + 1] = T!Blank)
  /\ m > 0 /\ Len(str) > 0 => str[1] # T!Blank
  /\ Len(str) \in 1..m - 1 => str[Len(str)] # T!Blank

\* The invariant.  What is left to erase is no more than the passes that are left, and
\* one if this one has found nothing so far.
Passes ==
  /\ trimPc = "loop" =>
       /\ Len(str) - Remaining <= Len(string) - outer + 1
       /\ Len(str) - Remaining <= Len(string) - outer \/ Clean(inner)
  /\ trimPc = "done" => Len(str) <= Remaining

TrimInv ==
  /\ trimPc \in {"loop", "done"}
  /\ string \in Seq(Chars) /\ str \in Seq(Chars) /\ Len(str) <= Len(string)
  /\ outer \in 0..Len(string) /\ inner \in 0..outer
  /\ \E h : Embeds(h)
  /\ Passes

\* Cardinality is the same by either name.
LEMMA SameCardinality == \A S : T!Cardinality(S) = Cardinality(S)
BY DEF T!Cardinality, Cardinality

\* A terminator is none of the characters.
LEMMA NoTerminator == T!Nul \notin Chars /\ T!Blank \in Chars
BY ConversionsAssumption DEF T!DelSpacesAssumption, Chars, T!Nul, T!Blank

\* What can be numbered has that many elements.
LEMMA Numbered ==
  ASSUME NEW m \in Nat, NEW S, NEW g \in [1..m -> S],
         \A k, l \in 1..m : g[k] = g[l] => k = l,
         \A s \in S : \E k \in 1..m : g[k] = s
  PROVE  IsFiniteSet(S) /\ Cardinality(S) = m
<1>1. g \in Bijection(1..m, S)
  BY DEF Bijection, Injection, Surjection, IsInjective
<1>2. ExistsBijection(1..m, S)
  BY <1>1 DEF ExistsBijection
<1>. QED BY <1>2, FS_NatBijection, FS_CountingElements

\* Different numbers in order are different places.
LEMMA Ordered ==
  ASSUME NEW m \in Nat, NEW h, \A k \in 1..m : h[k] \in Int,
         \A k, l \in 1..m : k < l => h[k] < h[l]
  PROVE  \A k, l \in 1..m : /\ h[k] = h[l] => k = l
                            /\ h[k] <= h[l] <=> k <= l
<1>1. ASSUME NEW k \in 1..m, NEW l \in 1..m
      PROVE  (h[k] = h[l] => k = l) /\ (h[k] <= h[l] <=> k <= l)
  <2>1. k < l \/ k = l \/ l < k
    OBVIOUS
  <2>2. h[k] \in Int /\ h[l] \in Int
    OBVIOUS
  <2>3. CASE k < l
    <3>1. h[k] < h[l]
      BY <2>3
    <3>. QED BY <2>2, <2>3, <3>1
  <2>4. CASE l < k
    <3>1. h[l] < h[k]
      BY <2>4
    <3>. QED BY <2>2, <2>4, <3>1
  <2>5. CASE k = l
    BY <2>2, <2>5
  <2>. QED BY <2>1, <2>3, <2>4, <2>5
<1>. QED BY <1>1

\* There are finitely many places.
LEMMA KeptFinite ==
  ASSUME string \in Seq(Chars)
  PROVE  IsFiniteSet(T!Kept(string)) /\ Remaining \in Nat
<1>1. Len(string) \in Nat
  OBVIOUS
<1>2. IsFiniteSet(1..Len(string))
  <2>. DEFINE g == [k \in 1..Len(string) |-> k]
  <2>1. g \in [1..Len(string) -> 1..Len(string)] /\ \A k \in 1..Len(string) : g[k] = k
    OBVIOUS
  <2>. HIDE DEF g
  <2>. QED BY <1>1, <2>1, Numbered
<1>3. T!Kept(string) \in SUBSET (1..Len(string))
  BY DEF T!Kept
<1>. QED BY <1>2, <1>3, FS_Subset, FS_CardinalityType DEF Remaining

\* If the first m characters left are to be kept, there are as many of these.
LEMMA PrefixCounts ==
  ASSUME string \in Seq(Chars), str \in Seq(Chars), NEW h, Embeds(h),
         NEW m \in Nat, m <= Len(str), \A k \in 1..m : h[k] \in T!Kept(string)
  PROVE  m <= Remaining
<1>. DEFINE S == {h[k] : k \in 1..m}
            g == [k \in 1..m |-> h[k]]
<1>1. /\ \A k \in 1..m : h[k] \in Int
      /\ \A k, l \in 1..m : k < l => h[k] < h[l]
  <2>1. Len(str) \in Nat
    OBVIOUS
  <2>2. \A k \in 1..m : k \in 1..Len(str)
    BY <2>1
  <2>3. \A k \in 1..Len(str) : h[k] \in 1..Len(string)
    BY DEF Embeds
  <2>4. \A k, l \in 1..m : k < l => h[k] < h[l]
    BY <2>2 DEF Embeds
  <2>5. \A k \in 1..m : h[k] \in Int
    BY <2>2, <2>3
  <2>. QED BY <2>4, <2>5
<1>2. \A k, l \in 1..m : h[k] = h[l] => k = l
  BY <1>1, Ordered
<1>3. /\ g \in [1..m -> S] /\ \A k, l \in 1..m : g[k] = g[l] => k = l
      /\ \A s \in S : \E k \in 1..m : g[k] = s
  BY <1>2
<1>4. S \in SUBSET T!Kept(string)
  OBVIOUS
<1>. HIDE DEF S, g
<1>5. Cardinality(S) = m
  BY <1>3, Numbered
<1>. QED BY <1>4, <1>5, KeptFinite, FS_Subset DEF Remaining

\* Letters are kept.
LEMMA LettersKept ==
  ASSUME NEW p \in 1..Len(string), string[p] # T!Blank
  PROVE  p \in T!Kept(string)
BY DEF T!Kept

\* A blank left between two others is kept: nothing that is to be kept lies between it
\* and the next, so the next was the next in the string.
LEMMA BlankKept ==
  ASSUME string \in Seq(Chars), str \in Seq(Chars), NEW h, Embeds(h), str[1] # T!Blank,
         NEW k \in 1..Len(str), k < Len(str), str[k] = T!Blank, str[k + 1] # T!Blank
  PROVE  h[k] \in T!Kept(string)
<1>. DEFINE n == Len(string)
<1>1. /\ n \in Nat /\ Len(str) \in Nat
      /\ 1 \in 1..Len(str) /\ k + 1 \in 1..Len(str) /\ k # 1 /\ 1 < k /\ k < k + 1
  OBVIOUS
<1>2. PICK a \in 1..n, p \in 1..n, q \in 1..n : a = h[1] /\ p = h[k] /\ q = h[k + 1]
  BY <1>1 DEF Embeds
<1>3. a < p /\ p < q
  BY <1>1, <1>2 DEF Embeds
<1>4. string[a] # T!Blank /\ string[p] = T!Blank /\ string[q] # T!Blank
  BY <1>1, <1>2 DEF Embeds
<1>5. ASSUME q # p + 1 PROVE FALSE
  <2>1. q - 1 \in 1..n /\ p < q - 1 /\ q - 1 < q /\ a \in 1..q - 1 /\ (q - 1) + 1 = q
        /\ q - 1 < n
    <3>1. n \in Nat /\ a \in 1..n /\ p \in 1..n /\ q \in 1..n
      BY <1>1
    <3>. HIDE DEF n
    <3>. QED BY <1>3, <1>5, <3>1
  <2>2. q - 1 \in T!Kept(string)
    <3>1. CASE string[q - 1] # T!Blank
      BY <2>1, <3>1, LettersKept
    <3>2. CASE string[q - 1] = T!Blank
      BY <1>4, <2>1, <3>2 DEF T!Kept
    <3>. QED BY <3>1, <3>2
  <2>3. PICK l \in 1..Len(str) : h[l] = q - 1
    BY <2>2 DEF Embeds
  <2>4. h[k] < h[l] /\ h[l] < h[k + 1]
    BY <1>2, <2>1, <2>3
  <2>5. k < l \/ l <= k
    OBVIOUS
  <2>6. \A x \in 1..Len(str) : h[x] \in Int
    <3>1. \A x \in 1..Len(str) : h[x] \in 1..Len(string)
      BY DEF Embeds
    <3>. QED BY <3>1
  <2>7. ~(h[l] <= h[k]) /\ ~(h[k + 1] <= h[l])
    BY <1>1, <2>4, <2>6
  <2>8. ~(l <= k) /\ ~(k + 1 <= l)
    <3>1. \A x, y \in 1..Len(str) : h[x] <= h[y] <=> x <= y
      BY <1>1, <2>6, Ordered DEF Embeds
    <3>. QED BY <1>1, <2>7, <3>1
  <2>. QED BY <2>8
<1>6. p \in 1..n /\ p < n /\ string[p + 1] # T!Blank /\ a \in 1..p
  BY <1>1, <1>2, <1>3, <1>4, <1>5
<1>. QED BY <1>2, <1>4, <1>6 DEF T!Kept

\* A pass that would erase nothing has found at least as many to keep.
LEMMA CleanPass ==
  ASSUME TrimInv, Clean(outer + 1)
  PROVE  Len(str) - Remaining <= Len(string) - outer
<1>1. PICK h : Embeds(h)
  BY DEF TrimInv
<1>2. /\ string \in Seq(Chars) /\ str \in Seq(Chars) /\ Len(str) <= Len(string)
      /\ Len(str) \in Nat /\ Len(string) \in Nat /\ outer \in 0..Len(string)
      /\ Remaining \in Nat
  BY KeptFinite DEF TrimInv
<1>3. ASSUME NEW k \in 1..Len(str), k <= outer + 1, k < Len(str) \/ Len(str) <= outer
      PROVE  h[k] \in T!Kept(string)
  <2>1. CASE str[k] # T!Blank
    <3>1. h[k] \in 1..Len(string) /\ string[h[k]] # T!Blank
      BY <1>1, <2>1 DEF Embeds
    <3>. QED BY <3>1, LettersKept
  <2>2. CASE str[k] = T!Blank
    <3>1. str[1] # T!Blank
      BY <1>2 DEF Clean
    <3>2. k < Len(str)
      <4>1. ASSUME k = Len(str) PROVE FALSE
        <5>1. Len(str) \in 1..(outer + 1) - 1
          BY <1>2, <1>3, <4>1
        <5>. QED BY <2>2, <4>1, <5>1 DEF Clean
      <4>. QED BY <1>2, <1>3, <4>1
    <3>3. str[k + 1] # T!Blank
      <4>1. k \in 1..outer + 1
        BY <1>2, <1>3
      <4>. QED BY <2>2, <3>2, <4>1 DEF Clean
    <3>. QED BY <1>1, <1>2, <2>2, <3>1, <3>2, <3>3, BlankKept
  <2>. QED BY <2>1, <2>2
<1>4. CASE Len(str) <= outer
  <2>1. \A k \in 1..Len(str) : h[k] \in T!Kept(string)
    BY <1>2, <1>3, <1>4
  <2>2. Len(str) <= Remaining
    BY <1>1, <1>2, <2>1, PrefixCounts
  <2>. QED BY <1>2, <2>2
<1>5. CASE outer < Len(str)
  <2>1. \A k \in 1..outer : h[k] \in T!Kept(string)
    <3>1. ASSUME NEW k \in 1..outer PROVE h[k] \in T!Kept(string)
      <4>1. k \in 1..Len(str) /\ k <= outer + 1 /\ k < Len(str)
        BY <1>2, <1>5
      <4>. QED BY <1>3, <4>1
    <3>. QED BY <3>1
  <2>2. outer \in Nat /\ outer <= Len(str)
    BY <1>2, <1>5
  <2>3. outer <= Remaining
    BY <1>1, <1>2, <2>1, <2>2, PrefixCounts
  <2>. QED BY <1>2, <2>2, <2>3
<1>. QED BY <1>2, <1>4, <1>5

\* At first nothing has been erased.
LEMMA TrimBegins == T!Init => TrimInv
<1>. SUFFICES ASSUME T!Init PROVE TrimInv
  OBVIOUS
<1>1. string \in Seq(Chars) /\ Len(string) \in Nat
  <2>1. MaxLength \in Nat
    BY ConversionsAssumption DEF T!DelSpacesAssumption
  <2>2. PICK n \in 0..MaxLength : string \in [1..n -> Chars]
    BY DEF T!Init, T!Strings, Chars
  <2>3. n \in Nat
    BY <2>1
  <2>4. string \in Seq(Chars)
    BY <2>2, <2>3
  <2>. QED BY <2>4
<1>2. str = string /\ outer = 0 /\ inner = 0 /\ trimPc = "loop"
  BY DEF T!Init
<1>3. Embeds([k \in 1..Len(string) |-> k])
  <2>1. T!Kept(string) \subseteq 1..Len(string)
    BY DEF T!Kept
  <2>. QED BY <1>1, <1>2, <2>1 DEF Embeds
<1>4. Remaining \in Nat
  BY <1>1, KeptFinite
<1>5. Passes
  BY <1>1, <1>2, <1>4 DEF Passes
<1>. QED BY <1>1, <1>2, <1>3, <1>5 DEF TrimInv

\* str' is str without its character at e.
Erased(e) ==
  /\ str' \in Seq(Chars) /\ Len(str') = Len(str) - 1
  /\ \A k \in 1..Len(str) - 1 : str'[k] = IF k < e THEN str[k] ELSE str[k + 1]

\* Erasing what is not to be kept leaves the rest in place.
LEMMA StillEmbedded ==
  ASSUME string \in Seq(Chars), str \in Seq(Chars), NEW h, Embeds(h), string' = string,
         NEW e \in 1..Len(str), h[e] \notin T!Kept(string), Erased(e)
  PROVE  (\E g : Embeds(g))'
<1>. DEFINE n == Len(str)
            g == [k \in 1..n - 1 |-> IF k < e THEN h[k] ELSE h[k + 1]]
            at(k) == IF k < e THEN k ELSE k + 1
<1>1. n \in Nat /\ n > 0 /\ Len(str') = n - 1
  BY DEF Erased
<1>2. \A k \in 1..n - 1 : at(k) \in 1..n /\ g[k] = h[at(k)]
  BY <1>1
<1>3. \A k, l \in 1..n - 1 : k < l => at(k) < at(l)
  BY <1>1
<1>4. \A k \in 1..n - 1 : str'[k] = str[at(k)]
  BY <1>1 DEF Erased
<1>5. \A k \in 1..n : k # e => \E l \in 1..n - 1 : at(l) = k
  <2>1. ASSUME NEW k \in 1..n, k < e PROVE k \in 1..n - 1 /\ at(k) = k
    BY <1>1, <2>1
  <2>2. ASSUME NEW k \in 1..n, k > e PROVE k - 1 \in 1..n - 1 /\ at(k - 1) = k
    BY <1>1, <2>2
  <2>3. \A k \in 1..n : k # e => k < e \/ k > e
    BY <1>1
  <2>. HIDE DEF at, n
  <2>. QED BY <2>1, <2>2, <2>3
<1>6. DOMAIN g = 1..n - 1 /\ g = [k \in 1..n - 1 |-> g[k]]
  OBVIOUS
<1>. HIDE DEF g, at
<1>7. /\ h \in [1..n -> 1..Len(string)]
      /\ \A k, l \in 1..n : k < l => h[k] < h[l]
      /\ \A k \in 1..n : str[k] = string[h[k]]
      /\ \A p \in T!Kept(string) : \E k \in 1..n : h[k] = p
  BY DEF Embeds
<1>. HIDE DEF n
<1>8. \A k \in 1..n - 1 : g[k] \in 1..Len(string)
  BY <1>2, <1>7
<1>9. g \in [1..n - 1 -> 1..Len(string)]
  BY <1>6, <1>8
<1>10. \A k, l \in 1..n - 1 : k < l => g[k] < g[l]
  BY <1>2, <1>3, <1>7
<1>11. \A k \in 1..n - 1 : str'[k] = string[g[k]]
  BY <1>2, <1>4, <1>7
<1>12. ASSUME NEW p \in T!Kept(string) PROVE \E k \in 1..n - 1 : g[k] = p
  <2>1. PICK k \in 1..n : h[k] = p
    BY <1>7
  <2>2. k # e
    BY <2>1
  <2>3. PICK l \in 1..n - 1 : at(l) = k
    BY <1>5, <2>2
  <2>. QED BY <1>2, <2>1, <2>3
<1>13. PICK f : f = g
  OBVIOUS
<1>14. Embeds(f)'
  <2>1. string' = string /\ Len(str') = n - 1
    BY <1>1
  <2>2. T!Kept(string)' = T!Kept(string)
    BY <2>1 DEF T!Kept, T!Blank
  <2>3. /\ f \in [1..Len(str') -> 1..Len(string')]
        /\ \A k, l \in 1..Len(str') : k < l => f[k] < f[l]
    BY <1>9, <1>10, <1>13, <2>1
  <2>4. \A k \in 1..Len(str') : str'[k] = string'[f[k]]
    BY <1>11, <1>13, <2>1
  <2>5. \A p \in T!Kept(string)' : \E k \in 1..Len(str') : f[k] = p
    BY <1>12, <1>13, <2>1, <2>2
  <2>. QED BY <2>3, <2>4, <2>5 DEF Embeds
<1>. QED BY <1>14

\* Each of the three erasures erases one character.
LEMMA OneErased ==
  ASSUME str \in Seq(Chars), Len(str) > 0
  PROVE  /\ \A m \in 1..Len(str) : str' = T!RemoveAt(str, m) => Erased(m)
         /\ str' = Tail(str) => Erased(1)
         /\ str' = T!Front(str) => Erased(Len(str))
<1>. DEFINE n == Len(str)
<1>1. n \in Nat /\ n > 0
  OBVIOUS
<1>2. ASSUME NEW m \in 1..n, str' = T!RemoveAt(str, m) PROVE Erased(m)
  <2>. DEFINE a == SubSeq(str, 1, m - 1)
              b == SubSeq(str, m + 1, n)
  <2>1. a \in Seq(Chars) /\ Len(a) = m - 1 /\ \A k \in 1..m - 1 : a[k] = str[k]
    BY <1>1, SubSeqProperties
  <2>2. b \in Seq(Chars) /\ Len(b) = n - m /\ \A k \in 1..n - m : b[k] = str[m + k]
    BY <1>1, SubSeqProperties
  <2>3. str' = a \o b
    BY <1>2 DEF T!RemoveAt
  <2>. HIDE DEF a, b
  <2>4. /\ a \o b \in Seq(Chars) /\ Len(a \o b) = n - 1
        /\ \A k \in 1..n - 1 : (a \o b)[k] = IF k <= m - 1 THEN a[k] ELSE b[k - (m - 1)]
    <3>1. Len(a) + Len(b) = n - 1
      BY <1>1, <2>1, <2>2
    <3>2. a \o b \in Seq(Chars) /\ Len(a \o b) = Len(a) + Len(b)
      BY <2>1, <2>2, ConcatProperties
    <3>3. \A k \in 1..Len(a) + Len(b) :
            (a \o b)[k] = IF k <= Len(a) THEN a[k] ELSE b[k - Len(a)]
      BY <2>1, <2>2, ConcatProperties
    <3>. QED BY <2>1, <3>1, <3>2, <3>3
  <2>5. \A k \in 1..n - 1 : (a \o b)[k] = IF k < m THEN str[k] ELSE str[k + 1]
    <3>1. ASSUME NEW k \in 1..n - 1, k < m
          PROVE  (a \o b)[k] = str[k]
      <4>1. k \in 1..m - 1 /\ k <= m - 1
        BY <1>1, <3>1
      <4>. QED BY <2>1, <2>4, <4>1
    <3>2. ASSUME NEW k \in 1..n - 1, ~(k < m)
          PROVE  (a \o b)[k] = str[k + 1]
      <4>1. k - (m - 1) \in 1..n - m /\ ~(k <= m - 1) /\ m + (k - (m - 1)) = k + 1
        BY <1>1, <3>2
      <4>2. (a \o b)[k] = b[k - (m - 1)]
        BY <2>4, <4>1
      <4>3. b[k - (m - 1)] = str[m + (k - (m - 1))]
        BY <2>2, <4>1
      <4>. QED BY <4>1, <4>2, <4>3
    <3>. QED BY <3>1, <3>2
  <2>. QED BY <2>3, <2>4, <2>5 DEF Erased
<1>3. ASSUME str' = Tail(str) PROVE Erased(1)
  <2>1. str # << >>
    BY <1>1
  <2>2. /\ Tail(str) \in Seq(Chars) /\ Len(Tail(str)) = n - 1
        /\ \A k \in 1..n - 1 : Tail(str)[k] = str[k + 1]
    BY <1>1, <2>1, HeadTailProperties
  <2>3. \A k \in 1..n - 1 : ~(k < 1)
    OBVIOUS
  <2>. QED BY <1>3, <2>2, <2>3 DEF Erased
<1>4. ASSUME str' = T!Front(str) PROVE Erased(n)
  <2>. DEFINE a == SubSeq(str, 1, n - 1)
  <2>1. a \in Seq(Chars) /\ Len(a) = n - 1 /\ \A k \in 1..n - 1 : a[k] = str[k]
    <3>1. \A k \in 1..n - 1 : str[k] \in Chars
      BY <1>1
    <3>2. /\ a \in Seq(Chars)
          /\ Len(a) = IF 1 <= n - 1 THEN (n - 1) - 1 + 1 ELSE 0
          /\ \A k \in 1..(n - 1) - 1 + 1 : a[k] = str[1 + k - 1]
      BY <1>1, <3>1, SubSeqProperties
    <3>. HIDE DEF a, n
    <3>3. /\ (n - 1) - 1 + 1 = n - 1 /\ (1 <= n - 1 \/ n - 1 = 0)
          /\ \A k \in 1..n - 1 : 1 + k - 1 = k
      BY <1>1
    <3>4. Len(a) = n - 1
      BY <3>2, <3>3
    <3>5. \A k \in 1..n - 1 : a[k] = str[k]
      BY <3>2, <3>3
    <3>. QED BY <3>2, <3>4, <3>5
  <2>2. str' = a
    BY <1>4 DEF T!Front
  <2>. HIDE DEF a
  <2>3. \A k \in 1..n - 1 : k < n
    BY <1>1
  <2>. QED BY <2>1, <2>2, <2>3 DEF Erased
<1>. QED BY <1>2, <1>3, <1>4

\* What the three erase is not to be kept.
LEMMA NoneMissed ==
  ASSUME string \in Seq(Chars), str \in Seq(Chars), NEW h, Embeds(h),
         NEW k \in 1..Len(str), str[k] = T!Blank,
         \/ k < Len(str) /\ str[k + 1] = T!Blank
         \/ k = 1
         \/ k = Len(str)
  PROVE  h[k] \notin T!Kept(string)
<1>. DEFINE n == Len(str)
<1>1. n \in Nat
  OBVIOUS
<1>2. /\ \A l \in 1..n : h[l] \in 1..Len(string) /\ h[l] \in Int
      /\ \A l \in 1..n : str[l] = string[h[l]]
      /\ \A p \in T!Kept(string) : \E l \in 1..n : h[l] = p
  BY DEF Embeds
<1>3. \A l, m \in 1..n : h[l] <= h[m] <=> l <= m
  BY <1>1, <1>2, Ordered DEF Embeds
<1>. SUFFICES ASSUME h[k] \in T!Kept(string) PROVE FALSE
  OBVIOUS
<1>4. PICK p \in 1..Len(string) : p = h[k]
  BY <1>2
<1>5. string[p] = T!Blank
  BY <1>2, <1>4
<1>6. /\ p < Len(string) /\ string[p + 1] # T!Blank
      /\ \E m \in 1..p : string[m] # T!Blank
  BY <1>4, <1>5 DEF T!Kept
<1>7. p + 1 \in 1..Len(string)
  BY <1>6
<1>8. PICK l \in 1..n : h[l] = p + 1
  BY <1>2, <1>6, <1>7, LettersKept
<1>9. ~(h[l] <= h[k])
  BY <1>4, <1>8
<1>10. ~(l <= k)
  BY <1>3, <1>9
<1>11. CASE k < n /\ str[k + 1] = T!Blank
  <2>1. k + 1 \in 1..n /\ k + 1 <= l /\ ~(k + 1 <= k)
    BY <1>1, <1>10, <1>11
  <2>2. h[k + 1] <= h[l] /\ ~(h[k + 1] <= h[k])
    BY <1>3, <2>1
  <2>3. h[k + 1] \in Int
    BY <1>2, <2>1
  <2>4. h[k + 1] = p + 1
    BY <1>4, <1>8, <2>2, <2>3
  <2>. QED BY <1>2, <1>6, <1>11, <2>1, <2>4
<1>12. CASE k = 1
  <2>1. PICK m \in 1..p : string[m] # T!Blank
    BY <1>6
  <2>2. m \in 1..Len(string) /\ m <= p
    BY <1>4, <2>1
  <2>3. PICK q \in 1..n : h[q] = m
    BY <1>2, <2>1, <2>2, LettersKept
  <2>4. h[q] <= h[k]
    BY <1>4, <2>2, <2>3
  <2>5. q <= k
    BY <1>3, <2>4
  <2>6. q = k
    BY <1>1, <1>12, <2>5
  <2>. QED BY <1>2, <2>1, <2>3, <2>6
<1>13. CASE k = n
  BY <1>1, <1>10, <1>13
<1>. QED BY <1>11, <1>12, <1>13

\* When each of the three erases, in terms of the characters.
LEMMA Found ==
  ASSUME str \in Seq(Chars), inner \in Nat
  PROVE  /\ T!Doubled <=> /\ inner + 1 < Len(str)
                          /\ str[inner + 1] = T!Blank /\ str[inner + 2] = T!Blank
         /\ T!Leading <=> ~T!Doubled /\ Len(str) > 0 /\ str[1] = T!Blank
         /\ T!Trailing <=> /\ ~T!Doubled /\ ~T!Leading
                           /\ Len(str) > 0 /\ inner = Len(str) /\ str[inner] = T!Blank
<1>1. Len(str) \in Nat /\ \A k \in 1..Len(str) : str[k] # T!Nul
  BY NoTerminator
<1>2. T!Blank # T!Nul
  BY NoTerminator
<1>3. ASSUME NEW m \in Int
      PROVE  /\ T!Byte(m) = T!Blank <=> m + 1 \in 1..Len(str) /\ str[m + 1] = T!Blank
             /\ T!Byte(m) = T!Nul <=> m + 1 \notin 1..Len(str)
  BY <1>1, <1>2 DEF T!Byte
<1>4. /\ T!Byte(inner) = T!Blank <=>
           inner + 1 \in 1..Len(str) /\ str[inner + 1] = T!Blank
      /\ T!Byte(inner + 1) = T!Blank <=>
           inner + 2 \in 1..Len(str) /\ str[inner + 2] = T!Blank
      /\ T!Byte(0) = T!Blank <=> 1 \in 1..Len(str) /\ str[1] = T!Blank
      /\ T!Byte(inner) = T!Nul <=> inner + 1 \notin 1..Len(str)
      /\ T!Byte(inner - 1) = T!Blank <=>
           inner \in 1..Len(str) /\ str[inner] = T!Blank
  <2>1. /\ inner \in Int /\ inner + 1 \in Int /\ 0 \in Int /\ inner - 1 \in Int
        /\ (inner + 1) + 1 = inner + 2 /\ (inner - 1) + 1 = inner /\ 0 + 1 = 1
    OBVIOUS
  <2>2. T!Byte(inner + 1) = T!Blank <=>
          (inner + 1) + 1 \in 1..Len(str) /\ str[(inner + 1) + 1] = T!Blank
    BY <1>3, <2>1
  <2>3. T!Byte(inner - 1) = T!Blank <=>
          (inner - 1) + 1 \in 1..Len(str) /\ str[(inner - 1) + 1] = T!Blank
    BY <1>3, <2>1
  <2>4. T!Byte(0) = T!Blank <=> 0 + 1 \in 1..Len(str) /\ str[0 + 1] = T!Blank
    BY <1>3, <2>1
  <2>. QED BY <1>3, <2>1, <2>2, <2>3, <2>4
<1>5. /\ inner + 1 \in 1..Len(str) /\ inner + 2 \in 1..Len(str)
           <=> inner + 1 < Len(str)
      /\ 1 \in 1..Len(str) <=> Len(str) > 0
      /\ inner + 1 \notin 1..Len(str) /\ inner \in 1..Len(str)
           <=> Len(str) > 0 /\ inner = Len(str)
  BY <1>1
<1>6. T!Doubled <=> /\ inner + 1 < Len(str)
                    /\ str[inner + 1] = T!Blank /\ str[inner + 2] = T!Blank
  BY <1>4, <1>5 DEF T!Doubled
<1>7. T!Leading <=> ~T!Doubled /\ Len(str) > 0 /\ str[1] = T!Blank
  BY <1>4, <1>5 DEF T!Leading
<1>8. T!Trailing <=> /\ ~T!Doubled /\ ~T!Leading
                     /\ Len(str) > 0 /\ inner = Len(str) /\ str[inner] = T!Blank
  BY <1>4, <1>5 DEF T!Trailing
<1>. QED BY <1>6, <1>7, <1>8

\* A turn that erases takes one character out, and none that is to be kept.
LEMMA ErasingTurn ==
  ASSUME TrimInv, T!Erase, string' = string, T!Doubled \/ T!Leading \/ T!Trailing
  PROVE  /\ str' \in Seq(Chars) /\ Len(str') = Len(str) - 1
         /\ (\E h : Embeds(h))'
<1>1. PICK h : Embeds(h)
  BY DEF TrimInv
<1>2. /\ string \in Seq(Chars) /\ str \in Seq(Chars) /\ inner \in Nat /\ Len(str) \in Nat
      /\ outer \in 0..Len(string) /\ inner \in 0..outer
  BY DEF TrimInv
<1>3. \E e \in 1..Len(str) : Erased(e) /\ h[e] \notin T!Kept(string)
  <2>1. CASE T!Doubled
    <3>1. inner + 1 < Len(str) /\ str[inner + 1] = T!Blank /\ str[inner + 2] = T!Blank
      BY <1>2, <2>1, Found
    <3>2. inner + 1 \in 1..Len(str) /\ (inner + 1) + 1 = inner + 2 /\ Len(str) > 0
      BY <1>2, <3>1
    <3>3. str' = T!RemoveAt(str, inner + 1)
      BY <2>1 DEF T!Erase, T!Leading, T!Trailing
    <3>4. Erased(inner + 1)
      BY <1>2, <3>2, <3>3, OneErased
    <3>5. str[(inner + 1) + 1] = T!Blank
      BY <3>1, <3>2
    <3>6. h[inner + 1] \notin T!Kept(string)
      BY <1>1, <1>2, <3>1, <3>2, <3>5, NoneMissed
    <3>. QED BY <3>2, <3>4, <3>6
  <2>2. CASE T!Leading
    <3>1. Len(str) > 0 /\ str[1] = T!Blank /\ ~T!Doubled
      BY <1>2, <2>2, Found
    <3>2. str' = Tail(str)
      BY <2>2, <3>1 DEF T!Erase, T!Trailing
    <3>3. 1 \in 1..Len(str)
      BY <1>2, <3>1
    <3>4. Erased(1)
      BY <1>2, <3>1, <3>2, OneErased
    <3>5. h[1] \notin T!Kept(string)
      BY <1>1, <1>2, <3>1, <3>3, NoneMissed
    <3>. QED BY <3>3, <3>4, <3>5
  <2>3. CASE T!Trailing
    <3>1. /\ ~T!Doubled /\ ~T!Leading
          /\ Len(str) > 0 /\ inner = Len(str) /\ str[inner] = T!Blank
      BY <1>2, <2>3, Found
    <3>2. str' = T!Front(str)
      BY <2>3, <3>1 DEF T!Erase
    <3>3. Len(str) \in 1..Len(str) /\ str[Len(str)] = T!Blank
      BY <1>2, <3>1
    <3>4. Erased(Len(str))
      BY <1>2, <3>1, <3>2, OneErased
    <3>5. h[Len(str)] \notin T!Kept(string)
      BY <1>1, <1>2, <3>3, NoneMissed
    <3>. QED BY <3>3, <3>4, <3>5
  <2>. QED BY <2>1, <2>2, <2>3
<1>4. PICK e \in 1..Len(str) : Erased(e) /\ h[e] \notin T!Kept(string)
  BY <1>3
<1>5. (\E g : Embeds(g))'
  BY <1>1, <1>2, <1>4, StillEmbedded
<1>. QED BY <1>4, <1>5 DEF Erased

\* A turn that erases nothing adds one to the turns that would erase nothing.
LEMMA IdleTurn ==
  ASSUME TrimInv, Clean(inner), ~T!Doubled, ~T!Leading, ~T!Trailing
  PROVE  Clean(inner + 1)
<1>1. str \in Seq(Chars) /\ inner \in Nat /\ Len(str) \in Nat
  BY DEF TrimInv
<1>2. ASSUME NEW k \in 1..inner + 1, k < Len(str), str[k] = T!Blank, str[k + 1] = T!Blank
      PROVE  FALSE
  <2>1. k \in 1..inner \/ k = inner + 1
    BY <1>1
  <2>2. CASE k \in 1..inner
    BY <1>2, <2>2 DEF Clean
  <2>3. CASE k = inner + 1
    <3>1. k + 1 = inner + 2
      BY <1>1, <2>3
    <3>. QED BY <1>1, <1>2, <2>3, <3>1, Found
  <2>. QED BY <2>1, <2>2, <2>3
<1>3. Len(str) > 0 => str[1] # T!Blank
  BY <1>1, Found
<1>4. ASSUME Len(str) \in 1..(inner + 1) - 1 PROVE str[Len(str)] # T!Blank
  <2>1. Len(str) \in 1..inner - 1 \/ (Len(str) = inner /\ Len(str) > 0)
    BY <1>1, <1>4
  <2>2. CASE Len(str) \in 1..inner - 1
    BY <2>2 DEF Clean
  <2>3. CASE Len(str) = inner /\ Len(str) > 0
    BY <1>1, <2>3, Found
  <2>. QED BY <2>1, <2>2, <2>3
<1>. QED BY <1>2, <1>3, <1>4 DEF Clean

\* Going on to the next turn keeps count.
LEMMA NextTurn ==
  ASSUME string \in Seq(Chars), str' \in Seq(Chars), string' = string,
         outer \in 0..Len(string), inner \in 0..outer, T!Advance, trimPc = "loop",
         \/ Len(str') - Remaining <= Len(string) - outer
         \/ inner < outer /\ str' = str /\ Clean(inner + 1)
              /\ Len(str) - Remaining <= Len(string) - outer + 1
  PROVE  /\ trimPc' \in {"loop", "done"}
         /\ outer' \in 0..Len(string') /\ inner' \in 0..outer'
         /\ Passes'
<1>1. /\ Len(string) \in Nat /\ Len(str') \in Nat /\ Remaining \in Nat
      /\ outer \in Nat /\ inner \in Nat /\ outer <= Len(string) /\ inner <= outer
  BY KeptFinite
<1>2. Remaining' = Remaining
  BY DEF Remaining, T!Kept, T!Blank
<1>3. CASE inner < outer
  <2>1. inner' = inner + 1 /\ outer' = outer /\ trimPc' = trimPc
    BY <1>3 DEF T!Advance
  <2>2. outer' \in 0..Len(string') /\ inner' \in 0..outer'
    BY <1>1, <1>3, <2>1
  <2>3. Len(str') - Remaining <= Len(string) - outer + 1
    BY <1>1
  <2>4. Len(str') - Remaining <= Len(string) - outer \/ Clean(inner)'
    BY <1>1, <2>1 DEF Clean, T!Blank
  <2>. QED BY <1>2, <2>1, <2>2, <2>3, <2>4 DEF Passes
<1>4. CASE ~(inner < outer) /\ outer < Len(string)
  <2>1. inner' = 0 /\ outer' = outer + 1 /\ trimPc' = trimPc
    BY <1>4 DEF T!Advance, T!size
  <2>2. outer' \in 0..Len(string') /\ inner' \in 0..outer'
    BY <1>1, <1>4, <2>1
  <2>3. Len(str') - Remaining <= Len(string) - outer
    BY <1>4
  <2>4. Len(str') - Remaining <= Len(string) - (outer + 1) + 1
    BY <1>1, <2>3
  <2>5. Clean(inner)'
    BY <2>1 DEF Clean
  <2>. QED BY <1>2, <2>1, <2>2, <2>4, <2>5 DEF Passes
<1>5. CASE ~(inner < outer) /\ ~(outer < Len(string))
  <2>1. inner' = inner /\ outer' = outer /\ trimPc' = "done"
    BY <1>5 DEF T!Advance, T!size
  <2>2. Len(str') <= Remaining
    BY <1>1, <1>5
  <2>. QED BY <1>2, <2>1, <2>2 DEF Passes
<1>. QED BY <1>3, <1>4, <1>5

\* Every turn keeps the invariant.
LEMMA TrimGoesOn == TrimInv /\ [T!Next]_T!vars => TrimInv'
<1>. SUFFICES ASSUME TrimInv, [T!Next]_T!vars PROVE TrimInv'
  OBVIOUS
<1>1. CASE T!Turn
  <2>1. /\ string \in Seq(Chars) /\ str \in Seq(Chars) /\ Len(str) <= Len(string)
        /\ Len(str) \in Nat /\ Len(string) \in Nat
        /\ outer \in 0..Len(string) /\ inner \in 0..outer /\ \E h : Embeds(h)
    BY DEF TrimInv
  <2>2. string' = string /\ trimPc = "loop" /\ T!Erase /\ T!Advance
    BY <1>1 DEF T!Turn
  <2>3. Remaining \in Nat
    BY <2>1, KeptFinite
  <2>4. /\ Len(str) - Remaining <= Len(string) - outer + 1
        /\ Len(str) - Remaining <= Len(string) - outer \/ Clean(inner)
    BY <2>2 DEF TrimInv, Passes
  <2>5. CASE T!Doubled \/ T!Leading \/ T!Trailing
    <3>1. str' \in Seq(Chars) /\ Len(str') = Len(str) - 1 /\ (\E h : Embeds(h))'
      BY <2>2, <2>5, ErasingTurn
    <3>2. Len(str') - Remaining <= Len(string) - outer /\ Len(str') <= Len(string)
      BY <2>1, <2>3, <2>4, <3>1
    <3>3. /\ trimPc' \in {"loop", "done"}
          /\ outer' \in 0..Len(string') /\ inner' \in 0..outer' /\ Passes'
      BY <2>1, <2>2, <3>1, <3>2, NextTurn
    <3>. QED BY <2>1, <2>2, <3>1, <3>2, <3>3 DEF TrimInv
  <2>6. CASE ~T!Doubled /\ ~T!Leading /\ ~T!Trailing
    <3>1. str' = str
      BY <2>2, <2>6 DEF T!Erase
    <3>2. Clean(inner) => Clean(inner + 1)
      BY <2>6, IdleTurn
    <3>3. \/ Len(str) - Remaining <= Len(string) - outer
          \/ inner < outer /\ Clean(inner + 1)
      <4>1. CASE Len(str) - Remaining <= Len(string) - outer
        BY <4>1
      <4>2. CASE Clean(inner) /\ inner < outer
        BY <3>2, <4>2
      <4>3. CASE Clean(inner) /\ ~(inner < outer)
        <5>1. inner = outer
          BY <2>1, <4>3
        <5>2. Clean(outer + 1)
          BY <3>2, <4>3, <5>1
        <5>. QED BY <5>2, CleanPass
      <4>. QED BY <2>4, <4>1, <4>2, <4>3
    <3>4. \/ Len(str') - Remaining <= Len(string) - outer
          \/ inner < outer /\ str' = str /\ Clean(inner + 1)
               /\ Len(str) - Remaining <= Len(string) - outer + 1
      BY <2>4, <3>1, <3>3
    <3>5. /\ trimPc' \in {"loop", "done"}
          /\ outer' \in 0..Len(string') /\ inner' \in 0..outer' /\ Passes'
      BY <2>1, <2>2, <3>1, <3>4, NextTurn
    <3>6. (\E h : Embeds(h))'
      <4>1. PICK h : Embeds(h)
        BY <2>1
      <4>2. Embeds(h)'
        BY <2>2, <3>1, <4>1 DEF Embeds, T!Kept, T!Blank
      <4>. QED BY <4>2
    <3>. QED BY <2>1, <2>2, <3>1, <3>5, <3>6 DEF TrimInv
  <2>. QED BY <2>5, <2>6
<1>2. CASE UNCHANGED T!vars
  <2>1. /\ string' = string /\ str' = str /\ outer' = outer /\ inner' = inner
        /\ trimPc' = trimPc
    BY <1>2 DEF T!vars
  <2>2. (\E h : Embeds(h))' <=> \E h : Embeds(h)
    BY <2>1 DEF Embeds, T!Kept, T!Blank
  <2>3. Remaining' = Remaining
    BY <2>1 DEF Remaining, T!Kept, T!Blank
  <2>4. Passes'
    BY <2>1, <2>3 DEF TrimInv, Passes, Clean, T!Blank
  <2>. QED BY <2>1, <2>2, <2>4 DEF TrimInv
<1>. QED BY <1>1, <1>2 DEF T!Next

\* With all passes made, what is left is what is to be kept: the k-th character left is
\* the k-th of those.
LEMMA TrimEnds == TrimInv => IsTrimmed
<1>. SUFFICES ASSUME TrimInv, trimPc = "done" PROVE str = T!Trimmed(string)
  BY DEF IsTrimmed, T!IsTrimmed
<1>. DEFINE n == Len(str)
            kept == T!Kept(string)
<1>1. PICK h : Embeds(h)
  BY DEF TrimInv
<1>2. string \in Seq(Chars) /\ str \in Seq(Chars) /\ n \in Nat /\ n <= Remaining
  BY DEF TrimInv, Passes
<1>3. /\ \A k \in 1..n : h[k] \in Int /\ str[k] = string[h[k]]
      /\ \A k, l \in 1..n : k < l => h[k] < h[l]
      /\ \A p \in kept : \E k \in 1..n : h[k] = p
  BY <1>1 DEF Embeds
<1>4. \A k, l \in 1..n : (h[k] = h[l] => k = l) /\ (h[k] <= h[l] <=> k <= l)
  BY <1>2, <1>3, Ordered
<1>5. Cardinality(kept) = n /\ \A k \in 1..n : h[k] \in kept
  <2>. DEFINE S == {h[k] : k \in 1..n}
              g == [k \in 1..n |-> h[k]]
  <2>1. /\ g \in [1..n -> S] /\ \A k, l \in 1..n : g[k] = g[l] => k = l
        /\ \A s \in S : \E k \in 1..n : g[k] = s
    BY <1>4
  <2>2. kept \in SUBSET S
    BY <1>3
  <2>3. \A k \in 1..n : h[k] \in S
    OBVIOUS
  <2>. HIDE DEF S, g, n, kept
  <2>4. IsFiniteSet(S) /\ Cardinality(S) = n
    BY <1>2, <2>1, Numbered
  <2>5. n <= Cardinality(kept) /\ Cardinality(kept) \in Nat
    BY <1>2, KeptFinite DEF Remaining, kept
  <2>6. Cardinality(kept) <= Cardinality(S) /\ (Cardinality(kept) = Cardinality(S) => kept = S)
    BY <2>2, <2>4, FS_Subset
  <2>7. Cardinality(kept) = n
    BY <1>2, <2>4, <2>5, <2>6
  <2>. QED BY <2>3, <2>4, <2>6, <2>7
<1>6. ASSUME NEW k \in 1..n PROVE T!Rank(h[k], kept) = k
  <2>. DEFINE U == {m \in kept : m <= h[k]}
              g == [l \in 1..k |-> h[l]]
  <2>1. k \in Nat /\ \A l \in 1..k : l \in 1..n /\ l <= k
    BY <1>2
  <2>2. \A l \in 1..k : h[l] \in U
    BY <1>4, <1>5, <2>1
  <2>3. \A l, m \in 1..k : g[l] = g[m] => l = m
    BY <1>4, <2>1
  <2>4. ASSUME NEW s \in U PROVE \E l \in 1..k : g[l] = s
    <3>1. PICK l \in 1..n : h[l] = s
      BY <1>3
    <3>2. l <= k
      BY <1>4, <3>1
    <3>3. l \in 1..k
      BY <1>2, <3>2
    <3>. QED BY <3>1, <3>3
  <2>5. g \in [1..k -> U]
    BY <2>2
  <2>6. T!Rank(h[k], kept) = Cardinality(U)
    BY SameCardinality DEF T!Rank
  <2>. HIDE DEF U, g
  <2>7. Cardinality(U) = k
    BY <2>1, <2>3, <2>4, <2>5, Numbered
  <2>. QED BY <2>6, <2>7
<1>. DEFINE place(k) == CHOOSE p \in kept : T!Rank(p, kept) = k
<1>7. ASSUME NEW k \in 1..n PROVE place(k) = h[k]
  <2>1. place(k) \in kept /\ T!Rank(place(k), kept) = k
    <3>1. h[k] \in kept /\ T!Rank(h[k], kept) = k
      BY <1>5, <1>6
    <3>. HIDE DEF kept
    <3>. QED BY <3>1
  <2>2. PICK l \in 1..n : h[l] = place(k)
    BY <1>3, <2>1
  <2>3. T!Rank(h[l], kept) = l
    BY <1>6
  <2>. QED BY <2>1, <2>2, <2>3
<1>8. T!Trimmed(string) = [k \in 1..n |-> string[place(k)]]
  <2>1. T!Cardinality(kept) = n
    BY <1>5, SameCardinality
  <2>. HIDE DEF n
  <2>. QED BY <2>1 DEF T!Trimmed
<1>. HIDE DEF place
<1>9. \A k \in 1..n : string[place(k)] = str[k]
  BY <1>3, <1>7
<1>10. str = [k \in 1..n |-> str[k]]
  BY <1>2
<1>. QED BY <1>8, <1>9, <1>10

\* Trimming a string gives the string without its outer blanks, with single inner ones:
\* the passes are enough, and none erases what is to be kept (config.cpp:22-39).
THEOREM BlanksTrimmed == T!Spec => []IsTrimmed
<1>. QED BY TrimBegins, TrimGoesOn, TrimEnds, PTL DEF T!Spec
=============================================================================
