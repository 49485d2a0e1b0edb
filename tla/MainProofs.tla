----------------------------- MODULE MainProofs -----------------------------
(***************************************************************************)
(* Proofs about Config and Main, for every set of files and tokens and     *)
(* every command line.                                                     *)
(***************************************************************************)
EXTENDS Main, FiniteSetTheorems, TLAPS

\* A greatest element that is greater than all the others is the one chosen.
LEMMA LatestIs ==
  ASSUME NEW S \in SUBSET Nat, NEW k \in S, \A m \in S : m <= k
  PROVE  Latest(S) = k
<1>1. \A l \in S : (\A m \in S : m <= l) => l = k
  OBVIOUS
<1>. QED BY <1>1 DEF Latest

\* What one more line does to the lines that give a property.
LEMMA GiversNext ==
  ASSUME NEW ls \in Seq(Lines), NEW n \in Nat, n < Len(ls), NEW name
  PROVE  Givers(ls, n + 1, name) =
           IF ls[n + 1].kind = "text" /\ ls[n + 1].name = name
           THEN Givers(ls, n, name) \cup {n + 1}
           ELSE Givers(ls, n, name)
<1>1. \A k : k \in 1..n + 1 <=> k \in 1..n \/ k = n + 1
  OBVIOUS
<1>. QED BY <1>1 DEF Givers

\* ... and to the section that follows.
LEMMA SectionNext ==
  ASSUME NEW ls \in Seq(Lines), NEW n \in Nat, n < Len(ls)
  PROVE  SectionAfter(ls, n + 1) =
           IF ls[n + 1].kind = "section" THEN ls[n + 1].name ELSE SectionAfter(ls, n)
<1>1. \A k : k \in 1..n + 1 <=> k \in 1..n \/ k = n + 1
  OBVIOUS
<1>2. CASE ls[n + 1].kind = "section"
  <2>1. Heads(ls, n + 1) = Heads(ls, n) \cup {n + 1}
    BY <1>1, <1>2 DEF Heads
  <2>2. Heads(ls, n + 1) \in SUBSET Nat /\ \A m \in Heads(ls, n + 1) : m <= n + 1
    BY DEF Heads
  <2>3. Latest(Heads(ls, n + 1)) = n + 1
    BY <2>1, <2>2, LatestIs
  <2>. QED BY <1>2, <2>1, <2>3 DEF SectionAfter
<1>3. CASE ls[n + 1].kind # "section"
  <2>1. Heads(ls, n + 1) = Heads(ls, n)
    BY <1>1, <1>3 DEF Heads
  <2>. QED BY <1>3, <2>1 DEF SectionAfter
<1>. QED BY <1>2, <1>3

\* ... and to the lines that give an address.
LEMMA GiversInNext ==
  ASSUME NEW ls \in Seq(Lines), NEW n \in Nat, n < Len(ls), NEW section, NEW name
  PROVE  GiversIn(ls, n + 1, section, name) =
           IF ls[n + 1].kind = "text" /\ ls[n + 1].name = name /\ SectionAfter(ls, n) = section
           THEN GiversIn(ls, n, section, name) \cup {n + 1}
           ELSE GiversIn(ls, n, section, name)
<1>1. (n + 1) - 1 = n
  OBVIOUS
<1>. QED BY <1>1, GiversNext, ZenonT(30) DEF GiversIn

\* Where the givers are.
LEMMA GiversRange ==
  ASSUME NEW ls, NEW n \in Nat, NEW section, NEW name
  PROVE  /\ Givers(ls, n, name) \subseteq 1..n
         /\ GiversIn(ls, n, section, name) \subseteq 1..n
         /\ Givers(ls, 0, name) = {}
         /\ GiversIn(ls, 0, section, name) = {}
BY DEF Givers, GiversIn

\* A line that gives a property settles it, another leaves it as it was.
LEMMA GivenNext ==
  ASSUME NEW ls, NEW n \in Nat, NEW S \in SUBSET (1..n), NEW default
  PROVE  /\ Latest(S \cup {n + 1}) = n + 1
         /\ Given(S \cup {n + 1}, ls, default) = ls[n + 1].value
<1>1. S \cup {n + 1} \in SUBSET Nat /\ \A m \in S \cup {n + 1} : m <= n + 1
  OBVIOUS
<1>2. Latest(S \cup {n + 1}) = n + 1
  BY <1>1, LatestIs
<1>. QED BY <1>2 DEF Given

\* A line of the agent's file.
LEMMA OwnNext ==
  ASSUME NEW n \in Nat, own \in Seq(Lines), n < Len(own), own' = own, OwnAsWritten(n),
         LET l == own[n + 1]
         IN  /\ heartbeat_interval' =
                  Assign(l, "heartbeat_interval", Number[l.value], heartbeat_interval)
             /\ server_url' = Assign(l, "server_url", l.value, server_url)
             /\ validator_config_path' =
                  Assign(l, "validator_config", l.value, validator_config_path)
  PROVE  OwnAsWritten(n + 1)'
<1>. DEFINE l == own[n + 1]
            G(name) == Givers(own, n, name)
            H(name) == Givers(own, n + 1, name)
<1>1. \A name : H(name) = IF l.kind = "text" /\ l.name = name THEN G(name) \cup {n + 1} ELSE G(name)
  BY GiversNext
<1>2. \A name : G(name) \in SUBSET (1..n)
  BY GiversRange
<1>3. \A name, default : l.kind = "text" /\ l.name = name =>
        Latest(H(name)) = n + 1 /\ H(name) # {} /\ Given(H(name), own, default) = l.value
  <2>. SUFFICES ASSUME NEW name, NEW default, l.kind = "text" /\ l.name = name
                PROVE  /\ Latest(H(name)) = n + 1 /\ H(name) # {}
                       /\ Given(H(name), own, default) = l.value
    OBVIOUS
  <2>1. H(name) = G(name) \cup {n + 1}
    BY <1>1
  <2>2. G(name) \in SUBSET (1..n)
    BY <1>2
  <2>. HIDE DEF G, H
  <2>3. Latest(H(name)) = n + 1 /\ H(name) # {}
    BY <2>1, <2>2, GivenNext
  <2>4. Given(G(name) \cup {n + 1}, own, default) = own[n + 1].value
    BY <2>2, GivenNext, Zenon
  <2>5. Given(H(name), own, default) = l.value
    BY <2>1, <2>4, Zenon
  <2>. QED BY <2>3, <2>5
<1>4. \A name, default : ~(l.kind = "text" /\ l.name = name) =>
        H(name) = G(name) /\ Given(H(name), own, default) = Given(G(name), own, default)
  BY <1>1
<1>. HIDE DEF G, H, l
<1>5. server_url' = Given(H("server_url"), own, "")
  BY <1>3, <1>4 DEF OwnAsWritten, Assign, G, H, l
<1>6. validator_config_path' = Given(H("validator_config"), own, "")
  BY <1>3, <1>4 DEF OwnAsWritten, Assign, G, H, l
<1>7. heartbeat_interval' = IF H("heartbeat_interval") = {} THEN 5
                            ELSE Number[own[Latest(H("heartbeat_interval"))].value]
  BY <1>3, <1>4 DEF OwnAsWritten, Assign, G, H, l
<1>. QED BY <1>5, <1>6, <1>7 DEF OwnAsWritten, H

\* A line of the validator's file.
LEMMA TheirsNext ==
  ASSUME NEW n \in Nat, theirs \in Seq(Lines), n < Len(theirs), theirs' = theirs,
         TheirsAsWritten(n), strSection = SectionAfter(theirs, n),
         LET l == theirs[n + 1]
         IN  IF strSection = VALIDATOR_RPC_SECTION
             THEN /\ validator_rpc_ip' = Assign(l, "ip", l.value, validator_rpc_ip)
                  /\ validator_rpc_port' = Assign(l, "port", l.value, validator_rpc_port)
             ELSE UNCHANGED rpc
  PROVE  TheirsAsWritten(n + 1)'
<1>. DEFINE l == theirs[n + 1]
            G(name) == GiversIn(theirs, n, VALIDATOR_RPC_SECTION, name)
            H(name) == GiversIn(theirs, n + 1, VALIDATOR_RPC_SECTION, name)
            gives(name) == /\ l.kind = "text" /\ l.name = name
                           /\ strSection = VALIDATOR_RPC_SECTION
<1>1. ASSUME NEW name
      PROVE  H(name) = IF gives(name) THEN G(name) \cup {n + 1} ELSE G(name)
  BY GiversInNext, ZenonT(30)
<1>2. \A name : G(name) \in SUBSET (1..n)
  BY GiversRange
<1>3. ASSUME NEW name, NEW default, gives(name)
      PROVE  Given(H(name), theirs, default) = l.value
  <2>1. H(name) = G(name) \cup {n + 1}
    BY <1>1, <1>3
  <2>2. G(name) \in SUBSET (1..n)
    BY <1>2
  <2>. HIDE DEF G, H
  <2>. QED BY <2>1, <2>2, GivenNext, ZenonT(30)
<1>4. ASSUME NEW name, NEW default, ~gives(name)
      PROVE  Given(H(name), theirs, default) = Given(G(name), theirs, default)
  BY <1>1, <1>4, Zenon
<1>. HIDE DEF G, H, l
<1>5. validator_rpc_ip' = Given(H("ip"), theirs, "127.0.0.1")
  BY <1>3, <1>4 DEF TheirsAsWritten, Assign, G, l, rpc
<1>6. validator_rpc_port' = Given(H("port"), theirs, "5005")
  BY <1>3, <1>4 DEF TheirsAsWritten, Assign, G, l, rpc
<1>. QED BY <1>5, <1>6 DEF TheirsAsWritten, H

-----------------------------------------------------------------------------
(* The invariant.                                                           *)

\* No line has been read yet.
LEMMA NothingRead ==
  ASSUME Defaults
  PROVE  OwnAsWritten(0) /\ TheirsAsWritten(0)
<1>1. \A ls, section, name : Givers(ls, 0, name) = {} /\ GiversIn(ls, 0, section, name) = {}
  BY GiversRange
<1>. QED BY <1>1, Zenon DEF OwnAsWritten, TheirsAsWritten, Given, Defaults

\* A file that can be opened is a sequence of lines.
LEMMA ContentLines ==
  ASSUME TypeOK, NEW path, Content(path) # Missing
  PROVE  Content(path) \in Seq(Lines)
BY DEF TypeOK, Content

\* A line has a name and a value, and the value of an interval a number.
LEMMA LineFields ==
  ASSUME NEW ls \in Seq(Lines), NEW k \in 1..Len(ls)
  PROVE  /\ ls[k] \in Lines /\ ls[k].name \in Words /\ ls[k].value \in Words
         /\ Number[ls[k].value] \in Int
<1>1. ls[k] \in Lines
  OBVIOUS
<1>2. ls[k].name \in Words /\ ls[k].value \in Words
  BY <1>1 DEF Words, Values
<1>3. ls[k].value \in Values
  BY <1>1 DEF Values
<1>. QED BY <1>1, <1>2, <1>3, LinesAssumption

\* Initially the members have their defaults.
LEMMA InitIndInv ==
  ASSUME pc = "open", disk \in Disks, Defaults
  PROVE  IndInv
<1>1. TypeOK
  <2>1. \A p \in DOMAIN disk : disk[p] # Missing => disk[p] \in Seq(Lines)
    BY DisksAssumption, Zenon
  <2>2. /\ {server_url, validator_config_path, strSection} \subseteq Words
        /\ {validator_rpc_ip, validator_rpc_port, validation_secret_key} \subseteq Words
    <3>1. "" \in Words /\ "127.0.0.1" \in Words /\ "5005" \in Words
      BY DEF Words
    <3>. QED BY <3>1, Zenon DEF Defaults
  <2>3. at \in Nat /\ heartbeat_interval \in Int /\ validatorToken \in Seq(Lines)
    <3>1. at = 0 /\ heartbeat_interval = 5 /\ validatorToken = <<>>
      BY Zenon DEF Defaults
    <3>2. <<>> \in Seq(Lines)
      OBVIOUS
    <3>. QED BY <3>1, <3>2
  <2>. QED BY <2>1, <2>2, <2>3, Zenon DEF Defaults, TypeOK
<1>2. ReadSoFar
  BY NothingRead DEF Defaults, ReadSoFar
<1>. QED BY <1>1, <1>2 DEF IndInv

\* Opening a file keeps the invariant.
LEMMA OpenIndInv == IndInv /\ Open => IndInv'
<1>. SUFFICES ASSUME IndInv, Open PROVE IndInv'
  OBVIOUS
<1>. USE DEF IndInv
<1>1. own' # Missing => own' \in Seq(Lines)
  BY ContentLines DEF Open
<1>2. TypeOK'
  <2>1. /\ pc' = "threw" \/ (pc' = "own" /\ own' \in Seq(Lines))
        /\ at' = 0 /\ disk' = disk
    BY <1>1 DEF ReadSoFar, Open, Throw
  <2>2. pc' = "own" => Len(own') \in Nat
    BY <2>1
  <2>3. \A p \in DOMAIN disk' : disk'[p] # Missing => disk'[p] \in Seq(Lines)
    BY <2>1, Zenon DEF TypeOK
  <2>4. /\ heartbeat_interval' \in Int
        /\ {server_url, validator_config_path, strSection}' \subseteq Words
        /\ {validator_rpc_ip, validator_rpc_port, validation_secret_key}' \subseteq Words
        /\ validatorToken' \in Seq(Lines)
    BY Zenon DEF TypeOK, Open, properties, rpc
  <2>. QED BY <2>1, <2>2, <2>3, <2>4 DEF TypeOK
<1>3. OwnAsWritten(0)'
  <2>1. \A ls, name : Givers(ls, 0, name) = {}
    BY GiversRange
  <2>2. heartbeat_interval = 5 /\ server_url = "" /\ validator_config_path = ""
    <3>1. OwnAsWritten(0)
      BY DEF ReadSoFar, Open
    <3>. QED BY <2>1, <3>1, Zenon DEF OwnAsWritten, Given
  <2>3. heartbeat_interval' = 5 /\ server_url' = "" /\ validator_config_path' = ""
    BY <2>2 DEF Open, properties
  <2>. QED BY <2>1, <2>3, Zenon DEF OwnAsWritten, Given
<1>4. ReadSoFar'
  BY <1>3 DEF ReadSoFar, Open, Throw, properties, rpc
<1>. QED BY <1>2, <1>4

\* Reading a line of the agent's file keeps the invariant.
LEMMA ReadOwnIndInv == IndInv /\ ReadOwn => IndInv'
<1>. SUFFICES ASSUME IndInv, ReadOwn PROVE IndInv'
  OBVIOUS
<1>. USE DEF IndInv
<1>1. /\ own \in Seq(Lines) /\ at \in Nat /\ at < Len(own) /\ pc = "own"
      /\ own' = own /\ pc' = pc /\ at' = at + 1
  BY DEF TypeOK, ReadOwn, files
<1>2. PICK n \in Nat : n = at
  BY <1>1
<1>3. OwnAsWritten(at)'
  <2>1. OwnAsWritten(n)
    BY <1>1, <1>2 DEF ReadSoFar
  <2>2. OwnAsWritten(n + 1)'
    BY <1>1, <1>2, <2>1, OwnNext DEF ReadOwn
  <2>. QED BY <1>1, <1>2, <2>2 DEF OwnAsWritten
<1>4. TypeOK'
  <2>1. /\ own[at + 1].value \in Words /\ Number[own[at + 1].value] \in Int
    BY <1>1, LineFields
  <2>2. /\ heartbeat_interval' \in Int
        /\ server_url' \in Words /\ validator_config_path' \in Words
    BY <2>1 DEF TypeOK, ReadOwn, Assign
  <2>. QED BY <1>1, <2>2 DEF TypeOK, ReadOwn, files, rpc
<1>5. ReadSoFar'
  BY <1>1, <1>3 DEF ReadSoFar, ReadOwn, files, rpc
<1>. QED BY <1>4, <1>5

\* Validating and opening the validator's file keep the invariant.
LEMMA ValidateIndInv == IndInv /\ (Validate \/ OpenValidator) => IndInv'
<1>. USE DEF IndInv
<1>1. ASSUME IndInv, Validate PROVE IndInv'
  <2>1. TypeOK'
    BY <1>1 DEF TypeOK, Validate, Throw, files, properties, rpc
  <2>2. OwnAsWritten(Len(own))'
    BY <1>1 DEF ReadSoFar, Validate, OwnAsWritten, files, properties
  <2>3. ReadSoFar'
    BY <1>1, <2>2 DEF ReadSoFar, Validate, Throw, files, properties, rpc
  <2>. QED BY <2>1, <2>3
<1>2. ASSUME IndInv, OpenValidator PROVE IndInv'
  <2>1. theirs' # Missing => theirs' \in Seq(Lines)
    BY <1>2, ContentLines DEF OpenValidator
  <2>2. TypeOK'
    BY <1>2, <2>1 DEF TypeOK, OpenValidator, Throw, properties, rpc
  <2>3. OwnAsWritten(Len(own))'
    BY <1>2 DEF ReadSoFar, OpenValidator, OwnAsWritten, properties
  <2>4. TheirsAsWritten(0)' /\ strSection' = SectionAfter(theirs', 0)
    <3>1. \A ls, section, name : GiversIn(ls, 0, section, name) = {}
      BY GiversRange
    <3>2. \A ls : SectionAfter(ls, 0) = ""
      BY DEF SectionAfter, Heads
    <3>3. validator_rpc_ip' = "127.0.0.1" /\ validator_rpc_port' = "5005" /\ strSection' = ""
      BY <1>2 DEF ReadSoFar, OpenValidator, rpc
    <3>. QED BY <3>1, <3>2, <3>3, Zenon DEF TheirsAsWritten, Given
  <2>5. TheirsAsWritten(at)' /\ strSection' = SectionAfter(theirs, at)'
    BY <1>2, <2>4 DEF OpenValidator, TheirsAsWritten
  <2>6. ReadSoFar'
    BY <1>2, <2>3, <2>5 DEF ReadSoFar, OpenValidator, Throw
  <2>. QED BY <2>2, <2>6
<1>. QED BY <1>1, <1>2

\* Reading a line of the validator's file keeps the invariant.
LEMMA ReadTheirsIndInv == IndInv /\ ReadTheirs => IndInv'
<1>. SUFFICES ASSUME IndInv, ReadTheirs PROVE IndInv'
  OBVIOUS
<1>. USE DEF IndInv
<1>1. /\ theirs \in Seq(Lines) /\ at \in Nat /\ at < Len(theirs) /\ pc = "theirs"
      /\ theirs' = theirs /\ own' = own /\ pc' = pc /\ at' = at + 1
      /\ UNCHANGED properties
  BY DEF TypeOK, ReadTheirs, files
<1>2. TheirsAsWritten(at) /\ strSection = SectionAfter(theirs, at)
  BY <1>1 DEF ReadSoFar
<1>3. PICK n \in Nat : n = at
  BY <1>1
<1>4. TheirsAsWritten(at)'
  <2>1. TheirsAsWritten(n) /\ strSection = SectionAfter(theirs, n)
    BY <1>2, <1>3
  <2>2. TheirsAsWritten(n + 1)'
    BY <1>1, <1>3, <2>1, TheirsNext DEF ReadTheirs
  <2>. QED BY <1>1, <1>3, <2>2 DEF TheirsAsWritten
<1>5. strSection' = SectionAfter(theirs, at)'
  <2>1. strSection' = IF theirs[at + 1].kind = "section" THEN theirs[at + 1].name ELSE strSection
    BY DEF ReadTheirs
  <2>2. strSection' = SectionAfter(theirs, at + 1)
    BY <1>1, <1>2, <2>1, SectionNext
  <2>. QED BY <1>1, <2>2
<1>6. OwnAsWritten(Len(own))'
  BY <1>1 DEF ReadSoFar, OwnAsWritten, properties
<1>7. TypeOK'
  <2>1. theirs[at + 1] \in Lines /\ theirs[at + 1].name \in Words /\ theirs[at + 1].value \in Words
    BY <1>1, LineFields
  <2>2. strSection' \in Words /\ validator_rpc_ip' \in Words /\ validator_rpc_port' \in Words
    BY <2>1 DEF TypeOK, ReadTheirs, Assign, rpc
  <2>3. validatorToken' \in Seq(Lines)
    BY <2>1 DEF TypeOK, ReadTheirs
  <2>. QED BY <1>1, <2>2, <2>3 DEF TypeOK, ReadTheirs, files, properties
<1>8. ReadSoFar'
  BY <1>1, <1>4, <1>5, <1>6 DEF ReadSoFar
<1>. QED BY <1>7, <1>8

\* Decoding the token keeps the invariant.
LEMMA DecodeIndInv == IndInv /\ Decode => IndInv'
<1>. SUFFICES ASSUME IndInv, Decode PROVE IndInv'
  OBVIOUS
<1>. USE DEF IndInv
<1>1. validation_secret_key' \in Words
  <2>1. \A t \in Parses(validatorToken) : Secrets[t] \in Words
    BY DEF Parses, Words
  <2>. QED BY <2>1 DEF TypeOK, Decode
<1>2. TypeOK'
  BY <1>1 DEF TypeOK, Decode, Throw, files, properties, rpc
<1>3. OwnAsWritten(Len(own))' /\ TheirsAsWritten(Len(theirs))'
  BY DEF ReadSoFar, Decode, OwnAsWritten, TheirsAsWritten, files, properties, rpc
<1>4. ReadSoFar'
  BY <1>3 DEF ReadSoFar, Decode, Throw
<1>. QED BY <1>2, <1>4

\* A step of the constructor keeps the invariant.
LEMMA NextIndInv == IndInv /\ [Next]_vars => IndInv'
<1>1. IndInv /\ UNCHANGED vars => IndInv'
  BY DEF IndInv, TypeOK, ReadSoFar, OwnAsWritten, TheirsAsWritten, vars, files, properties, rpc
<1>. QED
  BY <1>1, OpenIndInv, ReadOwnIndInv, ValidateIndInv, ReadTheirsIndInv, DecodeIndInv
     DEF Next, Construct

\* The invariant holds always.
LEMMA SpecIndInv == Spec => []IndInv
<1>1. Init => IndInv
  BY InitIndInv DEF Init
<1>. QED BY <1>1, NextIndInv, PTL DEF Spec

\* The variables keep their ranges.
THEOREM TypeCorrect == Spec => []TypeOK
BY SpecIndInv, PTL DEF IndInv

\* For every pair of files, the members are what the last line that counts says.
THEOREM AsWritten == Spec => []PropertiesAsWritten
<1>1. IndInv => PropertiesAsWritten
  BY DEF IndInv, ReadSoFar, PropertiesAsWritten
<1>. QED BY <1>1, SpecIndInv, PTL

-----------------------------------------------------------------------------
(* The token                                                                 *)

\* One more number, greater than all the others, is the last of them.
LEMMA PlaceNext ==
  ASSUME NEW n \in Nat, NEW S \in SUBSET (1..n), NEW Q, Q = S \cup {n + 1}
  PROVE  /\ Cardinality(S) \in Nat /\ Cardinality(Q) = Cardinality(S) + 1
         /\ Place(Q, Cardinality(S) + 1) = n + 1
         /\ \A j \in 1..Cardinality(S) : Place(Q, j) = Place(S, j)
<1>. DEFINE c == Cardinality(S)
            Upto(T, k) == {m \in T : m <= k}
            Rank(T, j) == {k \in T : Cardinality(Upto(T, k)) = j}
<1>1. IsFiniteSet(S) /\ c \in Nat
  <2>1. IsFiniteSet(1..n)
    BY FS_Interval
  <2>. QED BY <2>1, FS_Subset, FS_CardinalityType
<1>2. Cardinality(Q) = c + 1
  <2>1. n + 1 \notin S
    OBVIOUS
  <2>. QED BY <1>1, <2>1, FS_AddElement
<1>3. Upto(Q, n + 1) = Q
  <2>1. \A m \in Q : m <= n + 1
    OBVIOUS
  <2>. QED BY <2>1
<1>4. \A k \in S : Upto(Q, k) = Upto(S, k)
  OBVIOUS
<1>5. \A k \in S : Cardinality(Upto(S, k)) <= c /\ Cardinality(Upto(S, k)) \in Nat
  <2>. SUFFICES ASSUME NEW k \in S
                PROVE  Cardinality(Upto(S, k)) <= c /\ Cardinality(Upto(S, k)) \in Nat
    OBVIOUS
  <2>1. Upto(S, k) \in SUBSET S
    OBVIOUS
  <2>. HIDE DEF Upto
  <2>. QED BY <1>1, <2>1, FS_Subset, FS_CardinalityType
<1>. HIDE DEF c, Upto
<1>6. Rank(Q, c + 1) = {n + 1}
  <2>1. \A k \in S : Cardinality(Upto(Q, k)) # c + 1
    <3>1. \A x \in Nat : x <= c => x # c + 1
      BY <1>1
    <3>. QED BY <1>4, <1>5, <3>1, Zenon
  <2>2. Cardinality(Upto(Q, n + 1)) = c + 1
    BY <1>2, <1>3, Zenon
  <2>. QED BY <2>1, <2>2, Zenon
<1>7. ASSUME NEW j \in 1..c PROVE Rank(Q, j) = Rank(S, j)
  <2>1. Cardinality(Upto(Q, n + 1)) # j
    <3>1. c + 1 # j
      BY <1>1
    <3>. QED BY <1>2, <1>3, <3>1, Zenon
  <2>. QED BY <1>4, <2>1, Zenon
<1>8. \A T, j : Place(T, j) = CHOOSE k \in Rank(T, j) : TRUE
  BY DEF Place, Upto
<1>. HIDE DEF Rank
<1>9. Place(Q, c + 1) = n + 1
  BY <1>6, <1>8
<1>10. \A j \in 1..c : Place(Q, j) = Place(S, j)
  BY <1>7, <1>8
<1>. QED BY <1>1, <1>2, <1>9, <1>10 DEF c

\* What one more line does to the token.
LEMMA TokenNext ==
  ASSUME NEW ls \in Seq(Lines), NEW n \in Nat, n < Len(ls)
  PROVE  TokenLines(ls, n + 1) =
           IF ls[n + 1].kind = "text" /\ SectionAfter(ls, n) = VALIDATOR_TOKEN_SECTION
           THEN Append(TokenLines(ls, n), ls[n + 1])
           ELSE TokenLines(ls, n)
<1>. DEFINE S == TokenPlaces(ls, n)
            Q == TokenPlaces(ls, n + 1)
            in == ls[n + 1].kind = "text" /\ SectionAfter(ls, n) = VALIDATOR_TOKEN_SECTION
            c == Cardinality(S)
<1>1. Q = IF in THEN S \cup {n + 1} ELSE S
  <2>1. \A k : k \in 1..n + 1 <=> k \in 1..n \/ k = n + 1
    OBVIOUS
  <2>2. (n + 1) - 1 = n
    OBVIOUS
  <2>. QED BY <2>1, <2>2 DEF TokenPlaces
<1>2. S \in SUBSET (1..n)
  BY DEF TokenPlaces
<1>3. /\ TokenLines(ls, n) = [j \in 1..c |-> ls[Place(S, j)]]
      /\ TokenLines(ls, n + 1) = [j \in 1..Cardinality(Q) |-> ls[Place(Q, j)]]
  BY DEF TokenLines
<1>. HIDE DEF S, Q, in
<1>4. CASE in
  <2>1. /\ c \in Nat /\ Cardinality(Q) = c + 1 /\ Place(Q, c + 1) = n + 1
        /\ \A j \in 1..c : Place(Q, j) = Place(S, j)
    <3>1. Q = S \cup {n + 1}
      BY <1>1, <1>4, Zenon
    <3>2. \A T \in SUBSET (1..n) : \A R : R = T \cup {n + 1} =>
            /\ Cardinality(T) \in Nat /\ Cardinality(R) = Cardinality(T) + 1
            /\ Place(R, Cardinality(T) + 1) = n + 1
            /\ \A j \in 1..Cardinality(T) : Place(R, j) = Place(T, j)
      BY PlaceNext
    <3>. QED BY <1>2, <3>1, <3>2, Zenon
  <2>. HIDE DEF c
  <2>. DEFINE V == {ls[Place(S, j)] : j \in 1..c}
  <2>2. TokenLines(ls, n) \in Seq(V)
    <3>1. TokenLines(ls, n) \in [1..c -> V]
      BY <1>3, Zenon
    <3>. HIDE DEF V
    <3>. QED BY <2>1, <3>1
  <2>. HIDE DEF V
  <2>3. Len(TokenLines(ls, n)) = c
    BY <1>3, <2>1
  <2>4. Append(TokenLines(ls, n), ls[n + 1])
          = [j \in 1..c + 1 |-> IF j = c + 1 THEN ls[n + 1] ELSE ls[Place(S, j)]]
    BY <1>3, <2>1, <2>2, <2>3
  <2>5. TokenLines(ls, n + 1)
          = [j \in 1..c + 1 |-> IF j = c + 1 THEN ls[n + 1] ELSE ls[Place(S, j)]]
    BY <1>3, <2>1
  <2>. QED BY <1>4, <2>4, <2>5 DEF in
<1>5. CASE ~in
  BY <1>1, <1>3, <1>5 DEF in
<1>. QED BY <1>4, <1>5

\* Nothing has been read of the token yet.
LEMMA TokenEmpty ==
  ASSUME NEW ls
  PROVE  TokenLines(ls, 0) = <<>>
<1>1. TokenPlaces(ls, 0) = {}
  BY DEF TokenPlaces
<1>2. Cardinality({}) = 0
  BY FS_EmptySet
<1>. QED BY <1>1, <1>2 DEF TokenLines

-----------------------------------------------------------------------------
(* What has been accepted                                                    *)

\* The files decide whether they are complete.
Accepted == TokenSoFar /\ AcceptedSoFar

\* A line of the validator's file.
LEMMA TokenRead == IndInv /\ ReadTheirs /\ TokenSoFar => TokenSoFar'
<1>. SUFFICES ASSUME IndInv, ReadTheirs, TokenSoFar PROVE TokenSoFar'
  OBVIOUS
<1>1. /\ theirs \in Seq(Lines) /\ at \in Nat /\ at < Len(theirs)
      /\ strSection = SectionAfter(theirs, at) /\ validatorToken = TokenLines(theirs, at)
      /\ pc = "theirs" /\ pc' = "theirs" /\ theirs' = theirs /\ at' = at + 1
  BY DEF IndInv, TypeOK, ReadSoFar, TokenSoFar, ReadTheirs, files
<1>2. validatorToken' =
        IF theirs[at + 1].kind = "text" /\ strSection = VALIDATOR_TOKEN_SECTION
        THEN Append(validatorToken, theirs[at + 1]) ELSE validatorToken
  BY DEF ReadTheirs
<1>3. validatorToken' = TokenLines(theirs, at + 1)
  BY <1>1, <1>2, TokenNext, Zenon
<1>4. TokenLines(theirs, at)' = TokenLines(theirs, at + 1)
  BY <1>1 DEF TokenLines, TokenPlaces, SectionAfter, Heads
<1>. QED BY <1>1, <1>3, <1>4 DEF TokenSoFar

\* The token is what has been read, after every step.
LEMMA TokenStep == IndInv /\ Construct /\ TokenSoFar => TokenSoFar'
<1>. SUFFICES ASSUME IndInv, Construct, TokenSoFar PROVE TokenSoFar'
  OBVIOUS
<1>1. CASE Open \/ ReadOwn \/ Validate
  BY <1>1 DEF TokenSoFar, Open, ReadOwn, Validate, Throw
<1>2. CASE OpenValidator
  <2>1. validatorToken' = <<>> /\ at' = 0 /\ pc' \in {"theirs", "threw"}
    BY <1>2 DEF TokenSoFar, OpenValidator, Throw
  <2>2. TokenLines(theirs', 0) = <<>>
    BY TokenEmpty
  <2>. QED BY <2>1, <2>2 DEF TokenSoFar
<1>3. CASE ReadTheirs
  BY <1>3, TokenRead
<1>4. CASE Decode
  BY <1>4 DEF TokenSoFar, Decode, Throw, files
<1>. QED BY <1>1, <1>2, <1>3, <1>4 DEF Construct

\* Whether the files are complete, in terms of what has been read of them.
LEMMA CompleteFiles ==
  ASSUME own = Content(cfgFile), own # Missing, OwnAsWritten(Len(own))
  PROVE  FilesComplete <=>
           /\ server_url # "" /\ validator_config_path # ""
           /\ Content(validator_config_path) # Missing
           /\ LET ls == Content(validator_config_path)
              IN  Parses(TokenLines(ls, Len(ls))) # {}
BY Zenon DEF FilesComplete, OwnAsWritten

\* The files stay, and with them what they are.
LEMMA CompleteStays ==
  ASSUME disk' = disk, cfgFile' = cfgFile
  PROVE  /\ FilesComplete' <=> FilesComplete
         /\ \A path : Content(path)' = Content(path)
<1>1. \A path : Content(path)' = Content(path)
  BY DEF Content
<1>. QED
  BY <1>1 DEF FilesComplete, Content, Given, Givers, Parses, TokenLines, TokenPlaces

\* A step accepts or rejects what it should.
LEMMA AcceptedStep == IndInv /\ Construct /\ Accepted => AcceptedSoFar'
<1>. SUFFICES ASSUME IndInv, Construct, Accepted PROVE AcceptedSoFar'
  OBVIOUS
<1>0. disk' = disk /\ cfgFile' = cfgFile
  BY DEF Construct, Open, ReadOwn, Validate, OpenValidator, ReadTheirs, Decode, files
<1>1. /\ FilesComplete' <=> FilesComplete
      /\ \A path : Content(path)' = Content(path)
  BY <1>0, CompleteStays
<1>2. Content(cfgFile)' = Content(cfgFile)
  BY <1>0 DEF Content
<1>3. CASE Open
  <2>1. CASE Content(cfgFile) = Missing
    <3>1. ~FilesComplete
      BY <2>1, Zenon DEF FilesComplete
    <3>. QED BY <1>1, <1>3, <2>1, <3>1 DEF AcceptedSoFar, Open, Throw
  <2>2. CASE Content(cfgFile) # Missing
    BY <1>2, <1>3, <2>2 DEF AcceptedSoFar, Open
  <2>. QED BY <2>1, <2>2
<1>4. CASE ReadOwn
  BY <1>2, <1>4 DEF Accepted, AcceptedSoFar, ReadOwn, files
<1>5. CASE Validate
  <2>1. /\ own = Content(cfgFile) /\ own # Missing /\ OwnAsWritten(Len(own))
        /\ UNCHANGED <<own, server_url, validator_config_path>>
    BY <1>5 DEF Accepted, AcceptedSoFar, IndInv, ReadSoFar, Validate, files, properties
  <2>2. pc' = "threw" => ~FilesComplete
    BY <1>5, <2>1, CompleteFiles DEF Validate, Throw
  <2>3. pc' = "named" => server_url # "" /\ validator_config_path # ""
    BY <1>5 DEF Validate, Throw
  <2>4. pc' \in {"threw", "named"}
    BY <1>5 DEF Validate, Throw
  <2>. QED BY <1>1, <1>2, <2>1, <2>2, <2>3, <2>4 DEF AcceptedSoFar
<1>6. CASE OpenValidator
  <2>1. /\ own = Content(cfgFile) /\ own # Missing /\ OwnAsWritten(Len(own))
        /\ server_url # "" /\ validator_config_path # ""
        /\ UNCHANGED <<own, server_url, validator_config_path>>
        /\ theirs' = Content(validator_config_path)
    BY <1>6 DEF Accepted, AcceptedSoFar, IndInv, ReadSoFar, OpenValidator, properties
  <2>2. Content(validator_config_path)' = theirs'
    BY <1>0, <2>1 DEF Content
  <2>3. pc' = "threw" => ~FilesComplete
    BY <1>6, <2>1, CompleteFiles DEF OpenValidator, Throw
  <2>4. pc' = "theirs" => theirs' # Missing
    BY <1>6 DEF OpenValidator, Throw
  <2>5. pc' \in {"threw", "theirs"}
    BY <1>6 DEF OpenValidator, Throw
  <2>. QED BY <1>1, <1>2, <2>1, <2>2, <2>3, <2>4, <2>5 DEF AcceptedSoFar
<1>7. CASE ReadTheirs
  <2>1. Content(validator_config_path)' = Content(validator_config_path)
    BY <1>0, <1>7 DEF Content, ReadTheirs, properties
  <2>. QED BY <1>2, <1>7, <2>1 DEF Accepted, AcceptedSoFar, ReadTheirs, files, properties
<1>8. CASE Decode
  <2>1. /\ own = Content(cfgFile) /\ own # Missing /\ OwnAsWritten(Len(own))
        /\ server_url # "" /\ validator_config_path # ""
        /\ theirs = Content(validator_config_path) /\ theirs # Missing
        /\ UNCHANGED <<own, theirs, server_url, validator_config_path, validatorToken>>
        /\ validatorToken = TokenLines(theirs, Len(theirs))
    BY <1>8 DEF Accepted, AcceptedSoFar, TokenSoFar, IndInv, ReadSoFar, Decode, files, properties
  <2>2. Content(validator_config_path)' = Content(validator_config_path)
    BY <1>0, <2>1 DEF Content
  <2>3. pc' = "threw" => ~FilesComplete
    BY <1>8, <2>1, CompleteFiles DEF Decode, Throw
  <2>4. pc' = "done" => \E t \in Parses(validatorToken) : validation_secret_key' = Secrets[t]
    BY <1>8 DEF Decode, Throw
  <2>5. pc' \in {"threw", "done"} /\ Parses(validatorToken)' = Parses(validatorToken)
    BY <1>8, <2>1 DEF Decode, Throw, Parses
  <2>. QED BY <1>1, <1>2, <2>1, <2>2, <2>3, <2>4, <2>5 DEF AcceptedSoFar
<1>. QED BY <1>3, <1>4, <1>5, <1>6, <1>7, <1>8 DEF Construct

-----------------------------------------------------------------------------
(* The command line                                                          *)

Valued == {"-c", "--config", "sign"}
Helps == {"-h", "--help"}

\* Where the arguments stand, one place further.
LEMMA StandsNext ==
  ASSUME NEW n \in Nat \ {0}, NEW Q \in SUBSET (1..n + 1)
  PROVE  Stands(Q, n + 1) <=>
           /\ Stands(Q \cap 1..n, n)
           /\ n + 1 \in Q <=> \/ n \in Q /\ argv[n] \in Helps
                              \/ n - 1 \in Q /\ argv[n - 1] \in Valued
<1>. DEFINE R == Q \cap 1..n
            why(T, k) == \/ k = 1
                         \/ k - 1 \in T /\ argv[k - 1] \in Helps
                         \/ k - 2 \in T /\ argv[k - 2] \in Valued
<1>1. \A k \in 1..n : (k \in Q <=> k \in R) /\ (why(Q, k) <=> why(R, k))
  <2>. SUFFICES ASSUME NEW k \in 1..n
                PROVE  /\ k \in Q <=> k \in R
                       /\ k - 1 \in Q <=> k - 1 \in R
                       /\ k - 2 \in Q <=> k - 2 \in R
    BY Zenon
  <2>. QED OBVIOUS
<1>2. \A k : k \in 1..n + 1 <=> k \in 1..n \/ k = n + 1
  OBVIOUS
<1>3. why(Q, n + 1) <=> \/ n \in Q /\ argv[n] \in Helps
                        \/ n - 1 \in Q /\ argv[n - 1] \in Valued
  OBVIOUS
<1>4. Stands(Q, n + 1) <=> \A k \in 1..n + 1 : k \in Q <=> why(Q, k)
  BY DEF Stands, Helps, Valued
<1>5. Stands(R, n) <=> \A k \in 1..n : k \in R <=> why(R, k)
  BY DEF Stands, Helps, Valued
<1>. HIDE DEF R, why
<1>6. Stands(Q, n + 1) <=> Stands(R, n) /\ (n + 1 \in Q <=> why(Q, n + 1))
  BY <1>1, <1>2, <1>4, <1>5, Zenon
<1>. QED BY <1>3, <1>6, Zenon DEF R

\* The only places, one further.
LEMMA OnlyNext ==
  ASSUME NEW n \in Nat \ {0}, NEW P \in SUBSET (1..n), NEW R \in SUBSET (1..n + 1),
         R \cap 1..n = P,
         n + 1 \in R <=> \/ n \in P /\ argv[n] \in Helps
                         \/ n - 1 \in P /\ argv[n - 1] \in Valued,
         \A Q \in SUBSET (1..n) : Stands(Q, n) <=> Q = P
  PROVE  \A Q \in SUBSET (1..n + 1) : Stands(Q, n + 1) <=> Q = R
<1>. SUFFICES ASSUME NEW Q \in SUBSET (1..n + 1)
              PROVE  Stands(Q, n + 1) <=> Q = R
  OBVIOUS
<1>1. Stands(Q \cap 1..n, n) <=> Q \cap 1..n = P
  OBVIOUS
<1>2. n \in Q <=> n \in Q \cap 1..n
  OBVIOUS
<1>3. n - 1 \in Q <=> n - 1 \in Q \cap 1..n
  OBVIOUS
<1>4. Q = R <=> Q \cap 1..n = P /\ (n + 1 \in Q <=> n + 1 \in R)
  <2>1. \A k : k \in 1..n + 1 <=> k \in 1..n \/ k = n + 1
    OBVIOUS
  <2>2. ASSUME Q \cap 1..n = P, n + 1 \in Q <=> n + 1 \in R
        PROVE  Q = R
    <3>1. \A k \in 1..n : k \in Q <=> k \in R
      BY <2>2, Zenon
    <3>2. \A k \in 1..n + 1 : k \in Q <=> k \in R
      BY <2>1, <2>2, <3>1, Zenon
    <3>. QED BY <3>2
  <2>. QED BY <2>2, Zenon
<1>. QED BY <1>1, <1>2, <1>3, <1>4, StandsNext, Zenon

\* The first of some numbers is the one chosen.
LEMMA FirstIs ==
  ASSUME NEW S \in SUBSET Nat, NEW k \in S, \A m \in S : k <= m
  PROVE  First(S) = k
<1>1. \A l \in S : (\A m \in S : l <= m) => l = k
  OBVIOUS
<1>. QED BY <1>1 DEF First

\* The map after an argument that is none of the options called one of names.
LEMMA InMapOther ==
  ASSUME NEW P \in SUBSET (1..count), count \in Nat \ {0}, count' \in Nat, count < count',
         argv' = argv, NEW names, argv[count] \notin names,
         NEW key, InMap(P, key, names),
         key \in DOMAIN arguments' <=> key \in DOMAIN arguments,
         key \in DOMAIN arguments => arguments'[key] = arguments[key]
  PROVE  InMap(P \cup {count}, key, names)'
<1>. DEFINE S == {k \in P : k < count /\ argv[k] \in names}
            T == {k \in P \cup {count'} : k < count' /\ argv[k] \in names}
<1>0. \A k \in P : k < count' /\ (k < count \/ k = count)
  OBVIOUS
<1>1. S = T
  <2>1. ~(count' < count')
    OBVIOUS
  <2>. QED BY <1>0, <2>1, Zenon
<1>2. InMap(P, key, names) <=>
        /\ key \in DOMAIN arguments <=> S # {}
        /\ S # {} => \E k \in S : (\A m \in S : k <= m) /\ arguments[key] = argv[k + 1]
  BY DEF InMap
<1>3. InMap(P \cup {count}, key, names)' <=>
        /\ key \in DOMAIN arguments' <=> T # {}
        /\ T # {} => \E k \in T : (\A m \in T : k <= m) /\ arguments'[key] = argv[k + 1]
  BY DEF InMap
<1>. HIDE DEF S, T
<1>. QED BY <1>1, <1>2, <1>3

\* The map after one of them.
LEMMA InMapTaken ==
  ASSUME NEW P \in SUBSET (1..count), count \in P, count' \in Nat, count < count',
         argv' = argv, NEW names, argv[count] \in names,
         NEW key, InMap(P, key, names), arguments' = Insert(arguments, key, argv[count + 1])
  PROVE  InMap(P \cup {count}, key, names)'
<1>. DEFINE S == {k \in P : k < count /\ argv[k] \in names}
            T == {k \in P \cup {count'} : k < count' /\ argv[k] \in names}
<1>0. /\ \A k \in P : k < count' /\ (k < count \/ k = count)
      /\ ~(count' < count') /\ ~(count < count)
  OBVIOUS
<1>1. T = S \cup {count}
  BY <1>0, Zenon
<1>2. InMap(P, key, names) <=>
        /\ key \in DOMAIN arguments <=> S # {}
        /\ S # {} => \E k \in S : (\A m \in S : k <= m) /\ arguments[key] = argv[k + 1]
  BY DEF InMap
<1>3. InMap(P \cup {count}, key, names)' <=>
        /\ key \in DOMAIN arguments' <=> T # {}
        /\ T # {} => \E k \in T : (\A m \in T : k <= m) /\ arguments'[key] = argv[k + 1]
  BY DEF InMap
<1>4. /\ key \in DOMAIN arguments'
      /\ arguments'[key] = IF key \in DOMAIN arguments THEN arguments[key] ELSE argv[count + 1]
  BY DEF Insert
<1>5. count \in Nat /\ \A k \in S : k \in Nat /\ k < count
  OBVIOUS
<1>. HIDE DEF S, T
<1>6. CASE S = {}
  <2>1. T = {count} /\ count <= count
    BY <1>1, <1>5, <1>6
  <2>. QED BY <1>2, <1>3, <1>4, <1>6, <2>1
<1>7. CASE S # {}
  <2>1. PICK k \in S : (\A m \in S : k <= m) /\ arguments[key] = argv[k + 1]
    BY <1>2, <1>7
  <2>2. k \in S /\ k <= count
    BY <1>5, <2>1
  <2>3. k \in T /\ \A m \in T : k <= m
    BY <1>1, <2>1, <2>2, Zenon
  <2>. QED BY <1>2, <1>3, <1>4, <1>7, <2>1, <2>3
<1>. QED BY <1>6, <1>7

\* A set of places and the next one.
LEMMA OneMore ==
  ASSUME NEW n \in Nat \ {0}, NEW P \in SUBSET (1..n), NEW k \in Nat, k > n
  PROVE  P \cup {k} \in SUBSET (1..k) /\ k \notin P /\ (P \cup {k}) \cap 1..n = P
<1>1. \A j \in P : j \in 1..n /\ j \in 1..k
  OBVIOUS
<1>2. k \notin 1..n /\ k \in 1..k
  OBVIOUS
<1>. QED BY <1>1, <1>2, Zenon

\* What a set of places has to be after a step.
ParsedWith(P) ==
  /\ \A Q \in SUBSET (1..count) : Stands(Q, count) <=> Q = P
  /\ count \in P
  /\ count - 1 \in P => argv[count - 1] \in Helps
  /\ InMap(P, CONFIG_FILE_PATH_ARGUMENT, {"-c", "--config"})
  /\ InMap(P, SIGN_MESSAGE_ARGUMENT, {"sign"})

LEMMA ParsedSoFarWith == ParsedSoFar <=> \E P \in SUBSET (1..count) : ParsedWith(P)
BY DEF ParsedSoFar, ParsedWith, Helps

\* -h or --help.
LEMMA HelpStep ==
  ASSUME count \in 1..Len(argv) + 1, argv \in Seq(STRING), argv' = argv, TakeHelp,
         NEW P \in SUBSET (1..count), ParsedWith(P)
  PROVE  P \cup {count'} \in SUBSET (1..count') /\ ParsedWith(P \cup {count})'
<1>. DEFINE R == P \cup {count + 1}
<1>1. /\ count \in Nat \ {0} /\ count' = count + 1 /\ count' \in Nat /\ count < count'
      /\ argv[count] \in Helps
  BY DEF TakeHelp, Helps
<1>2. R \in SUBSET (1..count + 1) /\ R \cap 1..count = P /\ count + 1 \in R
  BY <1>1, OneMore
<1>3. \A Q \in SUBSET (1..count + 1) : Stands(Q, count + 1) <=> Q = R
  <2>1. count + 1 \in R <=> \/ count \in P /\ argv[count] \in Helps
                            \/ count - 1 \in P /\ argv[count - 1] \in Valued
    BY <1>1, <1>2 DEF ParsedWith
  <2>2. \A Q \in SUBSET (1..count) : Stands(Q, count) <=> Q = P
    BY DEF ParsedWith
  <2>. HIDE DEF R
  <2>. QED BY <1>1, <1>2, <2>1, <2>2, OnlyNext, ZenonT(30)
<1>5. \A Q : Stands(Q, count)' <=> Stands(Q, count + 1)
  BY <1>1 DEF Stands
<1>6. count' - 1 = count
  BY <1>1
<1>7. \A names, key : argv[count] \notin names /\ key # HELP_ARGUMENT /\ InMap(P, key, names) =>
        InMap(P \cup {count}, key, names)'
  <2>. SUFFICES ASSUME NEW names, NEW key, argv[count] \notin names, key # HELP_ARGUMENT,
                       InMap(P, key, names)
                PROVE  InMap(P \cup {count}, key, names)'
    OBVIOUS
  <2>1. /\ key \in DOMAIN arguments' <=> key \in DOMAIN arguments
        /\ key \in DOMAIN arguments => arguments'[key] = arguments[key]
    BY DEF TakeHelp, Insert
  <2>. QED BY <1>1, <2>1, InMapOther
<1>8. /\ InMap(P \cup {count}, CONFIG_FILE_PATH_ARGUMENT, {"-c", "--config"})'
      /\ InMap(P \cup {count}, SIGN_MESSAGE_ARGUMENT, {"sign"})'
  <2>1. /\ CONFIG_FILE_PATH_ARGUMENT # HELP_ARGUMENT /\ SIGN_MESSAGE_ARGUMENT # HELP_ARGUMENT
        /\ argv[count] \notin {"-c", "--config"} /\ argv[count] \notin {"sign"}
    BY <1>1 DEF CONFIG_FILE_PATH_ARGUMENT, SIGN_MESSAGE_ARGUMENT, HELP_ARGUMENT, Helps
  <2>. QED BY <1>7, <2>1, Zenon DEF ParsedWith
<1>9. R = P \cup {count'}
  BY <1>1
<1>. HIDE DEF R
<1>. QED BY <1>1, <1>2, <1>3, <1>5, <1>6, <1>8, <1>9, Zenon DEF ParsedWith

\* An option and its value.
LEMMA ValueStep ==
  ASSUME count \in 1..Len(argv) + 1, argv \in Seq(STRING), argv' = argv,
         NEW names, NEW key, TakeValue(names, key),
         \/ names = {"-c", "--config"} /\ key = CONFIG_FILE_PATH_ARGUMENT
         \/ names = {"sign"} /\ key = SIGN_MESSAGE_ARGUMENT,
         NEW P \in SUBSET (1..count), ParsedWith(P)
  PROVE  P \cup {count'} \in SUBSET (1..count') /\ ParsedWith(P \cup {count})'
<1>. DEFINE R == P \cup {count + 2}
<1>1. /\ count \in Nat \ {0} /\ count' = count + 2 /\ count' \in Nat /\ count < count'
      /\ argv[count] \in names /\ argv[count] \in Valued /\ argv[count] \notin Helps
      /\ arguments' = Insert(arguments, key, argv[count + 1])
  BY DEF TakeValue, Option, Helps, Valued
<1>2. /\ P \in SUBSET (1..count + 1) /\ P \cap 1..count = P /\ count + 1 \notin P
      /\ (count + 1) - 1 = count /\ count + 1 \in Nat \ {0} /\ (count + 1) + 1 = count + 2
  <2>1. \A k \in 1..count : k \in 1..count + 1 /\ k # count + 1
    BY <1>1
  <2>2. (count + 1) - 1 = count /\ count + 1 \in Nat \ {0} /\ (count + 1) + 1 = count + 2
    BY <1>1
  <2>. QED BY <2>1, <2>2
<1>3. ~(count - 1 \in P /\ argv[count - 1] \in Valued)
  BY DEF ParsedWith, Helps, Valued
<1>4. \A Q \in SUBSET (1..count + 1) : Stands(Q, count + 1) <=> Q = P
  <2>1. count + 1 \in P <=> \/ count \in P /\ argv[count] \in Helps
                            \/ count - 1 \in P /\ argv[count - 1] \in Valued
    BY <1>1, <1>2, <1>3
  <2>2. \A Q \in SUBSET (1..count) : Stands(Q, count) <=> Q = P
    BY DEF ParsedWith
  <2>. QED BY <1>1, <1>2, <2>1, <2>2, OnlyNext, SMTT(30)
<1>5. \A Q \in SUBSET (1..count + 2) : Stands(Q, count + 2) <=> Q = R
  <2>1. R \in SUBSET (1..count + 2) /\ R \cap 1..count + 1 = P /\ count + 2 \in R
    BY <1>1, <1>2, OneMore
  <2>2. count + 2 \in R <=> \/ count + 1 \in P /\ argv[count + 1] \in Helps
                            \/ (count + 1) - 1 \in P /\ argv[(count + 1) - 1] \in Valued
    BY <1>1, <1>2, <2>1 DEF ParsedWith
  <2>3. PICK m \in Nat \ {0} : m = count + 1
    BY <1>2
  <2>4. m + 1 = count + 2 /\ m - 1 = (count + 1) - 1
    BY <1>2, <2>3
  <2>. HIDE DEF R
  <2>5. /\ P \in SUBSET (1..m) /\ R \in SUBSET (1..m + 1) /\ R \cap 1..m = P
        /\ \A Q \in SUBSET (1..m) : Stands(Q, m) <=> Q = P
        /\ m + 1 \in R <=> \/ m \in P /\ argv[m] \in Helps
                           \/ m - 1 \in P /\ argv[m - 1] \in Valued
    BY <1>2, <1>4, <2>1, <2>2, <2>3, <2>4, Zenon
  <2>6. \A Q \in SUBSET (1..m + 1) : Stands(Q, m + 1) <=> Q = R
    BY <2>5, OnlyNext
  <2>. QED BY <2>4, <2>6, Zenon
<1>6. \A Q : Stands(Q, count)' <=> Stands(Q, count + 2)
  BY <1>1 DEF Stands
<1>7. R = P \cup {count'} /\ count' - 1 \notin R
  BY <1>1, <1>2
<1>8. ASSUME NEW others, NEW other, argv[count] \notin others, other # key,
             InMap(P, other, others)
      PROVE  InMap(P \cup {count}, other, others)'
  <2>1. /\ other \in DOMAIN arguments' <=> other \in DOMAIN arguments
        /\ other \in DOMAIN arguments => arguments'[other] = arguments[other]
    BY <1>1, <1>8 DEF Insert
  <2>. QED BY <1>1, <1>8, <2>1, InMapOther
<1>9. ASSUME InMap(P, key, names)
      PROVE  InMap(P \cup {count}, key, names)'
  BY <1>1, <1>9, InMapTaken DEF ParsedWith
<1>10. /\ InMap(P \cup {count}, CONFIG_FILE_PATH_ARGUMENT, {"-c", "--config"})'
       /\ InMap(P \cup {count}, SIGN_MESSAGE_ARGUMENT, {"sign"})'
  <2>1. CONFIG_FILE_PATH_ARGUMENT # SIGN_MESSAGE_ARGUMENT
    BY DEF CONFIG_FILE_PATH_ARGUMENT, SIGN_MESSAGE_ARGUMENT
  <2>2. CASE names = {"-c", "--config"} /\ key = CONFIG_FILE_PATH_ARGUMENT
    <3>1. argv[count] \notin {"sign"}
      BY <1>1, <2>2
    <3>. QED BY <1>8, <1>9, <2>1, <2>2, <3>1, Zenon DEF ParsedWith
  <2>3. CASE names = {"sign"} /\ key = SIGN_MESSAGE_ARGUMENT
    <3>1. argv[count] \notin {"-c", "--config"}
      BY <1>1, <2>3
    <3>. QED BY <1>8, <1>9, <2>1, <2>3, <3>1, Zenon DEF ParsedWith
  <2>. QED BY <2>2, <2>3
<1>11. /\ P \cup {count'} \in SUBSET (1..count')
       /\ (P \cup {count})' = P \cup {count'}
  BY <1>1, OneMore
<1>. HIDE DEF R
<1>12. \A Q \in SUBSET (1..count') : Stands(Q, count)' <=> Q = P \cup {count'}
  BY <1>1, <1>5, <1>6, <1>7, Zenon
<1>. QED BY <1>7, <1>10, <1>11, <1>12, Zenon DEF ParsedWith

\* When all arguments have been looked at, the places found are those they stand at.
LEMMA AllPlaces ==
  ASSUME argv \in Seq(STRING), count = Len(argv) + 1, NEW P \in SUBSET (1..count), ParsedWith(P)
  PROVE  \A names \in {{"-c", "--config"}, {"sign"}} :
           Uses(names) = {k \in P : k < count /\ argv[k] \in names}
<1>1. Standing = P
  <2>1. \A Q \in SUBSET (1..Len(argv) + 1) : Stands(Q, Len(argv) + 1) <=> Q = P
    BY DEF ParsedWith
  <2>. QED BY <2>1 DEF Standing
<1>2. count - 1 = Len(argv) /\ Len(argv) \in Nat
  OBVIOUS
<1>3. \A names \in {{"-c", "--config"}, {"sign"}} : \A k \in P :
        argv[k] \in names => (k < count <=> k \in 1..Len(argv) - 1)
  <2>. SUFFICES ASSUME NEW names \in {{"-c", "--config"}, {"sign"}}, NEW k \in P, argv[k] \in names
                PROVE  k < count <=> k \in 1..Len(argv) - 1
    OBVIOUS
  <2>1. k # count - 1
    BY DEF ParsedWith, Helps
  <2>2. PICK n \in Nat : n = Len(argv)
    BY <1>2
  <2>3. k \in 1..n + 1 /\ k # n /\ count = n + 1
    BY <2>1, <2>2
  <2>4. k < n + 1 <=> k \in 1..n - 1
    BY <2>3
  <2>. QED BY <2>2, <2>3, <2>4
<1>. QED BY <1>1, <1>3 DEF Uses

\* The value the map has is that of the first of them.
LEMMA MapValue ==
  ASSUME argv \in Seq(STRING), count = Len(argv) + 1, NEW P \in SUBSET (1..count), ParsedWith(P),
         NEW names \in {{"-c", "--config"}, {"sign"}}, NEW key, InMap(P, key, names), NEW default
  PROVE  ValueOr(key, default) = FirstValue(names, default)
<1>. DEFINE S == {k \in P : k < count /\ argv[k] \in names}
<1>1. Uses(names) = S
  BY AllPlaces
<1>2. /\ key \in DOMAIN arguments <=> S # {}
      /\ S # {} => \E k \in S : (\A m \in S : k <= m) /\ arguments[key] = argv[k + 1]
  BY DEF InMap
<1>3. S \in SUBSET Nat
  <2>1. 1..count \subseteq Nat
    OBVIOUS
  <2>. QED BY <2>1
<1>. HIDE DEF S
<1>4. CASE S = {}
  BY <1>1, <1>2, <1>4 DEF ValueOr, FirstValue
<1>5. CASE S # {}
  <2>1. PICK k \in S : (\A m \in S : k <= m) /\ arguments[key] = argv[k + 1]
    BY <1>2, <1>5
  <2>2. First(S) = k
    BY <1>3, <2>1, FirstIs
  <2>. QED BY <1>1, <1>2, <1>5, <2>1, <2>2 DEF ValueOr, FirstValue
<1>. QED BY <1>4, <1>5

-----------------------------------------------------------------------------
(* main                                                                      *)

MainIndInv == IndInv /\ Accepted /\ MainInv

\* Nothing has been looked at, and nothing stands anywhere but in front.
LEMMA MainInitInv == MainInit => MainIndInv
<1>. SUFFICES ASSUME MainInit PROVE MainIndInv
  OBVIOUS
<1>1. argv \in Seq(STRING) /\ disk \in Disks
  BY StartsAssumption DEF MainInit
<1>2. IndInv
  BY <1>1, InitIndInv DEF MainInit
<1>3. Accepted
  BY DEF MainInit, Defaults, Accepted, TokenSoFar, AcceptedSoFar
<1>4. ParsedSoFar
  <2>1. ASSUME NEW Q \in SUBSET (1..1) PROVE Stands(Q, 1) <=> Q = {1}
    <3>1. \A k : k \in 1..1 <=> k = 1
      OBVIOUS
    <3>. QED BY <3>1 DEF Stands
  <2>2. {1} \in SUBSET (1..1) /\ count = 1 /\ count - 1 \notin {1}
    <3>1. count = 1
      BY DEF MainInit
    <3>2. 1 \in 1..1 /\ 1 - 1 \notin {1}
      OBVIOUS
    <3>. QED BY <3>1, <3>2
  <2>3. /\ InMap({1}, CONFIG_FILE_PATH_ARGUMENT, {"-c", "--config"})
        /\ InMap({1}, SIGN_MESSAGE_ARGUMENT, {"sign"})
    <3>1. DOMAIN arguments = {}
      <4>1. arguments = <<>>
        BY DEF MainInit
      <4>. QED BY <4>1
    <3>2. \A names : {k \in {1} : k < count /\ argv[k] \in names} = {}
      <4>1. ~(1 < 1)
        OBVIOUS
      <4>. QED BY <2>2, <4>1
    <3>. QED BY <3>1, <3>2, Zenon DEF InMap
  <2>4. ParsedWith({1})
    BY <2>1, <2>2, <2>3 DEF ParsedWith
  <2>. QED BY <2>2, <2>4, ParsedSoFarWith
<1>5. MainInv
  <2>1. Len(argv) \in Nat
    BY <1>1
  <2>2. 1 \in 1..Len(argv) + 1
    BY <2>1
  <2>. QED BY <1>1, <1>4, <2>2, Zenon DEF MainInit, MainInv
<1>. QED BY <1>2, <1>3, <1>5 DEF MainIndInv

\* The parts that do not change with the arguments looked at.
LEMMA SameConfig ==
  ASSUME IndInv, Accepted, UNCHANGED vars
  PROVE  IndInv' /\ Accepted'
<1>1. IndInv'
  BY NextIndInv
<1>2. TokenSoFar'
  <2>1. /\ UNCHANGED <<theirs, at, validatorToken, pc>>
    BY DEF vars, files
  <2>2. /\ TokenLines(theirs, at)' = TokenLines(theirs, at)
        /\ TokenLines(theirs, Len(theirs))' = TokenLines(theirs, Len(theirs))
    BY <2>1, Zenon
  <2>3. TokenSoFar
    BY DEF Accepted
  <2>. QED BY <2>1, <2>2, <2>3, Zenon DEF TokenSoFar
<1>3. /\ FilesComplete' <=> FilesComplete
      /\ \A path : Content(path)' = Content(path)
  BY CompleteStays DEF vars, files
<1>4. /\ Content(cfgFile)' = Content(cfgFile)
      /\ Content(validator_config_path)' = Content(validator_config_path)
      /\ Parses(validatorToken)' = Parses(validatorToken)
  BY DEF Content, Parses, vars, files, properties
<1>5. AcceptedSoFar'
  BY <1>3, <1>4 DEF Accepted, AcceptedSoFar, vars, files, properties
<1>. QED BY <1>1, <1>2, <1>5 DEF Accepted

\* What the options say depends on the command line alone.
LEMMA SameArguments ==
  ASSUME argv' = argv
  PROVE  \A names, default : FirstValue(names, default)' = FirstValue(names, default)
<1>1. \A P, n : Stands(P, n)' <=> Stands(P, n)
  BY DEF Stands
<1>2. Standing' = Standing
  BY DEF Standing, Stands
<1>. QED BY <1>2 DEF FirstValue, Uses, First

\* An argument is looked at.
LEMMA ParseInv == MainIndInv /\ Parse => MainIndInv'
<1>. SUFFICES ASSUME MainIndInv, Parse PROVE MainIndInv'
  OBVIOUS
<1>1. IndInv' /\ Accepted'
  BY SameConfig DEF MainIndInv, Parse
<1>2. /\ argv \in Seq(STRING) /\ count \in 1..Len(argv) + 1 /\ count <= Len(argv)
      /\ ParsedSoFar /\ pc = "open" /\ cfgFile = DEFAULT_CONFIG_FILE /\ signMessage = ""
      /\ UNCHANGED <<argv, pc, cfgFile, signMessage>> /\ step = "parse"
  BY DEF MainIndInv, MainInv, Parse, vars, files
<1>0. Len(argv) \in Nat
  <2>1. argv \in Seq(STRING)
    BY <1>2
  <2>. QED BY <2>1
<1>3. PICK P \in SUBSET (1..count) : ParsedWith(P)
  BY <1>2, ParsedSoFarWith
<1>4. CASE Usage
  <2>1. step' = "aborted" /\ argv' \in Seq(STRING)
    BY <1>2, <1>4 DEF Usage
  <2>2. MainInv'
    BY <2>1 DEF MainInv
  <2>. QED BY <1>1, <2>2 DEF MainIndInv
<1>5. ASSUME P \cup {count'} \in SUBSET (1..count'), ParsedWith(P \cup {count})',
             count' \in 1..Len(argv) + 1, step' = step
      PROVE  MainInv'
  <2>1. ParsedSoFar'
    BY <1>5, ParsedSoFarWith DEF ParsedSoFar, ParsedWith, Helps
  <2>. QED BY <1>2, <1>5, <2>1 DEF MainInv
<1>6. CASE TakeHelp
  <2>1. count' \in 1..Len(argv) + 1 /\ step' = step
    <3>1. count' = count + 1 /\ step' = step
      BY <1>6 DEF TakeHelp
    <3>2. PICK n \in Nat : n = Len(argv)
      BY <1>0
    <3>3. count \in 1..n + 1 /\ count <= n
      BY <1>2, <3>2
    <3>4. count + 1 \in 1..n + 1
      BY <3>3
    <3>. QED BY <3>1, <3>2, <3>4
  <2>. QED BY <1>1, <1>2, <1>3, <1>5, <1>6, <2>1, HelpStep DEF MainIndInv
<1>7. ASSUME NEW names, NEW key, TakeValue(names, key),
             \/ names = {"-c", "--config"} /\ key = CONFIG_FILE_PATH_ARGUMENT
             \/ names = {"sign"} /\ key = SIGN_MESSAGE_ARGUMENT
      PROVE  MainIndInv'
  <2>1. count' \in 1..Len(argv) + 1 /\ step' = step
    <3>1. count' = count + 2 /\ step' = step /\ count + 1 <= Len(argv)
      BY <1>7, Zenon DEF TakeValue, Option
    <3>2. PICK n \in Nat : n = Len(argv)
      BY <1>0
    <3>3. count \in 1..n + 1 /\ count + 1 <= n
      BY <1>2, <3>1, <3>2
    <3>4. count + 2 \in 1..n + 1
      BY <3>3
    <3>. QED BY <3>1, <3>2, <3>4
  <2>2. P \cup {count'} \in SUBSET (1..count') /\ ParsedWith(P \cup {count})'
    BY <1>2, <1>3, <1>7, ValueStep
  <2>. QED BY <1>1, <1>5, <2>1, <2>2 DEF MainIndInv
<1>. QED BY <1>1, <1>4, <1>6, <1>7 DEF Parse, MainIndInv

\* All arguments have been looked at.
LEMMA ParsedInv == MainIndInv /\ Parsed => MainIndInv'
<1>. SUFFICES ASSUME MainIndInv, Parsed PROVE MainIndInv'
  OBVIOUS
<1>1. /\ argv \in Seq(STRING) /\ count \in 1..Len(argv) + 1 /\ count > Len(argv)
      /\ ParsedSoFar /\ pc = "open" /\ cfgFile = DEFAULT_CONFIG_FILE /\ signMessage = ""
      /\ argv' = argv
  BY DEF MainIndInv, MainInv, Parsed
<1>2. count = Len(argv) + 1
  <2>0. Len(argv) \in Nat
    <3>1. argv \in Seq(STRING)
      BY <1>1
    <3>. QED BY <3>1
  <2>1. PICK n \in Nat : n = Len(argv)
    BY <2>0
  <2>2. count \in 1..n + 1 /\ count > n
    BY <1>1, <2>1
  <2>3. count = n + 1
    BY <2>2
  <2>. QED BY <2>1, <2>3
<1>3. PICK P \in SUBSET (1..count) : ParsedWith(P)
  BY <1>1, ParsedSoFarWith
<1>4. /\ ValueOr(CONFIG_FILE_PATH_ARGUMENT, cfgFile)
           = FirstValue({"-c", "--config"}, DEFAULT_CONFIG_FILE)
      /\ ValueOr(SIGN_MESSAGE_ARGUMENT, signMessage) = FirstValue({"sign"}, "")
  <2>1. /\ InMap(P, CONFIG_FILE_PATH_ARGUMENT, {"-c", "--config"})
        /\ InMap(P, SIGN_MESSAGE_ARGUMENT, {"sign"})
    BY <1>3 DEF ParsedWith
  <2>. QED BY <1>1, <1>2, <1>3, <2>1, MapValue
<1>5. IndInv'
  <2>1. TypeOK'
    BY <1>1 DEF MainIndInv, IndInv, TypeOK, Parsed, properties, rpc
  <2>2. ReadSoFar'
    BY <1>1 DEF MainIndInv, IndInv, ReadSoFar, OwnAsWritten, Parsed, properties, rpc
  <2>. QED BY <2>1, <2>2 DEF IndInv
<1>6. Accepted'
  BY <1>1 DEF MainIndInv, Accepted, TokenSoFar, AcceptedSoFar, Parsed
<1>7. MainInv'
  BY <1>1, <1>4, SameArguments DEF MainIndInv, MainInv, Parsed
<1>. QED BY <1>5, <1>6, <1>7 DEF MainIndInv

\* The configuration is loaded by a step of its constructor.
LEMMA LoadInv == MainIndInv /\ Load => MainIndInv'
<1>. SUFFICES ASSUME MainIndInv, Load PROVE MainIndInv'
  OBVIOUS
<1>1. IndInv' /\ Accepted'
  BY NextIndInv, TokenStep, AcceptedStep DEF MainIndInv, Accepted, Load, Next
<1>2. cfgFile' = cfgFile
  BY DEF Load, Construct, Open, ReadOwn, Validate, OpenValidator, ReadTheirs, Decode, files
<1>3. step' \in {"load", "choose", "aborted"} /\ (step' = "choose" => pc' = "done")
  BY DEF Load
<1>4. MainInv'
  BY <1>2, <1>3, SameArguments DEF MainIndInv, MainInv, Load, command
<1>. QED BY <1>1, <1>4 DEF MainIndInv

\* The agent starts, or a message is signed.
LEMMA EndInv == MainIndInv /\ (Choose \/ SignContent) => MainIndInv'
<1>. SUFFICES ASSUME MainIndInv, Choose \/ SignContent PROVE MainIndInv'
  OBVIOUS
<1>1. UNCHANGED <<vars, command>>
  BY DEF Choose, SignContent
<1>2. IndInv' /\ Accepted'
  BY <1>1, SameConfig DEF MainIndInv
<1>3. MainInv'
  BY <1>1, SameArguments DEF MainIndInv, MainInv, Choose, SignContent, vars, files, command
<1>. QED BY <1>2, <1>3 DEF MainIndInv

\* The invariant holds always.
LEMMA MainSpecInv == MainSpec => []MainIndInv
<1>1. MainIndInv /\ UNCHANGED mainVars => MainIndInv'
  <2>. SUFFICES ASSUME MainIndInv, UNCHANGED mainVars PROVE MainIndInv'
    OBVIOUS
  <2>1. UNCHANGED vars /\ UNCHANGED <<argv, count, arguments, signMessage, step>>
    BY DEF mainVars, command
  <2>2. IndInv' /\ Accepted'
    BY <2>1, SameConfig DEF MainIndInv
  <2>3. ParsedSoFar => ParsedSoFar'
    BY <2>1 DEF ParsedSoFar, Stands, InMap
  <2>4. MainInv'
    BY <2>1, <2>3, SameArguments DEF MainIndInv, MainInv, vars, files
  <2>. QED BY <2>2, <2>4 DEF MainIndInv
<1>2. MainIndInv /\ [MainNext]_mainVars => MainIndInv'
  BY <1>1, ParseInv, ParsedInv, LoadInv, EndInv DEF MainNext
<1>. QED BY <1>2, MainInitInv, PTL DEF MainSpec

\* The constructor that main runs gives each property what its last line says...
THEOREM MainAsWritten == MainSpec => []PropertiesAsWritten
<1>1. MainIndInv => PropertiesAsWritten
  BY DEF MainIndInv, IndInv, ReadSoFar, PropertiesAsWritten
<1>. QED BY <1>1, MainSpecInv, PTL

\* ... and the token all the text of its section, for files of any length.
THEOREM TokenWhole == MainSpec => []TokenAsWritten
<1>1. MainIndInv => TokenAsWritten
  BY DEF MainIndInv, Accepted, TokenSoFar, AcceptedSoFar, TokenAsWritten
<1>. QED BY <1>1, MainSpecInv, PTL

\* What the constructor accepts is complete.
LEMMA DoneComplete ==
  ASSUME MainIndInv, pc = "done"
  PROVE  FilesComplete
<1>1. /\ own = Content(cfgFile) /\ own # Missing /\ OwnAsWritten(Len(own))
      /\ server_url # "" /\ validator_config_path # ""
      /\ theirs = Content(validator_config_path) /\ theirs # Missing
      /\ validatorToken = TokenLines(theirs, Len(theirs)) /\ Parses(validatorToken) # {}
  BY DEF MainIndInv, IndInv, ReadSoFar, Accepted, TokenSoFar, AcceptedSoFar
<1>. QED BY <1>1, CompleteFiles

\* Construction throws for files that are not complete and for no others; a token whose
\* secret is missing or no key counts as complete.
THEOREM RejectsExactly == MainSpec => []RejectsTheIncomplete
<1>1. MainIndInv => RejectsTheIncomplete
  BY DoneComplete DEF MainIndInv, Accepted, AcceptedSoFar, RejectsTheIncomplete
<1>. QED BY <1>1, MainSpecInv, PTL

\* For every command line: what runs is what was asked for, with files that are complete.
THEOREM AsAsked == MainSpec => []RunsAsAsked
<1>1. MainIndInv => RunsAsAsked
  BY DoneComplete DEF MainIndInv, MainInv, RunsAsAsked
<1>. QED BY <1>1, MainSpecInv, PTL
=============================================================================
