----------------------- MODULE ValidationCheckProofs -----------------------
(* Theorems about ValidationCheck, for every set of integers a server_info  *)
(* may hold.                                                                *)
EXTENDS ValidationCheck, TLAPS

\* The report is always the verdict on the answer it was made from.
Judged == info \in Answers \cup {Empty} /\ verdict = Verdict(info)

\* One step shows it: each beat judges the answer it got itself.
LEMMA SpecJudged == Spec => []Judged
  <1>1. Init => Judged
    BY DEF Init, Judged
  <1>2. Judged /\ [Next]_vars => Judged'
    BY DEF Judged, Next, runValidationCheck, vars, Verdict, StateCheck, AgeCheck,
           PeersCheck, LatencyCheck
  <1>3. QED
    BY <1>1, <1>2, PTL DEF Spec

\* The numbers of an answer that has them all.
LEMMA KnownNumbers ==
        ASSUME NEW i \in Answers \cup {Empty}, Known(i)
        PROVE  /\ i.age.num \in Int /\ i.peers.num \in Int /\ i.io_latency_ms.num \in Int
               /\ ~i.empty
  <1>1. ~i.empty
    BY Zenon DEF Known
  <1>2. i # Empty
    BY <1>1 DEF Empty
  <1>3. i.age \in Values(Ages) /\ i.peers \in Values(Peers)
        /\ i.io_latency_ms \in Values(Latencies)
    BY <1>2 DEF Answers
  <1>4. ASSUME NEW S \in SUBSET Int, NEW v \in Values(S), v.rank = 1
        PROVE  v.num \in Int
    BY <1>4 DEF Values, Null, Integer, Real
  <1>5. QED
    BY <1>1, <1>3, <1>4, NumbersAssumption DEF Known

\* Every verdict is one of three exit codes.
THEOREM TypeCorrect == Spec => []TypeOK
  <1>1. Judged => TypeOK
    BY DEF Judged, TypeOK, Verdict, Commands, StateCheck, AgeCheck, PeersCheck, LatencyCheck
  <1>2. QED
    BY <1>1, SpecJudged, PTL

\* Whatever the integers, the verdicts on the age and the latency are those of the comments,
\* and that on the peers the one its text states.
THEOREM WordsHold == Spec => []VerdictsAsWorded
  <1>1. Judged => VerdictsAsWorded
    BY KnownNumbers
    DEF Judged, VerdictsAsWorded, Verdict, AgeCheck, PeersCheck, LatencyCheck, Known,
        Less, AtMost, Integer
  <1>2. QED
    BY <1>1, SpecJudged, PTL

\* Without an answer every check is critical.
THEOREM SilenceAlarms == Spec => []SilenceIsCritical
  <1>1. Judged => SilenceIsCritical
    BY DEF Judged, SilenceIsCritical, Verdict, Commands, StateCheck, AgeCheck, PeersCheck,
           LatencyCheck
  <1>2. QED
    BY <1>1, SpecJudged, PTL

\* Verdicts are monotone in the integers they judge.
THEOREM Monotone == Spec => WorseIsNeverBetter
  <1>1. Judged /\ Judged' =>
          [Known(info) /\ Known(info') =>
             /\ info'.age.num >= info.age.num
                  => verdict'.AgeLastValidation >= verdict.AgeLastValidation
             /\ info'.peers.num <= info.peers.num
                  => verdict'.PeersCount >= verdict.PeersCount
             /\ info'.io_latency_ms.num >= info.io_latency_ms.num
                  => verdict'.IOLatency >= verdict.IOLatency]_vars
    <2> SUFFICES ASSUME Judged, Judged', Known(info), Known(info')
                 PROVE
                   /\ info'.age.num >= info.age.num
                        => verdict'.AgeLastValidation >= verdict.AgeLastValidation
                   /\ info'.peers.num <= info.peers.num
                        => verdict'.PeersCount >= verdict.PeersCount
                   /\ info'.io_latency_ms.num >= info.io_latency_ms.num
                        => verdict'.IOLatency >= verdict.IOLatency
      OBVIOUS
    <2>1. /\ info.age.num \in Int /\ info.peers.num \in Int
          /\ info.io_latency_ms.num \in Int /\ ~info.empty
          /\ info'.age.num \in Int /\ info'.peers.num \in Int
          /\ info'.io_latency_ms.num \in Int /\ ~info'.empty
      BY KnownNumbers DEF Judged
    <2>2. QED
      BY <2>1 DEF Judged, Verdict, AgeCheck, PeersCheck, LatencyCheck, Known, Less,
                  AtMost, Integer
  <1>2. QED
    BY <1>1, SpecJudged, PTL DEF WorseIsNeverBetter
=============================================================================
