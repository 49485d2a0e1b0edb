------------------------- MODULE ProcessCheckProofs -------------------------
(***************************************************************************)
(* Proofs about ProcessCheck, for any number of pids.                      *)
(***************************************************************************)
EXTENDS ProcessCheck, WellFoundedInduction, TLAPS

\* A set of pids that is not empty has a least one, which List and Examine take.
LEMMA LeastIs ==
  ASSUME NEW S \in SUBSET Nat, S # {}
  PROVE  Least(S) \in S /\ \A q \in S : Least(S) <= q
<1>1. PICK p \in S : \A q \in S : <<q, p>> \notin OpToRel(<, Nat)
  BY WFMin, NatLessThanWellFounded, Zenon
<1>2. \A q \in S : q \in Nat /\ p \in Nat
  BY <1>1
<1>3. \A q \in S : ~(q < p)
  BY <1>1, <1>2, Zenon DEF OpToRel
<1>4. \A q \in S : p <= q
  BY <1>2, <1>3
<1>. QED BY <1>1, <1>4 DEF Least

\* No scan has begun.
LEMMA InitIndInv == Init => IndInv
  BY MaxPidAssumption DEF Init, IndInv, TypeOK, Ahead, Pids

\* opendir starts a scan with all its pids ahead.
LEMMA OpenIndInv == IndInv /\ Open => IndInv'
<1>. SUFFICES ASSUME IndInv, Open PROVE IndInv'
  OBVIOUS
<1>. USE MaxPidAssumption DEF IndInv, TypeOK, Open, Validators, Pids
<1>1. TypeOK'
  OBVIOUS
<1>2. Ahead'
  BY DEF Ahead
<1>. QED BY <1>1, <1>2

\* What is listed is the least pid ahead: nothing is passed over.
LEMMA ListIndInv == IndInv /\ List => IndInv'
<1>. SUFFICES ASSUME IndInv, List PROVE IndInv'
  OBVIOUS
<1>. USE MaxPidAssumption DEF IndInv, TypeOK, List, Pids
<1>1. pos' \in Live /\ \A q \in Live : pos' <= q
  <2>1. Live \in SUBSET Nat
    BY DEF Live
  <2>2. Live # {} /\ pos' = Least(Live)
    OBVIOUS
  <2>. HIDE DEF List, IndInv, TypeOK
  <2>. QED BY <2>1, <2>2, LeastIs, Zenon
<1>2. pos' \in 1..MaxPid
  BY <1>1 DEF Live
<1>3. pc = "list" /\ buffer' = buffer \cup {pos'}
  OBVIOUS
<1>4. TypeOK'
  <2>1. buffer' \in SUBSET Pids
    <3>1. buffer \in SUBSET Pids /\ pos' \in Pids
      BY <1>2
    <3>. HIDE DEF Pids, List, IndInv, TypeOK
    <3>. QED BY <3>1, <1>3
  <2>2. pos' \in 0..MaxPid
    BY <1>2
  <2>. QED BY <2>1, <2>2
<1>5. \A p \in stayed : p > pos' \/ p \in buffer'
  <2>. TAKE p \in stayed
  <2>1. CASE p \in buffer
    BY <1>3, <2>1
  <2>2. CASE p > pos
    <3>1. p \in Live
      BY <2>2 DEF Ahead, Live, Validators
    <3>2. pos' <= p /\ p \in Nat /\ pos' \in Nat
      BY <3>1, <1>1, <1>2
    <3>3. pos' = p \/ p > pos'
      BY <3>2
    <3>. QED BY <3>3, <1>3
  <2>. QED BY <2>1, <2>2, <1>3 DEF Ahead
<1>6. Ahead'
  <2>1. Ahead /\ pc' = pc /\ pid' = pid /\ ran' = ran /\ stayed' = stayed /\ Validators' = Validators
    BY DEF Validators
  <2>. QED BY <2>1, <1>3, <1>5 DEF Ahead
<1>. QED BY <1>4, <1>6

\* The buffer is handed over as it is.
LEMMA ListedIndInv == IndInv /\ Listed => IndInv'
  BY DEF IndInv, TypeOK, Ahead, Listed, Validators

\* The entry taken from the buffer is either the validator, or none that stayed.
LEMMA ExamineIndInv == IndInv /\ Examine => IndInv'
<1>. SUFFICES ASSUME IndInv, Examine PROVE IndInv'
  OBVIOUS
<1>. DEFINE p == Least(buffer)
<1>. USE MaxPidAssumption DEF IndInv, TypeOK, Examine, Pids
<1>1. p \in buffer
  BY LeastIs
<1>. HIDE DEF p
<1>2. CASE proc[p] = "rippled"
  <2>1. p \in ran
    BY <1>1, <1>2 DEF Ahead, Validators
  <2>. QED BY <1>1, <1>2, <2>1 DEF Ahead, Validators, p
<1>3. CASE proc[p] # "rippled"
  <2>1. p \notin stayed
    BY <1>1, <1>3 DEF Ahead, Validators
  <2>2. buffer' = buffer \ {p} /\ pid' = pid /\ pc' \in {"list", "examine"}
    BY <1>3 DEF p
  <2>3. pc' = "examine" => buffer' # {}
    BY <1>3 DEF p
  <2>. QED BY <1>1, <2>1, <2>2, <2>3 DEF Ahead, Validators
<1>. QED BY <1>2, <1>3

\* When nothing is ahead and the buffer is empty, nothing has stayed.
LEMMA EndIndInv == IndInv /\ End => IndInv'
  BY DEF IndInv, TypeOK, Ahead, End, Live, Validators, Pids

\* A process that becomes something else no longer counts as having stayed.
LEMMA ChangeIndInv ==
  ASSUME NEW p \in Pids, NEW kind \in Kinds, IndInv, Change(p, kind)
  PROVE  IndInv'
<1>. USE DEF IndInv, TypeOK, Change
<1>1. TypeOK'
  OBVIOUS
<1>2. Validators' = IF kind = "rippled" THEN Validators \cup {p} ELSE Validators \ {p}
  BY DEF Validators
<1>3. Ahead'
  BY <1>2 DEF Ahead
<1>. QED BY <1>1, <1>3

\* Every step preserves the invariant.
LEMMA StepIndInv == IndInv /\ [Next]_vars => IndInv'
<1>. SUFFICES ASSUME IndInv, [Next]_vars PROVE IndInv'
  OBVIOUS
<1>1. CASE Open
  BY <1>1, OpenIndInv
<1>2. CASE Scan
  BY <1>2, ListIndInv, ListedIndInv, ExamineIndInv, EndIndInv DEF Scan
<1>3. CASE \E p \in Pids, kind \in Kinds : Change(p, kind)
  BY <1>3, ChangeIndInv
<1>4. CASE UNCHANGED vars
  BY <1>4 DEF IndInv, TypeOK, Ahead, Validators, vars
<1>. QED BY <1>1, <1>2, <1>3, <1>4 DEF Next

\* The inductive invariant holds in every reachable state.
LEMMA SpecIndInv == Spec => []IndInv
  BY InitIndInv, StepIndInv, PTL DEF Spec

\* The variables stay in their ranges, for any number of pids.
THEOREM TypeCorrect == Spec => []TypeOK
<1>1. IndInv => TypeOK
  BY DEF IndInv
<1>. QED BY <1>1, SpecIndInv, PTL

\* OK is only reported of a process that was the validator during the scan.
THEOREM OkRan == Spec => []OkWasRunning
<1>1. IndInv => OkWasRunning
  BY DEF IndInv, Ahead, OkWasRunning
<1>. QED BY <1>1, SpecIndInv, PTL

\* A validator that runs all through a scan is never reported missing.
THEOREM SteadyFound == Spec => []SteadyIsFound
<1>1. IndInv => SteadyIsFound
  BY DEF IndInv, Ahead, SteadyIsFound
<1>. QED BY <1>1, SpecIndInv, PTL
=============================================================================
