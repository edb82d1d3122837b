-------------------------- MODULE HeartbeatProofs --------------------------
(* Proofs about Heartbeat, for any set of nodes and any periods that meet  *)
(* PeriodAssumption and BeatAssumption.                                    *)
EXTENDS Heartbeat, TLAPS

(* The age of a record is bounded by the time since the last scan, which   *)
(* left no record over Limit; only the running scan may hold older ones.   *)
AgeInv ==
    \A n \in Node :
        age[n] <= Limit + ScanPeriod - (IF n \in stale THEN 0 ELSE scanIn)

(* Time stands still while a scan deletes.                                 *)
ScanInv == stale # {} => scanIn = ScanPeriod

(* For a reliable node: how old its record can be in each of its phases.   *)
MaxAge(n) ==
    CASE phase[n] = "post"  -> HttpTimeout + BeatSleep + timer[n]
      [] phase[n] = "reply" -> timer[n]
      [] phase[n] = "rest"  -> HttpTimeout + timer[n]
      [] OTHER              -> NoRecord

ReliableInv ==
    \A n \in Reliable :
        /\ n \notin stale
        /\ ~late[n]
        /\ phase[n] # "retry"
        /\ timer[n] <= Deadline(phase[n])
        /\ age[n] <= MaxAge(n)

IInv == TypeOK /\ AgeInv /\ ScanInv /\ ReliableInv

----------------------------------------------------------------------------
LEMMA InitIInv == Init => IInv
BY PeriodAssumption
DEF Init, IInv, TypeOK, AgeInv, ScanInv, ReliableInv, MaxAge, Deadline,
    Phase, NoRecord

(* In every state of the invariant the record of a reliable node is within *)
(* the limit: this is where the code's 30 + 60 + 30 s meet its 2 min.      *)
LEMMA ReliableIsFresh ==
    ASSUME IInv, NEW n \in Reliable
    PROVE  ~IsStale(age[n])
BY PeriodAssumption, BeatAssumption
DEF IInv, TypeOK, ReliableInv, MaxAge, Deadline, Phase, NoRecord, IsStale

LEMMA StepIInv == IInv /\ [Next]_vars => IInv'
<1> SUFFICES ASSUME IInv, [Next]_vars PROVE IInv'
  OBVIOUS
<1> USE PeriodAssumption, BeatAssumption DEF NoRecord, ScanDue, AfterPurge
<1>1. ASSUME NEW n \in Node, NodeStep(n) PROVE IInv'
  <2>1. TypeOK'
    <3>1. phase' \in [Node -> Phase] /\ timer' \in [Node -> Nat]
      BY <1>1 DEF IInv, TypeOK, NodeStep, Start, Stop, Handle, HandleLate,
         Answer, Fail, WakeUp, Enter, Phase
    <3>2. late' \in [Node -> BOOLEAN]
      BY <1>1 DEF IInv, TypeOK, NodeStep, Start, Stop, Handle, HandleLate,
         Answer, Fail, LeavePost, WakeUp
    <3>3. age' \in [Node -> Nat \cup {NoRecord}]
      BY <1>1 DEF IInv, TypeOK, NodeStep, Start, Stop, Handle, HandleLate,
         Answer, Fail, WakeUp
    <3>4. scanIn' = scanIn /\ stale' = stale
      BY <1>1 DEF NodeStep, Start, Stop, Handle, HandleLate, Answer, Fail,
         WakeUp
    <3> QED BY <3>1, <3>2, <3>3, <3>4 DEF IInv, TypeOK
  <2>2. AgeInv'
    BY <1>1 DEF IInv, TypeOK, AgeInv, NodeStep, Start, Stop, Handle,
       HandleLate, Answer, Fail, LeavePost, WakeUp, Enter
  <2>3. ScanInv'
    BY <1>1 DEF IInv, ScanInv, NodeStep, Start, Stop, Handle, HandleLate,
       Answer, Fail, LeavePost, WakeUp, Enter
  <2>4. ReliableInv'
    <3>1. CASE n \notin Reliable
      BY <1>1, <3>1 DEF IInv, TypeOK, ReliableInv, MaxAge, NodeStep, Start,
         Stop, Handle, HandleLate, Answer, Fail, LeavePost, WakeUp, Enter
    <3>2. CASE n \in Reliable
      <4> USE <3>2 DEF IInv, TypeOK, ReliableInv, MaxAge, Deadline, Phase, Enter
      <4>1. ASSUME Start(n) PROVE ReliableInv'
        BY <4>1 DEF Start
      <4>2. ASSUME Handle(n) \/ HandleLate(n) PROVE ReliableInv'
        BY <4>2 DEF Handle, HandleLate
      <4>3. ASSUME Answer(n) PROVE ReliableInv'
        BY <4>3 DEF Answer
      <4>4. ASSUME WakeUp(n) PROVE ReliableInv'
        BY <4>4 DEF WakeUp
      <4> QED BY <1>1, <4>1, <4>2, <4>3, <4>4 DEF NodeStep, Stop, Fail
    <3> QED BY <3>1, <3>2
  <2> QED BY <2>1, <2>2, <2>3, <2>4 DEF IInv
<1>2. ASSUME Scan PROVE IInv'
  <2>1. TypeOK' /\ ScanInv'
    BY <1>2 DEF IInv, TypeOK, ScanInv, Scan
  <2>2. AgeInv'
    BY <1>2 DEF IInv, TypeOK, AgeInv, Scan, IsStale
  <2>3. ReliableInv'
    <3>1. \A n \in Reliable : n \notin stale'
      BY <1>2, ReliableIsFresh DEF Scan
    <3> QED BY <1>2, <3>1 DEF IInv, ReliableInv, MaxAge, Scan
  <2> QED BY <2>1, <2>2, <2>3 DEF IInv
<1>3. ASSUME NEW n \in Node, Purge(n) PROVE IInv'
  BY <1>3 DEF IInv, TypeOK, AgeInv, ScanInv, ReliableInv, MaxAge, Purge
<1>4. ASSUME Tick PROVE IInv'
  <2>1. TypeOK' /\ ScanInv'
    BY <1>4 DEF IInv, TypeOK, ScanInv, Tick
  <2>2. AgeInv'
    BY <1>4 DEF IInv, TypeOK, AgeInv, Tick
  <2>3. ReliableInv'
    BY <1>4 DEF IInv, TypeOK, ReliableInv, MaxAge, Deadline, Phase, Tick
  <2> QED BY <2>1, <2>2, <2>3 DEF IInv
<1>5. ASSUME UNCHANGED vars PROVE IInv'
  BY <1>5 DEF IInv, TypeOK, AgeInv, ScanInv, ReliableInv, MaxAge, vars
<1> QED BY <1>1, <1>2, <1>3, <1>4, <1>5 DEF Next

THEOREM Invariance == Spec => []IInv
BY InitIInv, StepIInv, PTL DEF Spec

----------------------------------------------------------------------------
(* The registry, the timers and the scan keep their types.                 *)
THEOREM TypeCorrect == Spec => []TypeOK
<1>1. IInv => TypeOK
  BY DEF IInv
<1> QED BY <1>1, Invariance, PTL

(* CleanInactiveNodes: no record outlives Limit + ScanPeriod.              *)
THEOREM RecordAgeBound == Spec => []RecordAgeBounded
<1>1. IInv => RecordAgeBounded
  <2> SUFFICES ASSUME IInv, NEW n \in Node
               PROVE  age[n] <= Limit + ScanPeriod
    BY DEF RecordAgeBounded
  <2>1. age[n] \in Int /\ scanIn \in Nat /\ Limit \in Nat /\ ScanPeriod \in Nat
    BY PeriodAssumption DEF IInv, TypeOK, NoRecord
  <2>2. age[n] <= Limit + ScanPeriod \/ age[n] <= Limit + ScanPeriod - scanIn
    BY <2>1 DEF IInv, AgeInv
  <2> QED BY <2>1, <2>2
<1> QED BY <1>1, Invariance, PTL

(* SubscribeNode's loop against CleanInactiveNodes: a reliable node stays  *)
(* registered, for every choice of periods with 2 * HttpTimeout +          *)
(* BeatSleep <= Limit.                                                     *)
THEOREM ReliableStays == Spec => ReliableNeverPurged
<1>1. ASSUME IInv, [Next]_vars, NEW n \in Reliable, age[n] # NoRecord
      PROVE  age'[n] # NoRecord
  <2> USE PeriodAssumption DEF NoRecord, IInv, TypeOK
  <2>1. ASSUME NEW m \in Node, NodeStep(m) PROVE age'[n] # NoRecord
    BY <1>1, <2>1 DEF NodeStep, Start, Stop, Handle, HandleLate, Answer, Fail,
       LeavePost, WakeUp, Enter
  <2>2. ASSUME NEW m \in Node, Purge(m) PROVE age'[n] # NoRecord
    <3>1. n # m
      BY <1>1, <2>2 DEF Purge, ReliableInv
    <3> QED BY <1>1, <2>2, <3>1 DEF Purge
  <2>3. ASSUME Scan PROVE age'[n] # NoRecord
    BY <1>1, <2>3 DEF Scan
  <2>4. ASSUME Tick PROVE age'[n] # NoRecord
    BY <1>1, <2>4 DEF Tick
  <2>5. ASSUME UNCHANGED vars PROVE age'[n] # NoRecord
    BY <1>1, <2>5 DEF vars
  <2> QED BY <1>1, <2>1, <2>2, <2>3, <2>4, <2>5 DEF Next
<1>2. IInv /\ [Next]_vars
        => [\A n \in Reliable : age[n] # NoRecord => age'[n] # NoRecord]_vars
  BY <1>1
<1> QED BY <1>2, Invariance, PTL DEF Spec, ReliableNeverPurged
=============================================================================
