------------------------ MODULE CircuitBreaker_proofs ------------------------
(* Theorems about CircuitBreaker, for every threshold, every timeout and any *)
(* set of concurrent calls.                                                  *)
EXTENDS CircuitBreaker, TLAPS

(* Between two steps a CLOSED breaker is below its threshold, and a counted  *)
(* probe success is still the latest outcome: any later failure would have   *)
(* reopened the breaker and cleared the count.                               *)
CountersAgree ==
    /\ state = "CLOSED" => failureCount < FailureThreshold
    /\ successCount = 1 => recent[1] = "ok"

(* The inductive invariant. *)
BreakerInv ==
    /\ TypeOK
    /\ CountsConsecutiveFailures
    /\ PeriodsStartClean
    /\ CountersAgree

(* The breaker starts in the invariant. *)
LEMMA InitInv == Init => BreakerInv
  BY BreakerAssumption
  DEF Init, BreakerInv, TypeOK, CountsConsecutiveFailures, PeriodsStartClean,
      CountersAgree, States, Window

(* A success, in whatever state it finds the breaker, keeps the invariant. *)
LEMMA SuccessInv ==
  ASSUME BreakerInv, NEW c \in Calls, OperationSucceeds(c)
  PROVE  BreakerInv'
<1> USE BreakerAssumption
<1>1. recent' \in [Window -> {"ok", "failure"}] /\ recent'[1] = "ok"
  BY DEF OperationSucceeds, Remember, BreakerInv, TypeOK, Window
<1>2. TypeOK'
  BY <1>1 DEF OperationSucceeds, OnSuccess, CountProbe, BreakerInv, TypeOK, States, PeriodsStartClean
<1>3. failureCount' = 0
  BY DEF OperationSucceeds, OnSuccess
<1>4. CountsConsecutiveFailures'
  BY <1>1, <1>3 DEF CountsConsecutiveFailures
<1>5. PeriodsStartClean'
  BY DEF OperationSucceeds, OnSuccess, CountProbe, BreakerInv, TypeOK, PeriodsStartClean
<1>6. CountersAgree'
  BY <1>1, <1>3 DEF CountersAgree
<1> QED  BY <1>2, <1>4, <1>5, <1>6 DEF BreakerInv

(* So does a failure. *)
LEMMA FailureInv ==
  ASSUME BreakerInv, NEW c \in Calls, OperationFails(c)
  PROVE  BreakerInv'
<1> USE BreakerAssumption
<1>1. /\ recent' = [i \in Window |-> IF i = 1 THEN "failure" ELSE recent[i - 1]]
      /\ recent' \in [Window -> {"ok", "failure"}]
  BY DEF OperationFails, Remember, BreakerInv, TypeOK, Window
<1>2. failureCount' = OneMoreFailure /\ failureCount' \in 1..FailureThreshold
  BY DEF OperationFails, OnFailure, OneMoreFailure, BreakerInv, TypeOK
<1>3. TypeOK'
  BY <1>1, <1>2 DEF OperationFails, OnFailure, BreakerInv, TypeOK, States
<1>4. CountsConsecutiveFailures'
  <2>1. ASSUME NEW i \in 1..failureCount'  PROVE recent'[i] = "failure"
    <3>1. CASE i = 1
      BY <1>1, <1>2, <3>1 DEF Window
    <3>2. CASE i # 1
      <4>1. i \in Window /\ i - 1 \in 1..failureCount
        BY <1>2, <3>2 DEF OneMoreFailure, BreakerInv, TypeOK, Window
      <4> QED  BY <1>1, <3>2, <4>1 DEF BreakerInv, CountsConsecutiveFailures
    <3> QED  BY <3>1, <3>2
  <2>2. ASSUME failureCount' < FailureThreshold
        PROVE  recent'[failureCount' + 1] = "ok"
    <3>1. /\ failureCount' = failureCount + 1
          /\ failureCount' + 1 \in Window
          /\ failureCount < FailureThreshold
      BY <1>2, <2>2 DEF OneMoreFailure, BreakerInv, TypeOK, Window
    <3> QED  BY <1>1, <1>2, <3>1 DEF BreakerInv, TypeOK, CountsConsecutiveFailures
  <2> QED  BY <2>1, <2>2 DEF CountsConsecutiveFailures
<1>5. PeriodsStartClean'
  BY DEF OperationFails, OnFailure, BreakerInv, TypeOK, PeriodsStartClean
<1>6. CountersAgree'
  <2>1. successCount' = 0
    BY DEF OperationFails, OnFailure, BreakerInv, PeriodsStartClean
  <2>2. state' = "CLOSED" => failureCount' < FailureThreshold
    BY <1>2 DEF OperationFails, OnFailure, BreakerInv, TypeOK
  <2> QED  BY <2>1, <2>2 DEF CountersAgree
<1> QED  BY <1>3, <1>4, <1>5, <1>6 DEF BreakerInv

(* Every step keeps the invariant. *)
LEMMA NextInv == BreakerInv /\ [Next]_vars => BreakerInv'
<1> USE BreakerAssumption
<1> SUFFICES ASSUME BreakerInv, [Next]_vars
             PROVE  BreakerInv'
  OBVIOUS
<1>1. ASSUME NEW c \in Calls, Admit(c)  PROVE BreakerInv'
  BY <1>1 DEF Admit, ShouldAttemptReset, BreakerInv, TypeOK, States,
              CountsConsecutiveFailures, PeriodsStartClean, CountersAgree
<1>2. ASSUME NEW c \in Calls, Refuse(c)  PROVE BreakerInv'
  BY <1>2 DEF Refuse, BreakerInv, TypeOK, CountsConsecutiveFailures,
              PeriodsStartClean, CountersAgree
<1>3. ASSUME NEW c \in Calls, OperationSucceeds(c)  PROVE BreakerInv'
  BY <1>3, SuccessInv
<1>4. ASSUME NEW c \in Calls, OperationFails(c)  PROVE BreakerInv'
  BY <1>4, FailureInv
<1>5. CASE Reset
  BY <1>5 DEF Reset, BreakerInv, TypeOK, States, Window, CountsConsecutiveFailures,
              PeriodsStartClean, CountersAgree
<1>6. CASE Tick
  BY <1>6 DEF Tick, BreakerInv, TypeOK, CountsConsecutiveFailures,
              PeriodsStartClean, CountersAgree
<1>7. CASE UNCHANGED vars
  BY <1>7 DEF vars, BreakerInv, TypeOK, CountsConsecutiveFailures,
              PeriodsStartClean, CountersAgree
<1> QED  BY <1>1, <1>2, <1>3, <1>4, <1>5, <1>6, <1>7 DEF Next

(* The inductive invariant holds in every reachable state. *)
THEOREM Invariance == Spec => []BreakerInv
<1> QED  BY InitInv, NextInv, PTL DEF Spec

(* Type correctness of the breaker object of helpers/circuitBreaker.js. *)
THEOREM TypeCorrect == Spec => []TypeOK
<1>1. BreakerInv => TypeOK
  BY DEF BreakerInv
<1> QED  BY <1>1, Invariance, PTL

(* failureCount is the length of the current run of failures, whatever the   *)
(* order in which concurrent calls settle.                                   *)
THEOREM FailuresAreConsecutive == Spec => []CountsConsecutiveFailures
<1>1. BreakerInv => CountsConsecutiveFailures
  BY DEF BreakerInv
<1> QED  BY <1>1, Invariance, PTL

(* A full window of failures never leaves the breaker CLOSED. *)
THEOREM Trips == Spec => []TripsAtThreshold
<1>1. BreakerInv => TripsAtThreshold
  <2> SUFFICES ASSUME BreakerInv, AllRecentFailed, state = "CLOSED"
               PROVE  FALSE
    BY DEF TripsAtThreshold
  <2>1. failureCount < FailureThreshold /\ failureCount + 1 \in Window
    BY BreakerAssumption DEF BreakerInv, TypeOK, CountersAgree, Window
  <2> QED  BY <2>1 DEF BreakerInv, CountsConsecutiveFailures, AllRecentFailed
<1> QED  BY <1>1, Invariance, PTL

(* Each HALF_OPEN period starts with no success counted, and the cool-down   *)
(* is never measured from null.                                              *)
THEOREM CleanPeriods == Spec => []PeriodsStartClean
<1>1. BreakerInv => PeriodsStartClean
  BY DEF BreakerInv
<1> QED  BY <1>1, Invariance, PTL

(* The CLOSED, OPEN and HALF_OPEN transitions of the breaker happen for the  *)
(* reasons its header gives, however late the in-flight calls settle.        *)
THEOREM EarnedTransitions == Spec => TransitionsAreEarned
<1> USE BreakerAssumption
<1>1. ASSUME BreakerInv, BreakerInv', [Next]_vars
      PROVE  [EarnedTransition]_vars
  <2>1. ASSUME NEW c \in Calls, Admit(c) \/ Refuse(c)  PROVE EarnedTransition
    BY <2>1 DEF Admit, Refuse, EarnedTransition
  <2>2. ASSUME NEW c \in Calls, OperationSucceeds(c)  PROVE EarnedTransition
    <3>1. /\ state # "HALF_OPEN" => state' = state
          /\ state' \in {state, "CLOSED"}
      BY <2>2 DEF OperationSucceeds, OnSuccess, CountProbe
    <3>2. ASSUME state = "HALF_OPEN", state' = "CLOSED",
                 NEW i \in Window \intersect 1..2
          PROVE  recent'[i] = "ok"
      <4>1. successCount = 1
        BY <1>1, <2>2, <3>2 DEF OperationSucceeds, OnSuccess, CountProbe, BreakerInv, TypeOK
      <4>2. recent[1] = "ok"
        BY <1>1, <4>1 DEF BreakerInv, CountersAgree
      <4> QED  BY <2>2, <4>2 DEF OperationSucceeds, Remember, Window
    <3> QED  BY <3>1, <3>2 DEF EarnedTransition
  <2>3. ASSUME NEW c \in Calls, OperationFails(c)  PROVE EarnedTransition
    <3>1. /\ state' \in {state, "OPEN"}
          /\ state = "CLOSED" /\ state' = "OPEN" => failureCount' = FailureThreshold
      BY <1>1, <2>3 DEF OperationFails, OnFailure, OneMoreFailure, BreakerInv, TypeOK
    <3>2. recent'[1] = "failure"
      BY <2>3 DEF OperationFails, Remember, Window
    <3>3. failureCount' = FailureThreshold => AllRecentFailed'
      BY <1>1 DEF BreakerInv, CountsConsecutiveFailures, AllRecentFailed, Window
    <3> QED  BY <3>1, <3>2, <3>3 DEF EarnedTransition
  <2>4. CASE Reset
    BY <2>4 DEF EarnedTransition
  <2>5. CASE Tick
    BY <2>5 DEF Tick, EarnedTransition
  <2> QED  BY <1>1, <2>1, <2>2, <2>3, <2>4, <2>5 DEF Next
<1>2. BreakerInv /\ BreakerInv' /\ [Next]_vars => [EarnedTransition]_vars
  BY <1>1
<1> QED  BY <1>2, Invariance, PTL DEF Spec, TransitionsAreEarned

(* While OPEN the protected service sees no call before the cool-down that   *)
(* follows the latest failure is over.                                       *)
THEOREM Shield == Spec => OpenShieldsTheService
<1>1. ASSUME BreakerInv, [Next]_vars
      PROVE  [ShieldedStart]_vars
  <2>1. ASSUME NEW c \in Calls, Admit(c)  PROVE ShieldedStart
    BY <1>1, <2>1 DEF Admit, ShouldAttemptReset, ShieldedStart, BreakerInv, PeriodsStartClean
  <2>2. ASSUME NEW c \in Calls, Refuse(c) \/ OperationSucceeds(c) \/ OperationFails(c)
        PROVE  ShieldedStart
    BY <1>1, <2>2 DEF Refuse, OperationSucceeds, OperationFails, ShieldedStart, BreakerInv, TypeOK
  <2>3. CASE Reset \/ Tick
    BY <2>3 DEF Reset, Tick, ShieldedStart
  <2> QED  BY <1>1, <2>1, <2>2, <2>3 DEF Next
<1>2. BreakerInv /\ [Next]_vars => [ShieldedStart]_vars
  BY <1>1
<1> QED  BY <1>2, Invariance, PTL DEF Spec, OpenShieldsTheService
=============================================================================
