--------------------------- MODULE CircuitBreaker ---------------------------
(***************************************************************************)
(* helpers/circuitBreaker.js: one CircuitBreaker object and the calls of   *)
(* its execute() that are in flight.                                       *)
(*                                                                         *)
(* execute() decides on admission, then awaits operation(); its success or *)
(* failure handler runs later, in whatever state the breaker is by then.   *)
(* The two halves are therefore separate actions, and any number of other  *)
(* calls, clock ticks or resets may fall between them.                     *)
(*                                                                         *)
(* Two data abstractions, both exact for what the code computes:           *)
(*  - Date.now() - lastFailureTime is kept as sinceFailure, the ticks since *)
(*    the last failure, saturating at RecoveryTimeout (the code only asks   *)
(*    whether it is >= recoveryTimeout);                                    *)
(*  - failureCount saturates at FailureThreshold (the code only asks        *)
(*    whether it is >= failureThreshold).                                   *)
(***************************************************************************)
EXTENDS Integers

CONSTANTS
    Calls,             \* calls of execute() that may be in flight together
    FailureThreshold,  \* options.failureThreshold
    RecoveryTimeout,   \* options.recoveryTimeout, in clock ticks
    None               \* the null of lastFailureTime

ASSUME BreakerAssumption ==
    /\ FailureThreshold \in Nat \ {0}
    /\ RecoveryTimeout \in Nat \ {0}
    /\ None \notin Nat

VARIABLES
    state,         \* this.state
    failureCount,  \* this.failureCount
    sinceFailure,  \* Date.now() - this.lastFailureTime, None while that is null
    successCount,  \* this.successCount
    call,          \* call[c]: where call c of execute() stands
    recent         \* history: recent[i] is the i-th latest outcome of an operation
                   \* since construction or reset(), "ok" where there was none

vars == <<state, failureCount, sinceFailure, successCount, call, recent>>

States == {"CLOSED", "OPEN", "HALF_OPEN"}

Window == 1..FailureThreshold

TypeOK ==
    /\ state \in States
    /\ failureCount \in 0..FailureThreshold
    /\ sinceFailure \in 0..RecoveryTimeout \union {None}
    /\ successCount \in 0..1
    /\ call \in [Calls -> {"idle", "running", "resolved", "failed", "refused"}]
    /\ recent \in [Window -> {"ok", "failure"}]

-----------------------------------------------------------------------------

Init ==
    /\ state = "CLOSED"
    /\ failureCount = 0
    /\ sinceFailure = None
    /\ successCount = 0
    /\ call = [c \in Calls |-> "idle"]
    /\ recent = [i \in Window |-> "ok"]

(* Mutant: the difference is compared in the wrong unit. *)
ShouldAttemptResetEarly == sinceFailure # 0

(* null counts as time 0, so the difference is then the current time. *)
ShouldAttemptReset == sinceFailure \in {None, RecoveryTimeout}

(* execute() up to the await: the operation is started. *)
Admit(c) ==
    /\ call[c] # "running"
    /\ \/ /\ state # "OPEN"
          /\ UNCHANGED state
       \/ /\ state = "OPEN"
          /\ ShouldAttemptReset
          /\ state' = "HALF_OPEN"
    /\ call' = [call EXCEPT ![c] = "running"]
    /\ UNCHANGED <<failureCount, sinceFailure, successCount, recent>>

(* execute() throws without starting the operation. *)
Refuse(c) ==
    /\ call[c] # "running"
    /\ state = "OPEN"
    /\ ~ShouldAttemptReset
    /\ call' = [call EXCEPT ![c] = "refused"]
    /\ UNCHANGED <<state, failureCount, sinceFailure, successCount, recent>>

Remember(outcome) ==
    recent' = [i \in Window |-> IF i = 1 THEN outcome ELSE recent[i - 1]]

(* What a success does to a probing breaker that needs n successes. *)
CountProbe(n) ==
    \/ /\ successCount + 1 >= n
       /\ state' = "CLOSED"
       /\ successCount' = 0
    \/ /\ successCount + 1 < n
       /\ successCount' = successCount + 1
       /\ UNCHANGED state

(* Mutants: one success too many is asked for; the failure count survives a  *)
(* success; a success counts in every state but CLOSED; the counter is       *)
(* reset without closing.                                                    *)
OnSuccessThreeProbes ==
    /\ failureCount' = 0
    /\ IF state = "HALF_OPEN" THEN CountProbe(3) ELSE UNCHANGED <<state, successCount>>
    /\ UNCHANGED sinceFailure

OnSuccessKeepsFailures ==
    /\ IF state = "HALF_OPEN" THEN CountProbe(2) ELSE UNCHANGED <<state, successCount>>
    /\ UNCHANGED <<failureCount, sinceFailure>>

OnSuccessInAnyState ==
    /\ failureCount' = 0
    /\ IF state # "CLOSED" THEN CountProbe(2) ELSE UNCHANGED <<state, successCount>>
    /\ UNCHANGED sinceFailure

OnSuccessNeverCloses ==
    /\ failureCount' = 0
    /\ successCount' = IF state = "HALF_OPEN" THEN (successCount + 1) % 2 ELSE successCount
    /\ UNCHANGED <<state, sinceFailure>>

OnSuccess ==
    /\ failureCount' = 0
    /\ \/ /\ state = "HALF_OPEN"
          /\ CountProbe(2)
       \/ /\ state # "HALF_OPEN"
          /\ UNCHANGED <<state, successCount>>
    /\ UNCHANGED sinceFailure

OneMoreFailure == IF failureCount < FailureThreshold THEN failureCount + 1
                                                     ELSE FailureThreshold

(* Mutants: the threshold is exceeded rather than reached; a failed probe    *)
(* keeps the successes counted so far.                                       *)
OnFailureLate ==
    /\ failureCount' = OneMoreFailure
    /\ sinceFailure' = 0
    /\ successCount' = IF state = "HALF_OPEN" THEN 0 ELSE successCount
    /\ state' = IF state = "HALF_OPEN" \/ failureCount >= FailureThreshold
                THEN "OPEN" ELSE state

OnFailureKeepsSuccesses ==
    /\ failureCount' = OneMoreFailure
    /\ sinceFailure' = 0
    /\ state' = IF state = "HALF_OPEN" \/ failureCount' >= FailureThreshold
                THEN "OPEN" ELSE state
    /\ UNCHANGED successCount

OnFailure ==
    /\ failureCount' = OneMoreFailure
    /\ sinceFailure' = 0
    /\ \/ /\ state = "HALF_OPEN"
          /\ state' = "OPEN"
          /\ successCount' = 0
       \/ /\ state # "HALF_OPEN"
          /\ state' = IF failureCount' >= FailureThreshold THEN "OPEN" ELSE state
          /\ UNCHANGED successCount

(* The second half of execute(): the awaited operation of call c settles. *)
OperationSucceeds(c) ==
    /\ call[c] = "running"
    /\ OnSuccess
    /\ call' = [call EXCEPT ![c] = "resolved"]
    /\ Remember("ok")

OperationFails(c) ==
    /\ call[c] = "running"
    /\ OnFailure
    /\ call' = [call EXCEPT ![c] = "failed"]
    /\ Remember("failure")

Reset ==
    /\ state' = "CLOSED"
    /\ failureCount' = 0
    /\ successCount' = 0
    /\ sinceFailure' = None
    /\ recent' = [i \in Window |-> "ok"]
    /\ UNCHANGED call

Tick ==
    /\ sinceFailure # None
    /\ sinceFailure < RecoveryTimeout
    /\ sinceFailure' = sinceFailure + 1
    /\ UNCHANGED <<state, failureCount, successCount, call, recent>>

Next ==
    \/ \E c \in Calls : Admit(c) \/ Refuse(c) \/ OperationSucceeds(c) \/ OperationFails(c)
    \/ Reset
    \/ Tick

Spec == Init /\ [][Next]_vars

(* Time passes, every started operation settles, and the application keeps *)
(* calling execute(). Nobody is obliged to press reset().                  *)
Fairness ==
    /\ WF_vars(Tick)
    /\ WF_vars(\E c \in Calls : Admit(c))
    /\ \A c \in Calls : WF_vars(OperationSucceeds(c) \/ OperationFails(c))

FairSpec == Spec /\ Fairness

-----------------------------------------------------------------------------
(* Properties *)

AllRecentFailed == \A i \in Window : recent[i] = "failure"

(* The counter is the length of the current run of failures: a late success *)
(* of a call admitted long ago, or a reset(), restarts it, and nothing else  *)
(* does.                                                                     *)
CountsConsecutiveFailures ==
    /\ \A i \in 1..failureCount : recent[i] = "failure"
    /\ failureCount < FailureThreshold => recent[failureCount + 1] = "ok"

(* knowledge/admin/queue/en.md:61, "opens after 5 consecutive failures":     *)
(* once the latest FailureThreshold outcomes are all failures the breaker is *)
(* no longer CLOSED, in whatever order the in-flight calls settled.          *)
TripsAtThreshold == AllRecentFailed => state # "CLOSED"

(* Successes are counted towards closing only while HALF_OPEN, so a new      *)
(* HALF_OPEN period always starts from zero; and an OPEN breaker always      *)
(* knows when it failed, so its cool-down is never measured from null.       *)
PeriodsStartClean ==
    /\ state # "HALF_OPEN" => successCount = 0
    /\ state # "CLOSED" => sinceFailure # None

(* A CLOSED breaker opens only on a full window of failures, while a probing *)
(* one opens on the first failure and closes only when its two latest        *)
(* outcomes, at least, are successes; an OPEN breaker never closes directly, *)
(* whatever late success arrives. reset() alone is exempt.                   *)
EarnedTransition ==
    \/ Reset
    \/ /\ state = "CLOSED" /\ state' = "OPEN" => AllRecentFailed'
       /\ state = "HALF_OPEN" /\ state' = "OPEN" => recent'[1] = "failure"
       /\ state = "HALF_OPEN" /\ state' = "CLOSED" =>
             \A i \in Window \intersect 1..2 : recent'[i] = "ok"
       /\ ~(state = "OPEN" /\ state' = "CLOSED")
       /\ ~(state = "CLOSED" /\ state' = "HALF_OPEN")

TransitionsAreEarned == [][EarnedTransition]_vars

(* An OPEN breaker shields the service: no operation starts before a full    *)
(* RecoveryTimeout has passed without any failure, the late failures of      *)
(* calls admitted earlier included.                                          *)
ShieldedStart ==
    \A c \in Calls :
       (state = "OPEN" /\ call[c] # "running" /\ call'[c] = "running")
          => state' = "HALF_OPEN" /\ sinceFailure = RecoveryTimeout

OpenShieldsTheService == [][ShieldedStart]_vars

(* If operations stop failing, the breaker closes and stays closed: stale    *)
(* failures of earlier calls can only delay that.                            *)
Recovers ==
    <>[][\A c \in Calls : ~OperationFails(c)]_vars => <>[](state = "CLOSED")
=============================================================================
