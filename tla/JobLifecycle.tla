---------------------------- MODULE JobLifecycle ----------------------------
(***************************************************************************)
(* What the jobs table promises its readers (knowledge/admin/jobs/en.md,   *)
(* "Job Lifecycle"): a job is created pending, is processed, ends          *)
(* completed, permanently, or failed; a failed job that has attempts left  *)
(* may be made pending again, which counts as an attempt.                  *)
(***************************************************************************)
EXTENDS Naturals

CONSTANTS
    Jobs,
    MaxAttempts

VARIABLES
    status,
    attempts

vars == <<status, attempts>>

Init ==
    /\ status = [j \in Jobs |-> "absent"]
    /\ attempts = [j \in Jobs |-> 0]

Move(j, from, to) ==
    /\ status[j] \in from
    /\ status' = [status EXCEPT ![j] = to]

Create(j) == Move(j, {"absent"}, "pending") /\ UNCHANGED attempts

Start(j) == Move(j, {"pending"}, "processing") /\ UNCHANGED attempts

Complete(j) == Move(j, {"processing"}, "completed") /\ UNCHANGED attempts

(* A job fails while it runs, or because it could not be sent at all. *)
Fail(j) == Move(j, {"pending", "processing"}, "failed") /\ UNCHANGED attempts

Retry(j) ==
    /\ attempts[j] < MaxAttempts
    /\ Move(j, {"failed"}, "pending")
    /\ attempts' = [attempts EXCEPT ![j] = @ + 1]

Next == \E j \in Jobs : Create(j) \/ Start(j) \/ Complete(j) \/ Fail(j) \/ Retry(j)

Spec == Init /\ [][Next]_vars
=============================================================================
