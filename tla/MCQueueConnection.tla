-------------------------- MODULE MCQueueConnection --------------------------
(* Small instances of QueueConnection for TLC. *)
EXTENDS QueueConnection

AllFaults == FaultKinds
=============================================================================
