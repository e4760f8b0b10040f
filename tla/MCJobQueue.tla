----------------------------- MODULE MCJobQueue -----------------------------
(* Small instances of JobQueue for TLC. *)
EXTENDS JobQueue, TLC

AllFaults == FaultKinds

JobSymmetry == Permutations(Jobs) \union Permutations(Workers) \union Permutations(Retriers)
=============================================================================
