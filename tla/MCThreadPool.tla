--------------------------- MODULE MCThreadPool ---------------------------
(* Instances of ThreadPool for TLC. *)
EXTENDS ThreadPool, TLC

(* A negative max_remaining_jobs, which the code clamps, and 1. *)
MCWaitArgs == {-1, 1}

JobSymmetry == Permutations(Jobs)

=============================================================================
