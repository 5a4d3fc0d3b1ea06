------------------------------ MODULE JobPool ------------------------------
(***************************************************************************)
(* What thread.h promises of a thread pool, without threads: jobs that are *)
(* submitted, run at some later time, in any order and at most Capacity at *)
(* a time in the pool; a wait that returns only when few enough jobs are   *)
(* left; a destruction that ends when every job is done.                   *)
(***************************************************************************)
EXTENDS Integers, FiniteSets

CONSTANTS
    Jobs,
    Capacity         (* the most jobs that may be queued or running at once *)

VARIABLES
    status,          (* where each job is                                   *)
    call,            (* the call of the client that is in progress, if any  *)
    remaining        (* the max_remaining_jobs of opj_thread_pool_wait_completion *)

vars == <<status, call, remaining>>

Unfinished == {j \in Jobs : status[j] \in {"queued", "running"}}

Init ==
    /\ status = [j \in Jobs |-> "new"]
    /\ call = "none"
    /\ remaining = 0

Enter(j) ==
    /\ call = "none"
    /\ status[j] = "new"
    /\ Cardinality(Unfinished) < Capacity
    /\ status' = [status EXCEPT ![j] = "queued"]
    /\ UNCHANGED <<call, remaining>>

(* A pool made without threads runs the job before submit returns. *)
RunInCall(j) ==
    /\ call = "none"
    /\ status[j] = "new"
    /\ status' = [status EXCEPT ![j] = "done"]
    /\ UNCHANGED <<call, remaining>>

Start(j) ==
    /\ status[j] = "queued"
    /\ status' = [status EXCEPT ![j] = "running"]
    /\ UNCHANGED <<call, remaining>>

Finish(j) ==
    /\ status[j] = "running"
    /\ status' = [status EXCEPT ![j] = "done"]
    /\ UNCHANGED <<call, remaining>>

Wait ==
    /\ call = "none"
    /\ call' = "wait"
    /\ remaining' \in Nat
    /\ UNCHANGED status

WaitReturns ==
    /\ call = "wait"
    /\ Cardinality(Unfinished) <= remaining
    /\ call' = "none"
    /\ remaining' = 0
    /\ UNCHANGED status

Close ==
    /\ call = "none"
    /\ call' = "closing"
    /\ UNCHANGED <<status, remaining>>

(* The pool is freed: after a Close, or when it could not be made at all. *)
Closed ==
    /\ call \in {"none", "closing"}
    /\ Unfinished = {}
    /\ call' = "closed"
    /\ UNCHANGED <<status, remaining>>

Next ==
    \/ \E j \in Jobs : Enter(j) \/ RunInCall(j) \/ Start(j) \/ Finish(j)
    \/ Wait \/ WaitReturns \/ Close \/ Closed

Spec == Init /\ [][Next]_vars

=============================================================================
