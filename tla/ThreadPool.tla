----------------------------- MODULE ThreadPool -----------------------------
(***************************************************************************)
(* The OpenJPEG worker thread pool (openjpeg/src/lib/openjp2/thread.c).    *)
(*                                                                         *)
(* One client thread (the codec that owns the pool) creates the pool,      *)
(* submits jobs, waits for them and destroys the pool.  Workers fetch jobs *)
(* from a LIFO list.  Two kinds of mutex and condition variable protect    *)
(* the pool: tp->mutex / tp->cond, on which only the client ever waits,    *)
(* and one mutex / cond pair per worker, on which only that worker waits.  *)
(*                                                                         *)
(* A critical section of tp->mutex is one step, unless the code takes a    *)
(* second mutex inside it: then tp_mutex stays owned between the steps.    *)
(***************************************************************************)
EXTENDS Integers, Sequences, FiniteSets

CONSTANTS
    NumThreads,        (* the largest num_threads asked of create           *)
    Jobs,              (* the jobs the client may submit, each at most once *)
    QueueFactor,       (* the 100 of "100 * tp->worker_threads_count"       *)
    WaitArgs,          (* values of max_remaining_jobs the client passes    *)
    MaxFailures,       (* bound: failing allocations and thread creations   *)
    MaxSpurious,       (* bound: spurious returns of a condition wait       *)
    NoJob              (* the NULL job                                      *)

ASSUME NumThreadsAssumption  == NumThreads \in Nat
ASSUME QueueFactorAssumption == QueueFactor \in Nat \ {0}
ASSUME WaitArgsAssumption    == WaitArgs \subseteq Int
ASSUME BoundsAssumption      == MaxFailures \in Nat /\ MaxSpurious \in Nat
ASSUME NoJobAssumption       == NoJob \notin Jobs
ASSUME JobsAssumption        == IsFiniteSet(Jobs)

Worker == 1..NumThreads
Client == 0
Free   == -1                        (* an unlocked mutex *)
Thread == Worker \union {Client}

VARIABLES
    (* struct opj_thread_pool_t *)
    tp_mutex, state, job_queue, pending_jobs_count, waiting_list,
    waiting_count, worker_threads_count, signaling_threshold,
    (* struct opj_worker_thread_t, and where each worker's code stands *)
    wpc, wmutex, marked, wjob, job_finished,
    (* the client thread: where it stands and the locals of its call *)
    cpc, cjob, cmax, ci, destroying, created_ok,
    (* what has become of the jobs, and the bounded environment *)
    submitted, runs, failures, spurious

tpVars     == <<tp_mutex, state, job_queue, pending_jobs_count, waiting_list,
                waiting_count, worker_threads_count, signaling_threshold>>
workerVars == <<wpc, wmutex, marked, wjob, job_finished>>
clientVars == <<cpc, cjob, cmax, ci, destroying, created_ok>>
envVars    == <<submitted, runs, failures, spurious>>
vars       == <<tpVars, workerVars, clientVars, envVars>>

WorkerPC == {"none", "get", "own_lock", "cond_wait", "asleep", "woken", "run",
             "exited"}
SleepPC  == {"setup_sleep", "submit_sleep", "wait_sleep"}
WokenPC  == {"setup_woken", "submit_woken", "wait_woken"}
ClientPC == SleepPC \union WokenPC \union
            {"create", "spawn", "setup", "idle", "submit", "signal_lock", "signal",
             "wait", "stop", "signal_exit", "join", "freed"}

(* The program point after the wait of a sleeping client. *)
WokenFrom == [setup_sleep  |-> "setup_woken",
              submit_sleep |-> "submit_woken",
              wait_sleep   |-> "wait_woken"]

PoolTypeOK ==
    /\ tp_mutex \in Thread \union {Free}
    /\ state \in {"OK", "STOP", "ERROR"}
    /\ job_queue \in Seq(Jobs)
    /\ pending_jobs_count \in Int
    /\ waiting_list \in Seq(Worker)
    /\ waiting_count \in Int
    /\ worker_threads_count \in 0..NumThreads
    /\ signaling_threshold \in Nat

WorkerTypeOK ==
    /\ wpc \in [Worker -> WorkerPC]
    /\ wmutex \in [Worker -> Thread \union {Free}]
    /\ marked \in [Worker -> BOOLEAN]
    /\ wjob \in [Worker -> Jobs \union {NoJob}]
    /\ job_finished \in [Worker -> BOOLEAN]

ClientTypeOK ==
    /\ cpc \in ClientPC
    /\ cjob \in Jobs \union {NoJob}
    /\ cmax \in Nat
    /\ ci \in 1..(NumThreads + 1)
    /\ destroying \in BOOLEAN
    /\ created_ok \in BOOLEAN

EnvTypeOK ==
    /\ submitted \subseteq Jobs
    /\ runs \in [Jobs -> Nat]
    /\ failures \in 0..MaxFailures
    /\ spurious \in 0..MaxSpurious

TypeOK == PoolTypeOK /\ WorkerTypeOK /\ ClientTypeOK /\ EnvTypeOK

(***************************************************************************)
(* The structure as calloc leaves it, at the start of the client's         *)
(* opj_thread_pool_create.                                                 *)
(***************************************************************************)
Init ==
    /\ tp_mutex = Free
    /\ state = "OK"
    /\ job_queue = <<>>
    /\ pending_jobs_count = 0
    /\ waiting_list = <<>>
    /\ waiting_count = 0
    /\ worker_threads_count = 0
    /\ signaling_threshold = 0
    /\ wpc = [w \in Worker |-> "none"]
    /\ wmutex = [w \in Worker |-> Free]
    /\ marked = [w \in Worker |-> FALSE]
    /\ wjob = [w \in Worker |-> NoJob]
    /\ job_finished = [w \in Worker |-> FALSE]
    /\ cpc = "create"
    /\ cjob = NoJob
    /\ cmax = 0
    /\ ci = 1
    /\ destroying = FALSE
    /\ created_ok = FALSE
    /\ submitted = {}
    /\ runs = [j \in Jobs |-> 0]
    /\ failures = 0
    /\ spurious = 0

(* An allocation, or the creation of a mutex, cond or thread, that fails. *)
Fail == failures < MaxFailures /\ failures' = failures + 1

(* opj_cond_signal(tp->cond) if b: only the client ever waits on tp->cond. *)
SignalClientIf(b) ==
    cpc' = IF b /\ cpc \in SleepPC THEN WokenFrom[cpc] ELSE cpc

(* opj_cond_signal(worker_thread->cond). *)
SignalWorker(w) ==
    wpc' = IF wpc[w] = "asleep" THEN [wpc EXCEPT ![w] = "woken"] ELSE wpc

-----------------------------------------------------------------------------
(***************************************************************************)
(* opj_worker_thread_function and opj_thread_pool_get_next_job             *)
(***************************************************************************)

(* Mutant: signal_job_finished is not reset, the job is reported again. *)
EnterGetJobNoReset(w) ==
    /\ wpc[w] = "get"
    /\ tp_mutex = Free
    /\ pending_jobs_count' = pending_jobs_count - (IF job_finished[w] THEN 1 ELSE 0)
    /\ job_finished' = job_finished

(* The part of a fetch that reports the job just run.  The pool mutex is   *)
(* free, so the whole critical section is this step.                       *)
EnterGetJob(w) ==
    /\ wpc[w] = "get"
    /\ tp_mutex = Free
    /\ pending_jobs_count' = pending_jobs_count - (IF job_finished[w] THEN 1 ELSE 0)
    /\ job_finished' = [job_finished EXCEPT ![w] = FALSE]

ReportsCompletion(w) ==
    job_finished[w] /\ pending_jobs_count' <= signaling_threshold

(* The pool is stopping: NULL is returned and the thread function ends. *)
GetJobStop(w) ==
    /\ EnterGetJob(w)
    /\ state = "STOP"
    /\ SignalClientIf(ReportsCompletion(w))
    /\ wpc' = [wpc EXCEPT ![w] = "exited"]
    /\ UNCHANGED <<tp_mutex, state, job_queue, waiting_list, waiting_count,
                   worker_threads_count, signaling_threshold, wmutex, marked,
                   wjob, cjob, cmax, ci, destroying, created_ok, envVars>>

(* Mutant: the job's item is not unlinked from the list. *)
GetJobTakeKeepsItem(w) ==
    /\ EnterGetJob(w)
    /\ state # "STOP"
    /\ job_queue # <<>>
    /\ wjob' = [wjob EXCEPT ![w] = Head(job_queue)]
    /\ wpc' = [wpc EXCEPT ![w] = "run"]
    /\ SignalClientIf(ReportsCompletion(w))
    /\ UNCHANGED <<tp_mutex, state, job_queue, waiting_list, waiting_count,
                   worker_threads_count, signaling_threshold, wmutex, marked,
                   cjob, cmax, ci, destroying, created_ok, envVars>>

(* The most recently queued job is taken. *)
GetJobTake(w) ==
    /\ EnterGetJob(w)
    /\ state # "STOP"
    /\ job_queue # <<>>
    /\ job_queue' = Tail(job_queue)
    /\ wjob' = [wjob EXCEPT ![w] = Head(job_queue)]
    /\ wpc' = [wpc EXCEPT ![w] = "run"]
    /\ SignalClientIf(ReportsCompletion(w))
    /\ UNCHANGED <<tp_mutex, state, waiting_list, waiting_count,
                   worker_threads_count, signaling_threshold, wmutex, marked,
                   cjob, cmax, ci, destroying, created_ok, envVars>>

(* Mutant: a worker that is still listed is listed again. *)
GetJobWaitRelists(w) ==
    /\ EnterGetJob(w)
    /\ state # "STOP"
    /\ job_queue = <<>>
    /\ marked' = [marked EXCEPT ![w] = TRUE]
    /\ waiting_count' = waiting_count + 1
    /\ waiting_list' = <<w>> \o waiting_list
    /\ tp_mutex' = w
    /\ wpc' = [wpc EXCEPT ![w] = "own_lock"]
    /\ SignalClientIf(TRUE)
    /\ UNCHANGED <<state, job_queue, worker_threads_count,
                   signaling_threshold, wmutex, wjob, cjob, cmax, ci,
                   destroying, created_ok, envVars>>

(* Mutant: the pool's mutex is released before the worker's is taken. *)
GetJobWaitUnlocks(w) ==
    /\ EnterGetJob(w)
    /\ state # "STOP"
    /\ job_queue = <<>>
    /\ IF marked[w]
       THEN UNCHANGED <<marked, waiting_count, waiting_list>>
       ELSE /\ marked' = [marked EXCEPT ![w] = TRUE]
            /\ waiting_count' = waiting_count + 1
            /\ waiting_list' = <<w>> \o waiting_list
    /\ tp_mutex' = Free
    /\ wpc' = [wpc EXCEPT ![w] = "own_lock"]
    /\ SignalClientIf(TRUE)
    /\ UNCHANGED <<state, job_queue, worker_threads_count,
                   signaling_threshold, wmutex, wjob, cjob, cmax, ci,
                   destroying, created_ok, envVars>>

(* No job: the worker enters the waiting list, unless it is still there    *)
(* after a spurious wakeup, signals that it is ready, and goes on to take  *)
(* its own mutex while it holds the pool's.                                *)
GetJobWait(w) ==
    /\ EnterGetJob(w)
    /\ state # "STOP"
    /\ job_queue = <<>>
    /\ IF marked[w]
       THEN UNCHANGED <<marked, waiting_count, waiting_list>>
       ELSE /\ marked' = [marked EXCEPT ![w] = TRUE]
            /\ waiting_count' = waiting_count + 1
            /\ waiting_list' = <<w>> \o waiting_list
    /\ tp_mutex' = w
    /\ wpc' = [wpc EXCEPT ![w] = "own_lock"]
    /\ SignalClientIf(TRUE)
    /\ UNCHANGED <<state, job_queue, worker_threads_count,
                   signaling_threshold, wmutex, wjob, cjob, cmax, ci,
                   destroying, created_ok, envVars>>

(* No job and no memory for the list item: the worker is counted as        *)
(* waiting without being listed, the pool turns to ERROR, the thread ends. *)
GetJobAllocFails(w) ==
    /\ EnterGetJob(w)
    /\ state # "STOP"
    /\ job_queue = <<>>
    /\ ~marked[w]
    /\ Fail
    /\ marked' = [marked EXCEPT ![w] = TRUE]
    /\ waiting_count' = waiting_count + 1
    /\ state' = "ERROR"
    /\ wpc' = [wpc EXCEPT ![w] = "exited"]
    /\ SignalClientIf(TRUE)
    /\ UNCHANGED <<tp_mutex, job_queue, waiting_list, worker_threads_count,
                   signaling_threshold, wmutex, wjob, cjob, cmax, ci,
                   destroying, created_ok, submitted, runs, spurious>>

(* opj_mutex_lock(worker_thread->mutex); opj_mutex_unlock(tp->mutex). *)
OwnLock(w) ==
    /\ wpc[w] = "own_lock"
    /\ wmutex[w] = Free
    /\ wmutex' = [wmutex EXCEPT ![w] = w]
    /\ tp_mutex' = Free
    /\ wpc' = [wpc EXCEPT ![w] = "cond_wait"]
    /\ UNCHANGED <<state, job_queue, pending_jobs_count, waiting_list,
                   waiting_count, worker_threads_count, signaling_threshold,
                   marked, wjob, job_finished, clientVars, envVars>>

(* opj_cond_wait releases the worker's mutex and puts the thread to sleep. *)
CondWait(w) ==
    /\ wpc[w] = "cond_wait"
    /\ wmutex' = [wmutex EXCEPT ![w] = Free]
    /\ wpc' = [wpc EXCEPT ![w] = "asleep"]
    /\ UNCHANGED <<tpVars, marked, wjob, job_finished, clientVars, envVars>>

(* opj_cond_wait takes the mutex again to return, and the worker drops it. *)
Woken(w) ==
    /\ wpc[w] = "woken"
    /\ wmutex[w] = Free
    /\ wpc' = [wpc EXCEPT ![w] = "get"]
    /\ UNCHANGED <<tpVars, wmutex, marked, wjob, job_finished, clientVars,
                   envVars>>

(* job->job_fn(job->user_data, tls); opj_free(job); job_finished = TRUE. *)
RunJob(w) ==
    /\ wpc[w] = "run"
    /\ runs' = [runs EXCEPT ![wjob[w]] = @ + 1]
    /\ wjob' = [wjob EXCEPT ![w] = NoJob]
    /\ job_finished' = [job_finished EXCEPT ![w] = TRUE]
    /\ wpc' = [wpc EXCEPT ![w] = "get"]
    /\ UNCHANGED <<tpVars, wmutex, marked, clientVars, submitted, failures,
                   spurious>>

(* A condition wait may return without a signal: POSIX allows it, and the  *)
(* code's loops around the waits are there for it.                         *)
SpuriousWorker(w) ==
    /\ wpc[w] = "asleep"
    /\ spurious < MaxSpurious
    /\ spurious' = spurious + 1
    /\ wpc' = [wpc EXCEPT ![w] = "woken"]
    /\ UNCHANGED <<tpVars, wmutex, marked, wjob, job_finished, clientVars,
                   submitted, runs, failures>>

-----------------------------------------------------------------------------
(***************************************************************************)
(* opj_thread_pool_create and opj_thread_pool_setup                        *)
(***************************************************************************)

(* num_threads <= 0: a pool with no mutex and no worker. *)
CreateDummy ==
    /\ cpc = "create"
    /\ cpc' = "idle"
    /\ created_ok' = TRUE
    /\ UNCHANGED <<tpVars, workerVars, cjob, cmax, ci, destroying, envVars>>

Create(num_threads) ==
    /\ cpc = "create"
    /\ worker_threads_count' = num_threads
    /\ created_ok' = TRUE
    /\ cpc' = "spawn"
    /\ UNCHANGED <<tp_mutex, state, job_queue, pending_jobs_count,
                   waiting_list, waiting_count, signaling_threshold,
                   workerVars, cjob, cmax, ci, destroying, envVars>>

(* Starting the destruction is a wait for completion with 0 jobs left. *)
StartDestroy ==
    /\ destroying' = TRUE
    /\ cmax' = 0
    /\ cpc' = "wait"

(* The structure, its mutex or its cond cannot be made: nothing was started *)
(* and nothing is waited for.  Without the array of workers, the pool is    *)
(* destroyed with a count of 0 workers.                                     *)
CreateFails ==
    /\ cpc = "create"
    /\ Fail
    /\ \/ cpc' = "freed" /\ UNCHANGED <<destroying, cmax>>
       \/ StartDestroy
    /\ UNCHANGED <<tpVars, workerVars, cjob, ci, created_ok, submitted, runs,
                   spurious>>

SpawnWorker ==
    /\ cpc = "spawn"
    /\ wpc' = [wpc EXCEPT ![ci] = "get"]
    /\ ci' = ci + 1
    /\ cpc' = IF ci = worker_threads_count THEN "setup" ELSE "spawn"
    /\ UNCHANGED <<tpVars, wmutex, marked, wjob, job_finished, cjob, cmax,
                   destroying, created_ok, envVars>>

(* The mutex, the cond or the thread of worker ci cannot be created. *)
SpawnFails ==
    /\ cpc = "spawn"
    /\ Fail
    /\ worker_threads_count' = ci - 1
    /\ created_ok' = FALSE
    /\ cpc' = "setup"
    /\ UNCHANGED <<tp_mutex, state, job_queue, pending_jobs_count,
                   waiting_list, waiting_count, signaling_threshold,
                   workerVars, cjob, cmax, ci, destroying, submitted, runs,
                   spurious>>

(* Wait until every started worker has reported; a pool that did not come  *)
(* up whole is destroyed at once by opj_thread_pool_create.                *)
SetupWait ==
    /\ cpc \in {"setup", "setup_woken"}
    /\ tp_mutex = Free
    /\ \/ /\ waiting_count < worker_threads_count
          /\ cpc' = "setup_sleep"
          /\ UNCHANGED <<cmax, destroying>>
       \/ /\ waiting_count >= worker_threads_count
          /\ created_ok /\ state # "ERROR"
          /\ cpc' = "idle"
          /\ UNCHANGED <<cmax, destroying>>
       \/ /\ waiting_count >= worker_threads_count
          /\ ~created_ok \/ state = "ERROR"
          /\ StartDestroy
    /\ UNCHANGED <<tpVars, workerVars, cjob, ci, created_ok, envVars>>

-----------------------------------------------------------------------------
(***************************************************************************)
(* opj_thread_pool_submit_job                                              *)
(***************************************************************************)

Dummy == worker_threads_count = 0       (* tp->mutex == NULL *)

(* Without workers the job is run in the call. *)
SubmitToDummy(j) ==
    /\ cpc = "idle" /\ Dummy
    /\ j \notin submitted
    /\ submitted' = submitted \union {j}
    /\ runs' = [runs EXCEPT ![j] = @ + 1]
    /\ UNCHANGED <<tpVars, workerVars, clientVars, failures, spurious>>

Submit(j) ==
    /\ cpc = "idle" /\ ~Dummy
    /\ j \notin submitted
    /\ submitted' = submitted \union {j}
    /\ cjob' = j
    /\ cpc' = "submit"
    /\ UNCHANGED <<tpVars, workerVars, cmax, ci, destroying, created_ok, runs,
                   failures, spurious>>

(* No memory for the job or its list item: FALSE is returned, nothing is   *)
(* queued (the job is not counted as submitted).                           *)
SubmitAllocFails ==
    /\ cpc = "idle" /\ ~Dummy
    /\ submitted # Jobs
    /\ Fail
    /\ UNCHANGED <<tpVars, workerVars, clientVars, submitted, runs, spurious>>

(* Mutant: a worker is woken only by a job queued into an empty list. *)
EnqueueIntoEmpty(threshold) ==
    \/ /\ pending_jobs_count > threshold
       /\ cpc' = "submit_sleep"
       /\ UNCHANGED <<tp_mutex, job_queue, pending_jobs_count, waiting_list,
                      waiting_count, marked, cjob, ci>>
    \/ /\ pending_jobs_count <= threshold
       /\ job_queue' = <<cjob>> \o job_queue
       /\ pending_jobs_count' = pending_jobs_count + 1
       /\ cjob' = NoJob
       /\ IF waiting_list = <<>> \/ job_queue # <<>>
          THEN /\ cpc' = "idle"
               /\ UNCHANGED <<tp_mutex, waiting_list, waiting_count, marked, ci>>
          ELSE /\ marked' = [marked EXCEPT ![Head(waiting_list)] = FALSE]
               /\ waiting_list' = Tail(waiting_list)
               /\ waiting_count' = waiting_count - 1
               /\ ci' = Head(waiting_list)
               /\ tp_mutex' = Client
               /\ cpc' = "signal_lock"

(* The loop on the queue length, with the pool mutex held: sleep while too *)
(* many jobs are pending, else queue the job and pick the worker to wake.  *)
Enqueue(threshold) ==
    \/ /\ pending_jobs_count > threshold
       /\ cpc' = "submit_sleep"
       /\ UNCHANGED <<tp_mutex, job_queue, pending_jobs_count, waiting_list,
                      waiting_count, marked, cjob, ci>>
    \/ /\ pending_jobs_count <= threshold
       /\ job_queue' = <<cjob>> \o job_queue
       /\ pending_jobs_count' = pending_jobs_count + 1
       /\ cjob' = NoJob
       /\ IF waiting_list = <<>>
          THEN /\ cpc' = "idle"
               /\ UNCHANGED <<tp_mutex, waiting_list, waiting_count, marked, ci>>
          ELSE /\ marked' = [marked EXCEPT ![Head(waiting_list)] = FALSE]
               /\ waiting_list' = Tail(waiting_list)
               /\ waiting_count' = waiting_count - 1
               /\ ci' = Head(waiting_list)
               /\ tp_mutex' = Client
               /\ cpc' = "signal_lock"

SubmitLock ==
    /\ cpc = "submit"
    /\ tp_mutex = Free
    /\ signaling_threshold' = QueueFactor * worker_threads_count
    /\ Enqueue(signaling_threshold')
    /\ UNCHANGED <<state, worker_threads_count, wpc, wmutex, wjob,
                   job_finished, cmax, destroying, created_ok, envVars>>

SubmitWoken ==
    /\ cpc = "submit_woken"
    /\ tp_mutex = Free
    /\ Enqueue(signaling_threshold)
    /\ UNCHANGED <<state, worker_threads_count, signaling_threshold, wpc,
                   wmutex, wjob, job_finished, cmax, destroying, created_ok,
                   envVars>>

(* The popped worker's mutex is taken before the pool's is released, so    *)
(* that the signal below cannot fall between its test and its wait.        *)
SignalLock ==
    /\ cpc = "signal_lock"
    /\ wmutex[ci] = Free
    /\ wmutex' = [wmutex EXCEPT ![ci] = Client]
    /\ tp_mutex' = Free
    /\ cpc' = "signal"
    /\ UNCHANGED <<state, job_queue, pending_jobs_count, waiting_list,
                   waiting_count, worker_threads_count, signaling_threshold,
                   wpc, marked, wjob, job_finished, cjob, cmax, ci,
                   destroying, created_ok, envVars>>

Signal ==
    /\ cpc = "signal"
    /\ SignalWorker(ci)
    /\ wmutex' = [wmutex EXCEPT ![ci] = Free]
    /\ cpc' = "idle"
    /\ UNCHANGED <<tpVars, marked, wjob, job_finished, cjob, cmax, ci,
                   destroying, created_ok, envVars>>

-----------------------------------------------------------------------------
(***************************************************************************)
(* opj_thread_pool_wait_completion                                         *)
(***************************************************************************)

(* Mutant: a negative max_remaining_jobs is not clamped. *)
WaitCompletionUnclamped(n) ==
    /\ cpc = "idle" /\ ~Dummy
    /\ cmax' = n
    /\ cpc' = "wait"
    /\ UNCHANGED <<tpVars, workerVars, cjob, ci, destroying, created_ok,
                   envVars>>

(* A pool without workers has nothing to wait for: returns at once. *)
WaitCompletion(n) ==
    /\ cpc = "idle" /\ ~Dummy
    /\ cmax' = IF n < 0 THEN 0 ELSE n
    /\ cpc' = "wait"
    /\ UNCHANGED <<tpVars, workerVars, cjob, ci, destroying, created_ok,
                   envVars>>

SleepOrReturn ==
    cpc' = IF pending_jobs_count > cmax THEN "wait_sleep"
           ELSE IF destroying THEN "stop" ELSE "idle"

WaitLock ==
    /\ cpc = "wait"
    /\ tp_mutex = Free
    /\ signaling_threshold' = cmax
    /\ SleepOrReturn
    /\ UNCHANGED <<tp_mutex, state, job_queue, pending_jobs_count,
                   waiting_list, waiting_count, worker_threads_count,
                   workerVars, cjob, cmax, ci, destroying, created_ok, envVars>>

(* Mutant: the condition is not tested again after the wait. *)
WaitWokenReturns ==
    /\ cpc = "wait_woken"
    /\ tp_mutex = Free
    /\ cpc' = IF destroying THEN "stop" ELSE "idle"
    /\ UNCHANGED <<tpVars, workerVars, cjob, cmax, ci, destroying, created_ok,
                   envVars>>

WaitWoken ==
    /\ cpc = "wait_woken"
    /\ tp_mutex = Free
    /\ SleepOrReturn
    /\ UNCHANGED <<tpVars, workerVars, cjob, cmax, ci, destroying, created_ok,
                   envVars>>

SpuriousClient ==
    /\ cpc \in SleepPC
    /\ spurious < MaxSpurious
    /\ spurious' = spurious + 1
    /\ cpc' = WokenFrom[cpc]
    /\ UNCHANGED <<tpVars, workerVars, cjob, cmax, ci, destroying, created_ok,
                   submitted, runs, failures>>

-----------------------------------------------------------------------------
(***************************************************************************)
(* opj_thread_pool_destroy                                                 *)
(***************************************************************************)

Destroy ==
    /\ cpc = "idle"
    /\ IF Dummy THEN cpc' = "freed" /\ UNCHANGED <<destroying, cmax>>
                ELSE StartDestroy
    /\ UNCHANGED <<tpVars, workerVars, cjob, ci, created_ok, envVars>>

(* Leave the join loop when every worker that was started is joined: the   *)
(* workers, the waiting list, the cond and the mutex are freed.            *)
NextJoin(i) ==
    /\ ci' = i
    /\ cpc' = IF i > worker_threads_count THEN "freed" ELSE "signal_exit"
    /\ waiting_list' = IF i > worker_threads_count THEN <<>> ELSE waiting_list

Stop ==
    /\ cpc = "stop"
    /\ tp_mutex = Free
    /\ state' = "STOP"
    /\ NextJoin(1)
    /\ UNCHANGED <<tp_mutex, job_queue, pending_jobs_count, waiting_count,
                   worker_threads_count, signaling_threshold, workerVars,
                   cjob, cmax, destroying, created_ok, envVars>>

SignalExit ==
    /\ cpc = "signal_exit"
    /\ wmutex[ci] = Free
    /\ SignalWorker(ci)
    /\ cpc' = "join"
    /\ UNCHANGED <<tpVars, wmutex, marked, wjob, job_finished, cjob, cmax, ci,
                   destroying, created_ok, envVars>>

(* Mutant: the thread is not joined. *)
JoinAtOnce ==
    /\ cpc = "join"
    /\ NextJoin(ci + 1)
    /\ UNCHANGED <<tp_mutex, state, job_queue, pending_jobs_count,
                   waiting_count, worker_threads_count, signaling_threshold,
                   workerVars, cjob, cmax, destroying, created_ok, envVars>>

Join ==
    /\ cpc = "join"
    /\ wpc[ci] = "exited"
    /\ NextJoin(ci + 1)
    /\ UNCHANGED <<tp_mutex, state, job_queue, pending_jobs_count,
                   waiting_count, worker_threads_count, signaling_threshold,
                   workerVars, cjob, cmax, destroying, created_ok, envVars>>

-----------------------------------------------------------------------------
WorkerProgress(w) ==
    \/ GetJobStop(w) \/ GetJobTake(w) \/ GetJobWait(w)
    \/ OwnLock(w) \/ CondWait(w) \/ Woken(w) \/ RunJob(w)

WorkerStep(w) == WorkerProgress(w) \/ GetJobAllocFails(w)

ClientProgress ==
    \/ SpawnWorker \/ SetupWait
    \/ SubmitLock \/ SubmitWoken \/ SignalLock \/ Signal
    \/ WaitLock \/ WaitWoken
    \/ Stop \/ SignalExit \/ Join

ClientStep == ClientProgress \/ SpawnFails

ClientCall ==
    \/ CreateDummy \/ CreateFails
    \/ \E num_threads \in Worker : Create(num_threads)
    \/ \E j \in Jobs : Submit(j) \/ SubmitToDummy(j)
    \/ SubmitAllocFails
    \/ \E n \in WaitArgs : WaitCompletion(n)
    \/ Destroy

Spuriously == SpuriousClient \/ \E w \in Worker : SpuriousWorker(w)

(* The pool is gone: the program does nothing more with it. *)
Freed == cpc = "freed" /\ UNCHANGED vars

Next ==
    \/ \E w \in Worker : WorkerStep(w)
    \/ ClientStep
    \/ ClientCall
    \/ Spuriously
    \/ Freed

Spec == Init /\ [][Next]_vars

(* Threads that can run do run; nothing obliges the client to make a call, *)
(* an allocation to fail or a wait to return spuriously.                   *)
Fairness ==
    /\ \A w \in Worker : WF_vars(WorkerProgress(w))
    /\ WF_vars(ClientProgress)

FairSpec == Spec /\ Fairness

-----------------------------------------------------------------------------
(***************************************************************************)
(* What must hold                                                          *)
(***************************************************************************)

(* What the program points say of the locals: the submitting call holds its *)
(* job until it is queued, the loops over the workers stay within the       *)
(* array, a worker has a job exactly while it runs one, and has a run to    *)
(* report only on its way to the next fetch.                                *)
ClientLocalsMatch ==
    /\ cpc \in {"submit", "submit_sleep", "submit_woken"} <=> cjob # NoJob
    /\ cpc = "create" => ci = 1
    /\ cpc \in {"spawn", "signal_exit", "join"} => ci <= worker_threads_count

WorkerLocalsMatch ==
    /\ \A w \in Worker : wpc[w] = "run" <=> wjob[w] # NoJob
    /\ \A w \in Worker : job_finished[w] => wpc[w] = "get"

(* A worker whose turn in the creation loop has not come has no thread. *)
Unstarted ==
    \A w \in Worker :
        cpc = "create" \/ (cpc = "spawn" /\ ci <= w) => wpc[w] = "none"

Running  == {w \in Worker : wjob[w] # NoJob}
Finished == {w \in Worker : job_finished[w]}        (* run, not yet reported *)

(* pending_jobs_count, on which submit and wait_completion decide to sleep, *)
(* is at every step the number of jobs queued, running or run but not yet   *)
(* reported by the worker that ran them.                                    *)
PendingExact ==
    pending_jobs_count =
        Len(job_queue) + Cardinality(Running) + Cardinality(Finished)

(* The places where a job can be: in the list, on a worker, or freed after  *)
(* its run (and, before that, in the submitting call).                      *)
InQueue(j)  == \E i \in DOMAIN job_queue : job_queue[i] = j
OnWorker(j) == \E w \in Worker : wjob[w] = j
HasRun(j)   == runs[j] = 1

(* A job handed to opj_thread_pool_submit_job is never dropped, duplicated  *)
(* or run a second time, whatever the order in which workers wake up: it is *)
(* in one place, once.                                                      *)
JobsConserved ==
    /\ \A i, k \in DOMAIN job_queue : job_queue[i] = job_queue[k] => i = k
    /\ \A v, w \in Running : wjob[v] = wjob[w] => v = w
    /\ \A j \in Jobs :
          /\ runs[j] <= 1
          /\ cjob = j => ~InQueue(j) /\ ~OnWorker(j) /\ ~HasRun(j)
          /\ InQueue(j) => ~OnWorker(j) /\ ~HasRun(j)
          /\ OnWorker(j) => ~HasRun(j)
          /\ j \in submitted <=> cjob = j \/ InQueue(j) \/ OnWorker(j) \/ HasRun(j)

Listed(w) == \E i \in DOMAIN waiting_list : waiting_list[i] = w

(* The waiting list has each worker marked as waiting once and no other     *)
(* (a worker that could not be listed is marked and has left), the count    *)
(* is that of the marks, and the assertions of submit_job (the popped       *)
(* worker is marked) and get_next_job (the count is at most the number of   *)
(* workers) hold.                                                           *)
WaitingListExact ==
    cpc # "freed" =>
        /\ \A i, k \in DOMAIN waiting_list :
              waiting_list[i] = waiting_list[k] => i = k
        /\ \A w \in Worker : Listed(w) => marked[w]
        /\ \A w \in Worker :
              marked[w] =>
                 \/ Listed(w)
                 \/ wpc[w] = "exited" /\ (state = "ERROR" \/ destroying)
        /\ waiting_count = Cardinality({w \in Worker : marked[w]})
        /\ waiting_count <= worker_threads_count

(* A worker that will look at the job list again without another call: it   *)
(* is awake, or the client is about to signal it.                           *)
Coming(w) ==
    \/ wpc[w] \in {"get", "woken"}
    \/ cpc \in {"signal_lock", "signal"} /\ ci = w
         /\ wpc[w] \in {"own_lock", "cond_wait", "asleep"}

(* thread.h on opj_thread_pool_submit_job: "run by the first thread that is *)
(* no longer busy".  While a worker still waits in the list, there are at   *)
(* least as many workers coming for jobs as there are jobs queued.  A       *)
(* spurious return of opj_cond_wait ends this promise: the worker runs jobs *)
(* but is still listed, and the next job may be announced to it although    *)
(* another worker sleeps.                                                   *)
NoStrandedJob ==
    /\ spurious = 0 /\ state = "OK"
    /\ \E w \in Worker : Listed(w) /\ wpc[w] = "asleep"
    => Len(job_queue) <= Cardinality({w \in Worker : Coming(w)})

(* opj_thread_pool_destroy frees nothing that is in use: when a worker's    *)
(* mutex and cond are destroyed its thread is gone, and when the pool is    *)
(* freed no job is left in it.                                              *)
FreedUnused ==
    /\ cpc \in {"signal_exit", "join"} =>
          \A w \in 1..(ci - 1) : wpc[w] = "exited" /\ wmutex[w] = Free
    /\ cpc = "freed" =>
          /\ \A w \in Worker : wpc[w] \in {"none", "exited"} /\ wmutex[w] = Free
          /\ tp_mutex = Free
          /\ job_queue = <<>> /\ Running = {}

(* thread.h on opj_thread_pool_submit_job: the job "will be added in the    *)
(* queue of jobs managed by the thread pool, and run by the first thread    *)
(* that is no longer busy".                                                 *)
EveryJobRuns == \A j \in Jobs : j \in submitted ~> runs[j] > 0

(* Whatever the order of signals and waits, and whichever allocation fails  *)
(* in the client: every submitted job is run, and every call on the pool    *)
(* returns, until a worker ends because its own allocation fails.           *)
JobsRunUntilError ==
    \A j \in Jobs : j \in submitted ~> (runs[j] > 0 \/ state = "ERROR")

CallsReturn ==
    cpc \notin {"create", "idle", "freed"} ~> (cpc \in {"idle", "freed"} \/ state = "ERROR")

-----------------------------------------------------------------------------
(***************************************************************************)
(* The pool implements JobPool: what a user of thread.h relies on.         *)
(***************************************************************************)

StatusOf(j) ==
    CASE runs[j] > 0 -> "done"
      [] OnWorker(j) -> "running"
      [] InQueue(j)  -> "queued"
      [] OTHER       -> "new"

CallOf ==
    IF cpc = "freed" THEN "closed"
    ELSE IF destroying THEN "closing"
    ELSE IF cpc \in {"wait", "wait_sleep", "wait_woken"} THEN "wait"
    ELSE "none"

Promise == INSTANCE JobPool
           WITH Capacity  <- QueueFactor * NumThreads + 1,
                status    <- [j \in Jobs |-> StatusOf(j)],
                call      <- CallOf,
                remaining <- IF CallOf = "wait" THEN cmax ELSE 0

ImplementsJobPool == Promise!Spec

=============================================================================
