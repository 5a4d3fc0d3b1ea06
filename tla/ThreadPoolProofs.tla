-------------------------- MODULE ThreadPoolProofs --------------------------
(***************************************************************************)
(* Theorems about ThreadPool, for any number of workers and jobs and any   *)
(* number of failing allocations and spurious wakeups: the count of        *)
(* pending jobs, the list of waiting workers, the jobs that no sleeping    *)
(* worker leaves behind, the memory freed at the end, and that ThreadPool  *)
(* implements JobPool.                                                     *)
(***************************************************************************)
EXTENDS ThreadPool, FiniteSetTheorems, TLAPS, Functions

(* TypeOK is inductive once it is known where the locals are meaningful. *)
TypeInv == TypeOK /\ ClientLocalsMatch /\ WorkerLocalsMatch /\ Unstarted

USE NumThreadsAssumption, QueueFactorAssumption, WaitArgsAssumption,
    BoundsAssumption, NoJobAssumption

LEMMA TypeInit == Init => TypeInv
<1> SUFFICES ASSUME Init PROVE TypeInv
  OBVIOUS
<1>1. PoolTypeOK
  BY DEF Init, PoolTypeOK
<1>2. WorkerTypeOK
  BY DEF Init, WorkerTypeOK, WorkerPC
<1>3. ClientTypeOK
  <2>1. destroying \in BOOLEAN /\ created_ok \in BOOLEAN
    BY DEF Init
  <2>2. cpc \in ClientPC
    BY DEF Init, ClientPC
  <2>3. cjob \in Jobs \union {NoJob} /\ cmax \in Nat /\ ci \in 1..(NumThreads +
     1)
    BY DEF Init
  <2> QED BY <2>1, <2>2, <2>3 DEF ClientTypeOK
<1>4. EnvTypeOK
  BY DEF Init, EnvTypeOK
<1>5. ClientLocalsMatch
  BY DEF Init, ClientLocalsMatch
<1>6. WorkerLocalsMatch
  BY DEF Init, WorkerLocalsMatch
<1>7. Unstarted
  BY DEF Init, Unstarted
<1> QED BY <1>1, <1>2, <1>3, <1>4, <1>5, <1>6, <1>7 DEF TypeInv, TypeOK

(* What a step leaves alone keeps its type. *)
LEMMA PoolFrame == PoolTypeOK /\ UNCHANGED tpVars => PoolTypeOK'
BY DEF PoolTypeOK, tpVars

LEMMA WorkerFrame ==
    WorkerTypeOK /\ WorkerLocalsMatch /\ UNCHANGED <<wpc, wjob, job_finished>>
        /\ wmutex' \in [Worker -> Thread \union {Free}]
        /\ marked' \in [Worker -> BOOLEAN]
    => WorkerTypeOK' /\ WorkerLocalsMatch'
BY DEF WorkerTypeOK, WorkerLocalsMatch

LEMMA ClientFrame ==
    ClientTypeOK /\ ClientLocalsMatch /\ UNCHANGED clientVars
        /\ UNCHANGED worker_threads_count
    => ClientTypeOK' /\ ClientLocalsMatch'
BY DEF ClientTypeOK, ClientLocalsMatch, clientVars

LEMMA UnstartedFrame ==
    /\ Unstarted
    /\ \A w \in Worker : wpc[w] = "none" => wpc'[w] = "none"
    /\ cpc' \in {"create", "spawn"} => cpc' = cpc /\ ci' = ci
    => Unstarted'
BY DEF Unstarted

LEMMA EnvFrame == EnvTypeOK /\ UNCHANGED envVars => EnvTypeOK'
BY DEF EnvTypeOK, envVars

(* A signal on tp->cond leaves the client in the same call, where the same *)
(* locals are meaningful.                                                  *)
LEMMA SignalClientKeepsCall ==
    ASSUME ClientTypeOK, ClientLocalsMatch, NEW b \in BOOLEAN,
           SignalClientIf(b),
           UNCHANGED <<cjob, cmax, ci, destroying, created_ok,
                       worker_threads_count>>
    PROVE  /\ ClientTypeOK' /\ ClientLocalsMatch'
           /\ cpc' \in {"create", "spawn"} => cpc' = cpc
BY DEF SignalClientIf, WokenFrom, ClientPC, SleepPC, WokenPC, ClientTypeOK,
       ClientLocalsMatch

LEMMA ReportsBoolean ==
    WorkerTypeOK => \A w \in Worker : ReportsCompletion(w) \in BOOLEAN
BY DEF ReportsCompletion, WorkerTypeOK

LEMMA TypeGetJobStop ==
    ASSUME TypeInv, NEW w \in Worker, GetJobStop(w)
    PROVE  TypeInv'
<1> USE DEF TypeInv, TypeOK
<1>1. PoolTypeOK'
  BY DEF GetJobStop, PoolTypeOK, EnterGetJob, WorkerTypeOK
<1>2. WorkerTypeOK' /\ WorkerLocalsMatch'
  BY DEF GetJobStop, EnterGetJob, WorkerTypeOK, WorkerLocalsMatch, WorkerPC
<1>3. ClientTypeOK' /\ ClientLocalsMatch'
  BY SignalClientKeepsCall, ReportsBoolean DEF GetJobStop, envVars
<1>4. EnvTypeOK'
  BY EnvFrame DEF GetJobStop, envVars
<1>5. Unstarted'
  BY UnstartedFrame, SignalClientKeepsCall, ReportsBoolean DEF GetJobStop,
     EnterGetJob, WorkerTypeOK, envVars
<1> QED BY <1>1, <1>2, <1>3, <1>4, <1>5

LEMMA TypeGetJobTake ==
    ASSUME TypeInv, NEW w \in Worker, GetJobTake(w)
    PROVE  TypeInv'
<1> USE DEF TypeInv, TypeOK
<1>1. PoolTypeOK'
  BY DEF GetJobTake, PoolTypeOK, EnterGetJob, WorkerTypeOK
<1>2. WorkerTypeOK' /\ WorkerLocalsMatch'
  <2>1. Head(job_queue) \in Jobs
    BY DEF GetJobTake, PoolTypeOK
  <2> QED BY <2>1 DEF GetJobTake, EnterGetJob, WorkerTypeOK, WorkerLocalsMatch,
     WorkerPC
<1>3. ClientTypeOK' /\ ClientLocalsMatch'
  BY SignalClientKeepsCall, ReportsBoolean DEF GetJobTake, envVars
<1>4. EnvTypeOK'
  BY EnvFrame DEF GetJobTake, envVars
<1>5. Unstarted'
  BY UnstartedFrame, SignalClientKeepsCall, ReportsBoolean DEF GetJobTake,
     EnterGetJob, WorkerTypeOK, envVars
<1> QED BY <1>1, <1>2, <1>3, <1>4, <1>5

LEMMA TypeGetJobWait ==
    ASSUME TypeInv, NEW w \in Worker, GetJobWait(w)
    PROVE  TypeInv'
<1> USE DEF TypeInv, TypeOK
<1>1. PoolTypeOK'
  <2>1. waiting_list' \in Seq(Worker)
    <3>1. <<w>> \o waiting_list \in Seq(Worker)
      BY DEF PoolTypeOK
    <3> QED BY <3>1 DEF GetJobWait, PoolTypeOK
  <2>2. waiting_count' \in Int /\ pending_jobs_count' \in Int
    BY DEF GetJobWait, EnterGetJob, PoolTypeOK
  <2> QED BY <2>1, <2>2 DEF GetJobWait, PoolTypeOK, Thread
<1>2. WorkerTypeOK' /\ WorkerLocalsMatch'
  BY DEF GetJobWait, EnterGetJob, WorkerTypeOK, WorkerLocalsMatch, WorkerPC
<1>3. ClientTypeOK' /\ ClientLocalsMatch'
  BY SignalClientKeepsCall, ReportsBoolean DEF GetJobWait, envVars
<1>4. EnvTypeOK'
  BY EnvFrame DEF GetJobWait, envVars
<1>5. Unstarted'
  BY UnstartedFrame, SignalClientKeepsCall, ReportsBoolean DEF GetJobWait,
     EnterGetJob, WorkerTypeOK, envVars
<1> QED BY <1>1, <1>2, <1>3, <1>4, <1>5

LEMMA TypeGetJobAllocFails ==
    ASSUME TypeInv, NEW w \in Worker, GetJobAllocFails(w)
    PROVE  TypeInv'
<1> USE DEF TypeInv, TypeOK
<1>1. PoolTypeOK'
  BY DEF GetJobAllocFails, PoolTypeOK, EnterGetJob, WorkerTypeOK
<1>2. WorkerTypeOK' /\ WorkerLocalsMatch'
  BY DEF GetJobAllocFails, EnterGetJob, WorkerTypeOK, WorkerLocalsMatch,
     WorkerPC
<1>3. ClientTypeOK' /\ ClientLocalsMatch'
  BY SignalClientKeepsCall, ReportsBoolean DEF GetJobAllocFails, envVars
<1>4. EnvTypeOK'
  BY DEF GetJobAllocFails, Fail, EnvTypeOK
<1>5. Unstarted'
  BY UnstartedFrame, SignalClientKeepsCall, ReportsBoolean DEF
     GetJobAllocFails, EnterGetJob, WorkerTypeOK, envVars
<1> QED BY <1>1, <1>2, <1>3, <1>4, <1>5

LEMMA TypeOwnLock ==
    ASSUME TypeInv, NEW w \in Worker, OwnLock(w)
    PROVE  TypeInv'
<1> USE DEF TypeInv, TypeOK
<1>1. PoolTypeOK'
  BY DEF OwnLock, PoolTypeOK
<1>2. WorkerTypeOK' /\ WorkerLocalsMatch'
  BY DEF OwnLock, WorkerTypeOK, WorkerLocalsMatch, WorkerPC, Thread
<1>3. ClientTypeOK' /\ ClientLocalsMatch'
  BY ClientFrame DEF OwnLock, clientVars, tpVars
<1>4. EnvTypeOK'
  BY EnvFrame DEF OwnLock, envVars
<1>5. Unstarted'
  BY UnstartedFrame DEF OwnLock, clientVars, WorkerTypeOK
<1> QED BY <1>1, <1>2, <1>3, <1>4, <1>5

LEMMA TypeCondWait ==
    ASSUME TypeInv, NEW w \in Worker, CondWait(w)
    PROVE  TypeInv'
<1> USE DEF TypeInv, TypeOK
<1>1. PoolTypeOK'
  BY PoolFrame DEF CondWait, tpVars
<1>2. WorkerTypeOK' /\ WorkerLocalsMatch'
  BY DEF CondWait, WorkerTypeOK, WorkerLocalsMatch, WorkerPC, Thread
<1>3. ClientTypeOK' /\ ClientLocalsMatch'
  BY ClientFrame DEF CondWait, clientVars, tpVars
<1>4. EnvTypeOK'
  BY EnvFrame DEF CondWait, envVars
<1>5. Unstarted'
  BY UnstartedFrame DEF CondWait, clientVars, WorkerTypeOK
<1> QED BY <1>1, <1>2, <1>3, <1>4, <1>5

LEMMA TypeWoken ==
    ASSUME TypeInv, NEW w \in Worker, Woken(w)
    PROVE  TypeInv'
<1> USE DEF TypeInv, TypeOK
<1>1. PoolTypeOK'
  BY PoolFrame DEF Woken, tpVars
<1>2. WorkerTypeOK' /\ WorkerLocalsMatch'
  BY DEF Woken, WorkerTypeOK, WorkerLocalsMatch, WorkerPC
<1>3. ClientTypeOK' /\ ClientLocalsMatch'
  BY ClientFrame DEF Woken, clientVars, tpVars
<1>4. EnvTypeOK'
  BY EnvFrame DEF Woken, envVars
<1>5. Unstarted'
  BY UnstartedFrame DEF Woken, clientVars, WorkerTypeOK
<1> QED BY <1>1, <1>2, <1>3, <1>4, <1>5

LEMMA TypeRunJob ==
    ASSUME TypeInv, NEW w \in Worker, RunJob(w)
    PROVE  TypeInv'
<1> USE DEF TypeInv, TypeOK
<1>1. PoolTypeOK'
  BY PoolFrame DEF RunJob, tpVars
<1>2. WorkerTypeOK' /\ WorkerLocalsMatch'
  BY DEF RunJob, WorkerTypeOK, WorkerLocalsMatch, WorkerPC
<1>3. ClientTypeOK' /\ ClientLocalsMatch'
  BY ClientFrame DEF RunJob, clientVars, tpVars
<1>4. EnvTypeOK'
  <2>1. wjob[w] \in Jobs
    BY DEF RunJob, WorkerTypeOK, WorkerLocalsMatch
  <2> QED BY <2>1 DEF RunJob, EnvTypeOK
<1>5. Unstarted'
  BY UnstartedFrame DEF RunJob, clientVars, WorkerTypeOK
<1> QED BY <1>1, <1>2, <1>3, <1>4, <1>5

LEMMA TypeSpuriousWorker ==
    ASSUME TypeInv, NEW w \in Worker, SpuriousWorker(w)
    PROVE  TypeInv'
<1> USE DEF TypeInv, TypeOK
<1>1. PoolTypeOK'
  BY PoolFrame DEF SpuriousWorker, tpVars
<1>2. WorkerTypeOK' /\ WorkerLocalsMatch'
  BY DEF SpuriousWorker, WorkerTypeOK, WorkerLocalsMatch, WorkerPC
<1>3. ClientTypeOK' /\ ClientLocalsMatch'
  BY ClientFrame DEF SpuriousWorker, clientVars, tpVars
<1>4. EnvTypeOK'
  BY DEF SpuriousWorker, EnvTypeOK
<1>5. Unstarted'
  BY UnstartedFrame DEF SpuriousWorker, clientVars, WorkerTypeOK
<1> QED BY <1>1, <1>2, <1>3, <1>4, <1>5

LEMMA TypeCreateDummy ==
    ASSUME TypeInv, CreateDummy
    PROVE  TypeInv'
<1> USE DEF TypeInv, TypeOK
<1>1. PoolTypeOK'
  BY PoolFrame DEF CreateDummy, tpVars
<1>2. WorkerTypeOK' /\ WorkerLocalsMatch'
  BY WorkerFrame DEF CreateDummy, workerVars, WorkerTypeOK
<1>3. ClientTypeOK' /\ ClientLocalsMatch'
  <2>1. destroying' \in BOOLEAN /\ created_ok' \in BOOLEAN
    BY DEF CreateDummy, ClientTypeOK
  <2>2. cpc' \in ClientPC /\ cjob' \in Jobs \union {NoJob} /\ cmax' \in Nat
        /\ ci' \in 1..(NumThreads + 1)
    BY DEF CreateDummy, ClientTypeOK, ClientPC
  <2>3. ClientLocalsMatch'
    BY DEF CreateDummy, ClientLocalsMatch, tpVars
  <2> QED BY <2>1, <2>2, <2>3 DEF ClientTypeOK
<1>4. EnvTypeOK'
  BY EnvFrame DEF CreateDummy, envVars
<1>5. Unstarted'
  BY UnstartedFrame DEF CreateDummy, workerVars
<1> QED BY <1>1, <1>2, <1>3, <1>4, <1>5

LEMMA TypeCreate ==
    ASSUME TypeInv, NEW num_threads \in Worker, Create(num_threads)
    PROVE  TypeInv'
<1> USE DEF TypeInv, TypeOK
<1>1. PoolTypeOK'
  BY DEF Create, PoolTypeOK, Worker
<1>2. WorkerTypeOK' /\ WorkerLocalsMatch'
  BY WorkerFrame DEF Create, workerVars, WorkerTypeOK
<1>3. ClientTypeOK' /\ ClientLocalsMatch'
  <2>1. destroying' \in BOOLEAN /\ created_ok' \in BOOLEAN
    BY DEF Create, Worker, ClientTypeOK
  <2>2. cpc' \in ClientPC /\ cjob' \in Jobs \union {NoJob} /\ cmax' \in Nat
        /\ ci' \in 1..(NumThreads + 1)
    BY DEF Create, Worker, ClientTypeOK, ClientPC
  <2>3. ClientLocalsMatch'
    BY DEF Create, Worker, ClientLocalsMatch, tpVars
  <2> QED BY <2>1, <2>2, <2>3 DEF ClientTypeOK
<1>4. EnvTypeOK'
  BY EnvFrame DEF Create, envVars
<1>5. Unstarted'
  BY DEF Create, Unstarted, Worker, workerVars, WorkerTypeOK, ClientTypeOK
<1> QED BY <1>1, <1>2, <1>3, <1>4, <1>5

LEMMA TypeCreateFails ==
    ASSUME TypeInv, CreateFails
    PROVE  TypeInv'
<1> USE DEF TypeInv, TypeOK
<1>1. PoolTypeOK'
  BY PoolFrame DEF CreateFails, tpVars
<1>2. WorkerTypeOK' /\ WorkerLocalsMatch'
  BY WorkerFrame DEF CreateFails, workerVars, WorkerTypeOK
<1>3. ClientTypeOK' /\ ClientLocalsMatch'
  <2>1. destroying' \in BOOLEAN /\ created_ok' \in BOOLEAN
    BY DEF CreateFails, StartDestroy, ClientTypeOK
  <2>2. cpc' \in ClientPC /\ cjob' \in Jobs \union {NoJob} /\ cmax' \in Nat
        /\ ci' \in 1..(NumThreads + 1)
    BY DEF CreateFails, StartDestroy, ClientTypeOK, ClientPC
  <2>3. ClientLocalsMatch'
    BY DEF CreateFails, StartDestroy, ClientLocalsMatch, tpVars
  <2> QED BY <2>1, <2>2, <2>3 DEF ClientTypeOK
<1>4. EnvTypeOK'
  BY DEF CreateFails, Fail, EnvTypeOK
<1>5. Unstarted'
  BY UnstartedFrame DEF CreateFails, workerVars, StartDestroy
<1> QED BY <1>1, <1>2, <1>3, <1>4, <1>5

LEMMA TypeSpawnWorker ==
    ASSUME TypeInv, SpawnWorker
    PROVE  TypeInv'
<1> USE DEF TypeInv, TypeOK
<1>1. PoolTypeOK'
  BY PoolFrame DEF SpawnWorker, tpVars
<1>2. WorkerTypeOK' /\ WorkerLocalsMatch'
  <2>1. ci \in Worker /\ wpc[ci] = "none"
    BY DEF SpawnWorker, ClientTypeOK, ClientLocalsMatch, PoolTypeOK, Unstarted,
       Worker
  <2> QED BY <2>1 DEF SpawnWorker, WorkerTypeOK, WorkerLocalsMatch, WorkerPC
<1>3. ClientTypeOK' /\ ClientLocalsMatch'
  BY DEF SpawnWorker, ClientTypeOK, ClientLocalsMatch, ClientPC, SleepPC,
     WokenPC, tpVars, PoolTypeOK
<1>4. EnvTypeOK'
  BY EnvFrame DEF SpawnWorker, envVars
<1>5. Unstarted'
  BY DEF SpawnWorker, Unstarted, Worker, workerVars, WorkerTypeOK, ClientTypeOK
<1> QED BY <1>1, <1>2, <1>3, <1>4, <1>5

LEMMA TypeSpawnFails ==
    ASSUME TypeInv, SpawnFails
    PROVE  TypeInv'
<1> USE DEF TypeInv, TypeOK
<1>1. PoolTypeOK'
  BY DEF SpawnFails, PoolTypeOK, ClientTypeOK, ClientLocalsMatch, ClientPC,
     SleepPC, WokenPC
<1>2. WorkerTypeOK' /\ WorkerLocalsMatch'
  BY WorkerFrame DEF SpawnFails, workerVars, WorkerTypeOK
<1>3. ClientTypeOK' /\ ClientLocalsMatch'
  <2>1. destroying' \in BOOLEAN /\ created_ok' \in BOOLEAN
    BY DEF SpawnFails, ClientTypeOK
  <2>2. cpc' \in ClientPC /\ cjob' \in Jobs \union {NoJob} /\ cmax' \in Nat
        /\ ci' \in 1..(NumThreads + 1)
    BY DEF SpawnFails, ClientTypeOK, ClientPC
  <2>3. ClientLocalsMatch'
    BY DEF SpawnFails, ClientLocalsMatch, tpVars
  <2> QED BY <2>1, <2>2, <2>3 DEF ClientTypeOK
<1>4. EnvTypeOK'
  BY DEF SpawnFails, Fail, EnvTypeOK
<1>5. Unstarted'
  BY UnstartedFrame DEF SpawnFails, workerVars
<1> QED BY <1>1, <1>2, <1>3, <1>4, <1>5

LEMMA TypeSetupWait ==
    ASSUME TypeInv, SetupWait
    PROVE  TypeInv'
<1> USE DEF TypeInv, TypeOK
<1>1. PoolTypeOK'
  BY PoolFrame DEF SetupWait, tpVars
<1>2. WorkerTypeOK' /\ WorkerLocalsMatch'
  BY WorkerFrame DEF SetupWait, workerVars, WorkerTypeOK
<1>3. ClientTypeOK' /\ ClientLocalsMatch'
  <2>1. destroying' \in BOOLEAN /\ created_ok' \in BOOLEAN
    BY DEF SetupWait, StartDestroy, SleepPC, WokenPC, ClientTypeOK
  <2>2. cpc' \in ClientPC /\ cjob' \in Jobs \union {NoJob} /\ cmax' \in Nat
        /\ ci' \in 1..(NumThreads + 1)
    BY DEF SetupWait, StartDestroy, SleepPC, WokenPC, ClientTypeOK, ClientPC
  <2>3. ClientLocalsMatch'
    BY DEF SetupWait, StartDestroy, SleepPC, WokenPC, ClientLocalsMatch, tpVars
  <2> QED BY <2>1, <2>2, <2>3 DEF ClientTypeOK
<1>4. EnvTypeOK'
  BY EnvFrame DEF SetupWait, envVars
<1>5. Unstarted'
  BY UnstartedFrame DEF SetupWait, workerVars, StartDestroy
<1> QED BY <1>1, <1>2, <1>3, <1>4, <1>5

LEMMA TypeSubmit ==
    ASSUME TypeInv, NEW j \in Jobs, Submit(j)
    PROVE  TypeInv'
<1> USE DEF TypeInv, TypeOK
<1>1. PoolTypeOK'
  BY PoolFrame DEF Submit, tpVars
<1>2. WorkerTypeOK' /\ WorkerLocalsMatch'
  BY WorkerFrame DEF Submit, workerVars, WorkerTypeOK
<1>3. ClientTypeOK' /\ ClientLocalsMatch'
  BY DEF Submit, ClientTypeOK, ClientLocalsMatch, ClientPC, SleepPC, WokenPC,
     tpVars
<1>4. EnvTypeOK'
  BY DEF Submit, EnvTypeOK
<1>5. Unstarted'
  BY UnstartedFrame DEF Submit, workerVars
<1> QED BY <1>1, <1>2, <1>3, <1>4, <1>5

LEMMA TypeSubmitToDummy ==
    ASSUME TypeInv, NEW j \in Jobs, SubmitToDummy(j)
    PROVE  TypeInv'
<1> USE DEF TypeInv, TypeOK
<1>1. PoolTypeOK'
  BY PoolFrame DEF SubmitToDummy, tpVars
<1>2. WorkerTypeOK' /\ WorkerLocalsMatch'
  BY WorkerFrame DEF SubmitToDummy, workerVars, WorkerTypeOK
<1>3. ClientTypeOK' /\ ClientLocalsMatch'
  BY ClientFrame DEF SubmitToDummy, tpVars
<1>4. EnvTypeOK'
  BY DEF SubmitToDummy, EnvTypeOK
<1>5. Unstarted'
  BY UnstartedFrame DEF SubmitToDummy, workerVars, clientVars
<1> QED BY <1>1, <1>2, <1>3, <1>4, <1>5

LEMMA TypeSubmitAllocFails ==
    ASSUME TypeInv, SubmitAllocFails
    PROVE  TypeInv'
<1> USE DEF TypeInv, TypeOK
<1>1. PoolTypeOK'
  BY PoolFrame DEF SubmitAllocFails, tpVars
<1>2. WorkerTypeOK' /\ WorkerLocalsMatch'
  BY WorkerFrame DEF SubmitAllocFails, workerVars, WorkerTypeOK
<1>3. ClientTypeOK' /\ ClientLocalsMatch'
  BY ClientFrame DEF SubmitAllocFails, tpVars
<1>4. EnvTypeOK'
  BY DEF SubmitAllocFails, Fail, EnvTypeOK
<1>5. Unstarted'
  BY UnstartedFrame DEF SubmitAllocFails, workerVars, clientVars
<1> QED BY <1>1, <1>2, <1>3, <1>4, <1>5

LEMMA TypeSubmitLock ==
    ASSUME TypeInv, SubmitLock
    PROVE  TypeInv'
<1> USE DEF TypeInv, TypeOK
<1>1. PoolTypeOK'
  <2>1. cjob \in Jobs
    BY DEF SubmitLock, ClientTypeOK, ClientLocalsMatch
  <2>2. signaling_threshold' \in Nat
    BY DEF SubmitLock, PoolTypeOK
  <2>3. <<cjob>> \o job_queue \in Seq(Jobs) /\ (waiting_list # <<>> =>
     Tail(waiting_list) \in Seq(Worker))
    BY <2>1 DEF PoolTypeOK
  <2>4. job_queue' \in Seq(Jobs) /\ waiting_list' \in Seq(Worker)
    BY <2>3 DEF SubmitLock, Enqueue, PoolTypeOK
  <2>5. pending_jobs_count' \in Int /\ waiting_count' \in Int
    BY DEF SubmitLock, Enqueue, PoolTypeOK
  <2> QED BY <2>2, <2>4, <2>5 DEF SubmitLock, Enqueue, PoolTypeOK, Thread
<1>2. WorkerTypeOK' /\ WorkerLocalsMatch'
  <2>1. marked' \in [Worker -> BOOLEAN]
    BY DEF SubmitLock, Enqueue, WorkerTypeOK
  <2> QED BY <2>1, WorkerFrame DEF SubmitLock, WorkerTypeOK
<1>3. ClientTypeOK' /\ ClientLocalsMatch'
  <2>1. waiting_list # <<>> => Head(waiting_list) \in Worker
    BY DEF PoolTypeOK
  <2> QED BY <2>1 DEF SubmitLock, Enqueue, Worker, ClientTypeOK,
     ClientLocalsMatch, ClientPC, SleepPC, WokenPC
<1>4. EnvTypeOK'
  BY EnvFrame DEF SubmitLock, envVars
<1>5. Unstarted'
  BY UnstartedFrame DEF SubmitLock, workerVars, Enqueue
<1> QED BY <1>1, <1>2, <1>3, <1>4, <1>5

LEMMA TypeSubmitWoken ==
    ASSUME TypeInv, SubmitWoken
    PROVE  TypeInv'
<1> USE DEF TypeInv, TypeOK
<1>1. PoolTypeOK'
  <2>1. cjob \in Jobs
    BY DEF SubmitWoken, ClientTypeOK, ClientLocalsMatch
  <2>2. signaling_threshold' \in Nat
    BY DEF SubmitWoken, PoolTypeOK
  <2>3. <<cjob>> \o job_queue \in Seq(Jobs) /\ (waiting_list # <<>> =>
     Tail(waiting_list) \in Seq(Worker))
    BY <2>1 DEF PoolTypeOK
  <2>4. job_queue' \in Seq(Jobs) /\ waiting_list' \in Seq(Worker)
    BY <2>3 DEF SubmitWoken, Enqueue, PoolTypeOK
  <2>5. pending_jobs_count' \in Int /\ waiting_count' \in Int
    BY DEF SubmitWoken, Enqueue, PoolTypeOK
  <2> QED BY <2>2, <2>4, <2>5 DEF SubmitWoken, Enqueue, PoolTypeOK, Thread
<1>2. WorkerTypeOK' /\ WorkerLocalsMatch'
  <2>1. marked' \in [Worker -> BOOLEAN]
    BY DEF SubmitWoken, Enqueue, WorkerTypeOK
  <2> QED BY <2>1, WorkerFrame DEF SubmitWoken, WorkerTypeOK
<1>3. ClientTypeOK' /\ ClientLocalsMatch'
  <2>1. waiting_list # <<>> => Head(waiting_list) \in Worker
    BY DEF PoolTypeOK
  <2> QED BY <2>1 DEF SubmitWoken, Enqueue, Worker, ClientTypeOK,
     ClientLocalsMatch, ClientPC, SleepPC, WokenPC
<1>4. EnvTypeOK'
  BY EnvFrame DEF SubmitWoken, envVars
<1>5. Unstarted'
  BY UnstartedFrame DEF SubmitWoken, workerVars, Enqueue
<1> QED BY <1>1, <1>2, <1>3, <1>4, <1>5

LEMMA TypeSignalLock ==
    ASSUME TypeInv, SignalLock
    PROVE  TypeInv'
<1> USE DEF TypeInv, TypeOK
<1>1. PoolTypeOK'
  BY DEF SignalLock, PoolTypeOK
<1>2. WorkerTypeOK' /\ WorkerLocalsMatch'
  BY WorkerFrame DEF SignalLock, WorkerTypeOK, Thread
<1>3. ClientTypeOK' /\ ClientLocalsMatch'
  BY DEF SignalLock, ClientTypeOK, ClientLocalsMatch, ClientPC, SleepPC,
     WokenPC
<1>4. EnvTypeOK'
  BY EnvFrame DEF SignalLock, envVars
<1>5. Unstarted'
  BY UnstartedFrame DEF SignalLock, workerVars
<1> QED BY <1>1, <1>2, <1>3, <1>4, <1>5

LEMMA TypeSignal ==
    ASSUME TypeInv, Signal
    PROVE  TypeInv'
<1> USE DEF TypeInv, TypeOK
<1>1. PoolTypeOK'
  BY PoolFrame DEF Signal, tpVars
<1>2. WorkerTypeOK' /\ WorkerLocalsMatch'
  BY DEF Signal, SignalWorker, WorkerTypeOK, WorkerLocalsMatch, WorkerPC,
     Thread
<1>3. ClientTypeOK' /\ ClientLocalsMatch'
  BY DEF Signal, ClientTypeOK, ClientLocalsMatch, ClientPC, SleepPC, WokenPC,
     tpVars
<1>4. EnvTypeOK'
  BY EnvFrame DEF Signal, envVars
<1>5. Unstarted'
  BY UnstartedFrame DEF Signal, SignalWorker, WorkerTypeOK
<1> QED BY <1>1, <1>2, <1>3, <1>4, <1>5

LEMMA TypeWaitCompletion ==
    ASSUME TypeInv, NEW n \in WaitArgs, WaitCompletion(n)
    PROVE  TypeInv'
<1> USE DEF TypeInv, TypeOK
<1>1. PoolTypeOK'
  BY PoolFrame DEF WaitCompletion, tpVars
<1>2. WorkerTypeOK' /\ WorkerLocalsMatch'
  BY WorkerFrame DEF WaitCompletion, workerVars, WorkerTypeOK
<1>3. ClientTypeOK' /\ ClientLocalsMatch'
  BY DEF WaitCompletion, ClientTypeOK, ClientLocalsMatch, ClientPC, SleepPC,
     WokenPC, tpVars
<1>4. EnvTypeOK'
  BY EnvFrame DEF WaitCompletion, envVars
<1>5. Unstarted'
  BY UnstartedFrame DEF WaitCompletion, workerVars
<1> QED BY <1>1, <1>2, <1>3, <1>4, <1>5

LEMMA TypeWaitLock ==
    ASSUME TypeInv, WaitLock
    PROVE  TypeInv'
<1> USE DEF TypeInv, TypeOK
<1>1. PoolTypeOK'
  BY DEF WaitLock, PoolTypeOK, ClientTypeOK
<1>2. WorkerTypeOK' /\ WorkerLocalsMatch'
  BY WorkerFrame DEF WaitLock, workerVars, WorkerTypeOK
<1>3. ClientTypeOK' /\ ClientLocalsMatch'
  BY DEF WaitLock, SleepOrReturn, ClientTypeOK, ClientLocalsMatch, ClientPC,
     SleepPC, WokenPC
<1>4. EnvTypeOK'
  BY EnvFrame DEF WaitLock, envVars
<1>5. Unstarted'
  BY UnstartedFrame DEF WaitLock, workerVars, SleepOrReturn
<1> QED BY <1>1, <1>2, <1>3, <1>4, <1>5

LEMMA TypeWaitWoken ==
    ASSUME TypeInv, WaitWoken
    PROVE  TypeInv'
<1> USE DEF TypeInv, TypeOK
<1>1. PoolTypeOK'
  BY PoolFrame DEF WaitWoken, tpVars
<1>2. WorkerTypeOK' /\ WorkerLocalsMatch'
  BY WorkerFrame DEF WaitWoken, workerVars, WorkerTypeOK
<1>3. ClientTypeOK' /\ ClientLocalsMatch'
  BY DEF WaitWoken, SleepOrReturn, ClientTypeOK, ClientLocalsMatch, ClientPC,
     SleepPC, WokenPC, tpVars
<1>4. EnvTypeOK'
  BY EnvFrame DEF WaitWoken, envVars
<1>5. Unstarted'
  BY UnstartedFrame DEF WaitWoken, workerVars, SleepOrReturn
<1> QED BY <1>1, <1>2, <1>3, <1>4, <1>5

LEMMA TypeSpuriousClient ==
    ASSUME TypeInv, SpuriousClient
    PROVE  TypeInv'
<1> USE DEF TypeInv, TypeOK
<1>1. PoolTypeOK'
  BY PoolFrame DEF SpuriousClient, tpVars
<1>2. WorkerTypeOK' /\ WorkerLocalsMatch'
  BY WorkerFrame DEF SpuriousClient, workerVars, WorkerTypeOK
<1>3. ClientTypeOK' /\ ClientLocalsMatch'
  BY DEF SpuriousClient, WokenFrom, ClientTypeOK, ClientLocalsMatch, ClientPC,
     SleepPC, WokenPC, tpVars
<1>4. EnvTypeOK'
  BY DEF SpuriousClient, EnvTypeOK
<1>5. Unstarted'
  BY UnstartedFrame DEF SpuriousClient, workerVars, WokenFrom, SleepPC
<1> QED BY <1>1, <1>2, <1>3, <1>4, <1>5

LEMMA TypeDestroy ==
    ASSUME TypeInv, Destroy
    PROVE  TypeInv'
<1> USE DEF TypeInv, TypeOK
<1>1. PoolTypeOK'
  BY PoolFrame DEF Destroy, tpVars
<1>2. WorkerTypeOK' /\ WorkerLocalsMatch'
  BY WorkerFrame DEF Destroy, workerVars, WorkerTypeOK
<1>3. ClientTypeOK' /\ ClientLocalsMatch'
  <2>1. destroying' \in BOOLEAN /\ created_ok' \in BOOLEAN
    BY DEF Destroy, StartDestroy, ClientTypeOK
  <2>2. cpc' \in ClientPC /\ cjob' \in Jobs \union {NoJob} /\ cmax' \in Nat
        /\ ci' \in 1..(NumThreads + 1)
    BY DEF Destroy, StartDestroy, ClientTypeOK, ClientPC
  <2>3. ClientLocalsMatch'
    BY DEF Destroy, StartDestroy, ClientLocalsMatch, tpVars
  <2> QED BY <2>1, <2>2, <2>3 DEF ClientTypeOK
<1>4. EnvTypeOK'
  BY EnvFrame DEF Destroy, envVars
<1>5. Unstarted'
  BY UnstartedFrame DEF Destroy, workerVars, StartDestroy
<1> QED BY <1>1, <1>2, <1>3, <1>4, <1>5

LEMMA TypeStop ==
    ASSUME TypeInv, Stop
    PROVE  TypeInv'
<1> USE DEF TypeInv, TypeOK
<1>1. PoolTypeOK'
  BY DEF Stop, PoolTypeOK, NextJoin
<1>2. WorkerTypeOK' /\ WorkerLocalsMatch'
  BY WorkerFrame DEF Stop, workerVars, WorkerTypeOK
<1>3. ClientTypeOK' /\ ClientLocalsMatch'
  <2>1. destroying' \in BOOLEAN /\ created_ok' \in BOOLEAN
    BY DEF Stop, NextJoin, PoolTypeOK, ClientTypeOK
  <2>2. cpc' \in ClientPC /\ cjob' \in Jobs \union {NoJob} /\ cmax' \in Nat
        /\ ci' \in 1..(NumThreads + 1)
    BY DEF Stop, NextJoin, PoolTypeOK, ClientTypeOK, ClientPC
  <2>3. ClientLocalsMatch'
    BY DEF Stop, NextJoin, PoolTypeOK, ClientLocalsMatch, tpVars
  <2> QED BY <2>1, <2>2, <2>3 DEF ClientTypeOK
<1>4. EnvTypeOK'
  BY EnvFrame DEF Stop, envVars
<1>5. Unstarted'
  BY UnstartedFrame DEF Stop, workerVars, NextJoin
<1> QED BY <1>1, <1>2, <1>3, <1>4, <1>5

LEMMA TypeSignalExit ==
    ASSUME TypeInv, SignalExit
    PROVE  TypeInv'
<1> USE DEF TypeInv, TypeOK
<1>1. PoolTypeOK'
  BY PoolFrame DEF SignalExit, tpVars
<1>2. WorkerTypeOK' /\ WorkerLocalsMatch'
  BY DEF SignalExit, SignalWorker, WorkerTypeOK, WorkerLocalsMatch, WorkerPC
<1>3. ClientTypeOK' /\ ClientLocalsMatch'
  BY DEF SignalExit, ClientTypeOK, ClientLocalsMatch, ClientPC, SleepPC,
     WokenPC, tpVars
<1>4. EnvTypeOK'
  BY EnvFrame DEF SignalExit, envVars
<1>5. Unstarted'
  BY UnstartedFrame DEF SignalExit, SignalWorker, WorkerTypeOK
<1> QED BY <1>1, <1>2, <1>3, <1>4, <1>5

LEMMA TypeJoin ==
    ASSUME TypeInv, Join
    PROVE  TypeInv'
<1> USE DEF TypeInv, TypeOK
<1>1. PoolTypeOK'
  BY DEF Join, PoolTypeOK, NextJoin
<1>2. WorkerTypeOK' /\ WorkerLocalsMatch'
  BY WorkerFrame DEF Join, workerVars, WorkerTypeOK
<1>3. ClientTypeOK' /\ ClientLocalsMatch'
  BY DEF Join, NextJoin, PoolTypeOK, ClientTypeOK, ClientLocalsMatch, ClientPC,
     SleepPC, WokenPC
<1>4. EnvTypeOK'
  BY EnvFrame DEF Join, envVars
<1>5. Unstarted'
  BY UnstartedFrame DEF Join, workerVars, NextJoin
<1> QED BY <1>1, <1>2, <1>3, <1>4, <1>5

LEMMA TypeStep == TypeInv /\ [Next]_vars => TypeInv'
<1> SUFFICES ASSUME TypeInv, [Next]_vars PROVE TypeInv'
  OBVIOUS
<1>1. CASE UNCHANGED vars
  BY <1>1, PoolFrame, WorkerFrame, ClientFrame, EnvFrame, UnstartedFrame
     DEF vars, TypeInv, TypeOK, tpVars, workerVars, clientVars, WorkerTypeOK
<1>2. CASE Next
  <2>1. CASE \E w \in Worker : WorkerStep(w)
    BY <2>1, TypeGetJobStop, TypeGetJobTake, TypeGetJobWait,
       TypeGetJobAllocFails, TypeOwnLock, TypeCondWait, TypeWoken, TypeRunJob
       DEF WorkerStep, WorkerProgress
  <2>2. CASE ClientStep
    BY <2>2, TypeSpawnWorker, TypeSpawnFails, TypeSetupWait, TypeSubmitLock,
       TypeSubmitWoken, TypeSignalLock, TypeSignal, TypeWaitLock,
       TypeWaitWoken, TypeStop, TypeSignalExit, TypeJoin
       DEF ClientStep, ClientProgress
  <2>3. CASE ClientCall
    BY <2>3, TypeCreateDummy, TypeCreateFails, TypeCreate, TypeSubmit,
       TypeSubmitToDummy, TypeSubmitAllocFails, TypeWaitCompletion,
       TypeDestroy
       DEF ClientCall
  <2>4. CASE Spuriously
    BY <2>4, TypeSpuriousClient, TypeSpuriousWorker DEF Spuriously
  <2>5. CASE Freed
    BY <2>5, <1>1 DEF Freed
  <2> QED BY <1>2, <2>1, <2>2, <2>3, <2>4, <2>5 DEF Next
<1> QED BY <1>1, <1>2

(* Every variable keeps its type, and TypeInv is the inductive invariant. *)
THEOREM TypeCorrect == Spec => []TypeOK
<1>1. TypeInv => TypeOK
  BY DEF TypeInv
<1> QED BY <1>1, TypeInit, TypeStep, PTL DEF Spec

-----------------------------------------------------------------------------
(***************************************************************************)
(* The count of pending jobs                                               *)
(***************************************************************************)

LEMMA WorkerFinite == IsFiniteSet(Worker)
BY FS_Interval DEF Worker

LEMMA CountsFinite ==
    /\ IsFiniteSet(Running) /\ Cardinality(Running) \in Nat
    /\ IsFiniteSet(Finished) /\ Cardinality(Finished) \in Nat
BY WorkerFinite, FS_Subset, FS_CardinalityType DEF Running, Finished

LEMMA PendingFrame ==
    ASSUME PendingExact,
           UNCHANGED <<pending_jobs_count, job_queue, wjob, job_finished>>
    PROVE  PendingExact'
BY DEF PendingExact, Running, Finished

(* A fetch that takes no job only reports the job run before, if any. *)
LEMMA PendingReport ==
    ASSUME TypeInv, PendingExact, NEW w \in Worker, EnterGetJob(w),
           UNCHANGED <<job_queue, wjob>>
    PROVE  PendingExact'
<1> USE DEF TypeInv, TypeOK
<1>1. Running' = Running
  BY DEF Running
<1>2. Finished' = Finished \ {w}
  BY DEF Finished, EnterGetJob, WorkerTypeOK
<1>3. Cardinality(Finished') =
        Cardinality(Finished) - (IF job_finished[w] THEN 1 ELSE 0)
  <2>1. CASE job_finished[w]
    BY <2>1, <1>2, CountsFinite, FS_RemoveElement DEF Finished
  <2>2. CASE ~job_finished[w]
    <3>1. Finished' = Finished
      BY <2>2, <1>2 DEF Finished
    <3> QED BY <3>1, <2>2, CountsFinite
  <2> QED BY <2>1, <2>2
<1> QED BY <1>1, <1>3, CountsFinite DEF PendingExact, EnterGetJob, PoolTypeOK

LEMMA PendingTake ==
    ASSUME TypeInv, PendingExact, NEW w \in Worker, GetJobTake(w)
    PROVE  PendingExact'
<1> USE DEF TypeInv, TypeOK
<1>1. wjob[w] = NoJob /\ Head(job_queue) \in Jobs
  BY DEF GetJobTake, EnterGetJob, WorkerLocalsMatch, PoolTypeOK, WorkerTypeOK
<1>2. Running' = Running \union {w} /\ w \notin Running
  BY <1>1 DEF Running, GetJobTake, WorkerTypeOK
<1>3. Cardinality(Running') = Cardinality(Running) + 1
  BY <1>2, CountsFinite, FS_AddElement
<1>4. Finished' = Finished \ {w}
  BY DEF Finished, GetJobTake, EnterGetJob, WorkerTypeOK
<1>5. Cardinality(Finished') =
        Cardinality(Finished) - (IF job_finished[w] THEN 1 ELSE 0)
  <2>1. CASE job_finished[w]
    BY <2>1, <1>4, CountsFinite, FS_RemoveElement DEF Finished
  <2>2. CASE ~job_finished[w]
    <3>1. Finished' = Finished
      BY <2>2, <1>4 DEF Finished
    <3> QED BY <3>1, <2>2, CountsFinite
  <2> QED BY <2>1, <2>2
<1>6. Len(job_queue') = Len(job_queue) - 1 /\ Len(job_queue) \in Nat
  BY DEF GetJobTake, PoolTypeOK
<1>7. pending_jobs_count' =
        pending_jobs_count - (IF job_finished[w] THEN 1 ELSE 0)
  BY DEF GetJobTake, EnterGetJob
<1> QED BY <1>3, <1>5, <1>6, <1>7, CountsFinite DEF PendingExact, PoolTypeOK

LEMMA PendingRun ==
    ASSUME TypeInv, PendingExact, NEW w \in Worker, RunJob(w)
    PROVE  PendingExact'
<1> USE DEF TypeInv, TypeOK
<1>1. wjob[w] # NoJob /\ ~job_finished[w]
  BY DEF RunJob, WorkerLocalsMatch
<1>2. Running' = Running \ {w} /\ w \in Running
  BY <1>1 DEF Running, RunJob, WorkerTypeOK
<1>3. Finished' = Finished \union {w} /\ w \notin Finished
  BY <1>1 DEF Finished, RunJob, WorkerTypeOK
<1>4. /\ Cardinality(Running') = Cardinality(Running) - 1
      /\ Cardinality(Finished') = Cardinality(Finished) + 1
  BY <1>2, <1>3, CountsFinite, FS_RemoveElement, FS_AddElement
<1>5. pending_jobs_count' = pending_jobs_count /\ job_queue' = job_queue
  BY DEF RunJob, tpVars
<1> QED BY <1>4, <1>5, CountsFinite DEF PendingExact, PoolTypeOK

LEMMA PendingEnqueue ==
    ASSUME TypeInv, PendingExact, NEW threshold, Enqueue(threshold),
           cjob \in Jobs, UNCHANGED <<wjob, job_finished>>
    PROVE  PendingExact'
<1> USE DEF TypeInv, TypeOK
<1>1. Running' = Running /\ Finished' = Finished
  BY DEF Running, Finished
<1>2. CASE UNCHANGED <<job_queue, pending_jobs_count>>
  BY <1>2, PendingFrame
<1>3. CASE job_queue' = <<cjob>> \o job_queue
           /\ pending_jobs_count' = pending_jobs_count + 1
  <2>1. Len(job_queue') = Len(job_queue) + 1 /\ Len(job_queue) \in Nat
    BY <1>3 DEF PoolTypeOK
  <2> QED BY <1>1, <1>3, <2>1, CountsFinite DEF PendingExact, PoolTypeOK
<1> QED BY <1>2, <1>3 DEF Enqueue

LEMMA PendingStep ==
    TypeInv /\ PendingExact /\ [Next]_vars => PendingExact'
<1> SUFFICES ASSUME TypeInv, PendingExact, [Next]_vars PROVE PendingExact'
  OBVIOUS
<1>1. CASE UNCHANGED vars
  BY <1>1, PendingFrame DEF vars, tpVars, workerVars
<1>2. CASE \E w \in Worker : WorkerStep(w)
  <2>1. PICK w \in Worker : WorkerStep(w)
    BY <1>2
  <2>2. CASE GetJobStop(w) \/ GetJobWait(w) \/ GetJobAllocFails(w)
    BY <2>2, PendingReport DEF GetJobStop, GetJobWait, GetJobAllocFails
  <2>3. CASE OwnLock(w) \/ CondWait(w) \/ Woken(w)
    BY <2>3, PendingFrame DEF OwnLock, CondWait, Woken, tpVars
  <2> QED BY <2>1, <2>2, <2>3, PendingTake, PendingRun
          DEF WorkerStep, WorkerProgress
<1>3. CASE ClientStep
  <2>1. CASE SubmitLock \/ SubmitWoken
    <3>1. cjob \in Jobs
      BY <2>1 DEF SubmitLock, SubmitWoken, TypeInv, TypeOK, ClientTypeOK,
                  ClientLocalsMatch
    <3> QED BY <2>1, <3>1, PendingEnqueue DEF SubmitLock, SubmitWoken
  <2>2. CASE SpawnWorker \/ SpawnFails \/ SetupWait \/ SignalLock \/ Signal
    BY <2>2, PendingFrame DEF SpawnWorker, SpawnFails, SetupWait, SignalLock,
       Signal, tpVars, workerVars
  <2>3. CASE WaitLock \/ WaitWoken \/ Stop \/ SignalExit \/ Join
    BY <2>3, PendingFrame DEF WaitLock, WaitWoken, Stop, SignalExit, Join,
       tpVars, workerVars
  <2> QED BY <1>3, <2>1, <2>2, <2>3 DEF ClientStep, ClientProgress
<1>4. CASE ClientCall
  BY <1>4, PendingFrame DEF ClientCall, CreateDummy, CreateFails, Create,
     Submit, SubmitToDummy, SubmitAllocFails, WaitCompletion, Destroy, tpVars,
     workerVars
<1>5. CASE Spuriously
  BY <1>5, PendingFrame DEF Spuriously, SpuriousClient, SpuriousWorker, tpVars,
     workerVars
<1> QED BY <1>1, <1>2, <1>3, <1>4, <1>5 DEF Next, Freed

(* pending_jobs_count counts the jobs that are queued, running or run but   *)
(* not yet reported, in every reachable state.                              *)
THEOREM PendingCorrect == Spec => []PendingExact
<1>1. Init => PendingExact
  <2> SUFFICES ASSUME Init PROVE PendingExact
    OBVIOUS
  <2>1. Running = {} /\ Finished = {}
    BY DEF Init, Running, Finished
  <2> QED BY <2>1, FS_EmptySet DEF Init, PendingExact
<1> QED BY <1>1, TypeInit, TypeStep, PendingStep, PTL DEF Spec

-----------------------------------------------------------------------------
(***************************************************************************)
(* No job is lost, duplicated or run twice                                 *)
(***************************************************************************)

LEMMA TailIndex ==
    ASSUME NEW S, NEW q \in Seq(S), q # <<>>
    PROVE  /\ DOMAIN q = 1..Len(q) /\ Len(q) \in Nat /\ Len(q) > 0
           /\ Head(q) = q[1]
           /\ DOMAIN Tail(q) = 1..(Len(q) - 1)
           /\ \A i \in DOMAIN Tail(q) : Tail(q)[i] = q[i + 1]
OBVIOUS

LEMMA ConsIndex ==
    ASSUME NEW S, NEW x \in S, NEW q \in Seq(S)
    PROVE  /\ DOMAIN q = 1..Len(q) /\ Len(q) \in Nat
           /\ DOMAIN (<<x>> \o q) = 1..(Len(q) + 1)
           /\ (<<x>> \o q)[1] = x
           /\ \A i \in 2..(Len(q) + 1) : (<<x>> \o q)[i] = q[i - 1]
OBVIOUS

LEMMA JobsFrame ==
    ASSUME JobsConserved, UNCHANGED <<job_queue, wjob, runs, cjob, submitted>>
    PROVE  JobsConserved'
BY DEF JobsConserved, InQueue, OnWorker, HasRun, Running

LEMMA JobsTake ==
    ASSUME TypeInv, JobsConserved, NEW w \in Worker, GetJobTake(w)
    PROVE  JobsConserved'
<1> USE DEF TypeInv, TypeOK
<1> DEFINE h == Head(job_queue)
<1>1. /\ job_queue \in Seq(Jobs) /\ job_queue # <<>>
      /\ job_queue' = Tail(job_queue)
      /\ wjob' = [wjob EXCEPT ![w] = h]
      /\ wjob[w] = NoJob
      /\ UNCHANGED <<runs, cjob, submitted>>
  BY DEF GetJobTake, EnterGetJob, PoolTypeOK, WorkerTypeOK, WorkerLocalsMatch,
         envVars
<1>2. h \in Jobs
  BY <1>1
<1>3. \A j \in Jobs : InQueue(j)' <=> InQueue(j) /\ j # h
  <2> TAKE j \in Jobs
  <2>1. ASSUME InQueue(j)' PROVE InQueue(j) /\ j # h
    <3>1. PICK i \in DOMAIN job_queue' : job_queue'[i] = j
      BY <2>1 DEF InQueue
    <3>2. /\ i + 1 \in DOMAIN job_queue /\ job_queue[i + 1] = j
          /\ 1 \in DOMAIN job_queue /\ job_queue[1] = h /\ i + 1 # 1
      BY <1>1, <3>1, TailIndex
    <3> QED BY <3>2 DEF InQueue, JobsConserved
  <2>2. ASSUME InQueue(j), j # h PROVE InQueue(j)'
    <3>1. PICK i \in DOMAIN job_queue : job_queue[i] = j
      BY <2>2 DEF InQueue
    <3>2. i - 1 \in DOMAIN job_queue' /\ job_queue'[i - 1] = j
      BY <1>1, <2>2, <3>1, TailIndex
    <3> QED BY <3>2 DEF InQueue
  <2> QED BY <2>1, <2>2
<1>4. \A j \in Jobs : OnWorker(j)' <=> OnWorker(j) \/ j = h
  BY <1>1, NoJobAssumption DEF OnWorker, WorkerTypeOK
<1>5. InQueue(h)
  BY <1>1, TailIndex DEF InQueue
<1>6. \A i, k \in DOMAIN job_queue' : job_queue'[i] = job_queue'[k] => i = k
  BY <1>1, TailIndex DEF JobsConserved
<1>7. \A v, u \in Running' : wjob'[v] = wjob'[u] => v = u
  BY <1>1, <1>2, <1>5 DEF JobsConserved, Running, OnWorker, WorkerTypeOK
<1>8. \A j \in Jobs : HasRun(j)' <=> HasRun(j)
  BY <1>1 DEF HasRun
<1> QED BY <1>1, <1>2, <1>3, <1>4, <1>5, <1>6, <1>7, <1>8 DEF JobsConserved

LEMMA JobsRun ==
    ASSUME TypeInv, JobsConserved, NEW w \in Worker, RunJob(w)
    PROVE  JobsConserved'
<1> USE DEF TypeInv, TypeOK
<1> DEFINE r == wjob[w]
<1>1. /\ r \in Jobs
      /\ wjob' = [wjob EXCEPT ![w] = NoJob]
      /\ runs' = [runs EXCEPT ![r] = @ + 1]
      /\ UNCHANGED <<job_queue, cjob, submitted>>
  BY DEF RunJob, WorkerTypeOK, WorkerLocalsMatch, tpVars, clientVars
<1>2. \A j \in Jobs : InQueue(j)' <=> InQueue(j)
  BY <1>1 DEF InQueue
<1>3. \A j \in Jobs : OnWorker(j)' <=> OnWorker(j) /\ j # r
  BY <1>1, NoJobAssumption DEF OnWorker, WorkerTypeOK, JobsConserved, Running
<1>4. OnWorker(r)
  BY DEF OnWorker
<1>5. runs[r] = 0 /\ runs'[r] = 1
  BY <1>1, <1>4 DEF JobsConserved, HasRun, EnvTypeOK
<1>6. \A j \in Jobs : j # r => runs'[j] = runs[j]
  BY <1>1 DEF EnvTypeOK
<1>7. \A j \in Jobs : HasRun(j)' <=> HasRun(j) \/ j = r
  BY <1>5, <1>6 DEF HasRun
<1>8. \A v, u \in Running' : wjob'[v] = wjob'[u] => v = u
  BY <1>1 DEF JobsConserved, Running, WorkerTypeOK
<1>9. \A j \in Jobs : runs'[j] <= 1
  BY <1>5, <1>6 DEF JobsConserved
<1> QED BY <1>1, <1>2, <1>3, <1>4, <1>7, <1>8, <1>9 DEF JobsConserved

LEMMA JobsEnqueue ==
    ASSUME TypeInv, JobsConserved, NEW threshold, Enqueue(threshold),
           cjob \in Jobs, UNCHANGED <<wjob, runs, submitted>>
    PROVE  JobsConserved'
<1> USE DEF TypeInv, TypeOK
<1>1. CASE UNCHANGED <<job_queue, cjob>>
  BY <1>1, JobsFrame
<1>2. CASE job_queue' = <<cjob>> \o job_queue /\ cjob' = NoJob
  <2>1. /\ job_queue \in Seq(Jobs)
        /\ ~InQueue(cjob) /\ ~OnWorker(cjob) /\ ~HasRun(cjob)
    BY DEF PoolTypeOK, JobsConserved
  <2>2. \A j \in Jobs : InQueue(j)' <=> InQueue(j) \/ j = cjob
    <3> TAKE j \in Jobs
    <3>1. ASSUME InQueue(j)' PROVE InQueue(j) \/ j = cjob
      BY <3>1, <1>2, <2>1, ConsIndex DEF InQueue
    <3>2. ASSUME InQueue(j) PROVE InQueue(j)'
      <4>1. PICK i \in DOMAIN job_queue : job_queue[i] = j
        BY <3>2 DEF InQueue
      <4>2. i + 1 \in DOMAIN job_queue' /\ job_queue'[i + 1] = j
        BY <4>1, <1>2, <2>1, ConsIndex
      <4> QED BY <4>2 DEF InQueue
    <3>3. ASSUME j = cjob PROVE InQueue(j)'
      <4>1. 1 \in DOMAIN job_queue' /\ job_queue'[1] = j
        BY <3>3, <1>2, <2>1, ConsIndex
      <4> QED BY <4>1 DEF InQueue
    <3> QED BY <3>1, <3>2, <3>3
  <2>3. \A j \in Jobs : (OnWorker(j)' <=> OnWorker(j)) /\ (HasRun(j)' <=>
     HasRun(j))
    BY DEF OnWorker, HasRun
  <2>4. \A i, k \in DOMAIN job_queue' : job_queue'[i] = job_queue'[k] => i = k
    BY <1>2, <2>1, ConsIndex DEF JobsConserved, InQueue
  <2>5. \A v, u \in Running' : wjob'[v] = wjob'[u] => v = u
    BY DEF JobsConserved, Running
  <2> QED BY <1>2, <2>1, <2>2, <2>3, <2>4, <2>5, NoJobAssumption
          DEF JobsConserved
<1> QED BY <1>1, <1>2 DEF Enqueue

LEMMA JobsSubmit ==
    ASSUME TypeInv, JobsConserved, NEW j \in Jobs, Submit(j)
    PROVE  JobsConserved'
<1>1. /\ cjob = NoJob /\ cjob' = j /\ j \notin submitted
      /\ submitted' = submitted \union {j}
      /\ UNCHANGED <<job_queue, wjob, runs>>
  BY DEF Submit, TypeInv, ClientLocalsMatch, tpVars, workerVars
<1>2. \A k \in Jobs : /\ InQueue(k)' <=> InQueue(k)
                      /\ OnWorker(k)' <=> OnWorker(k)
                      /\ HasRun(k)' <=> HasRun(k)
  BY <1>1 DEF InQueue, OnWorker, HasRun
<1>3. \A v, u \in Running' : wjob'[v] = wjob'[u] => v = u
  BY <1>1 DEF JobsConserved, Running
<1> QED BY <1>1, <1>2, <1>3, NoJobAssumption DEF JobsConserved

LEMMA JobsSubmitToDummy ==
    ASSUME TypeInv, JobsConserved, NEW j \in Jobs, SubmitToDummy(j)
    PROVE  JobsConserved'
<1> USE DEF TypeInv, TypeOK
<1>1. /\ j \notin submitted
      /\ submitted' = submitted \union {j}
      /\ runs' = [runs EXCEPT ![j] = @ + 1]
      /\ UNCHANGED <<job_queue, wjob, cjob>>
  BY DEF SubmitToDummy, tpVars, workerVars, clientVars
<1>2. runs[j] = 0 /\ cjob # j /\ ~InQueue(j) /\ ~OnWorker(j)
  BY <1>1 DEF JobsConserved, HasRun, EnvTypeOK
<1>3. /\ runs'[j] = 1
      /\ \A k \in Jobs : k # j => runs'[k] = runs[k]
  BY <1>1, <1>2 DEF EnvTypeOK
<1>4. \A k \in Jobs : /\ InQueue(k)' <=> InQueue(k)
                      /\ OnWorker(k)' <=> OnWorker(k)
                      /\ HasRun(k)' <=> HasRun(k) \/ k = j
  BY <1>1, <1>3 DEF InQueue, OnWorker, HasRun
<1>5. \A v, u \in Running' : wjob'[v] = wjob'[u] => v = u
  BY <1>1 DEF JobsConserved, Running
<1> QED BY <1>1, <1>2, <1>3, <1>4, <1>5 DEF JobsConserved

LEMMA JobsStep == TypeInv /\ JobsConserved /\ [Next]_vars => JobsConserved'
<1> SUFFICES ASSUME TypeInv, JobsConserved, [Next]_vars PROVE JobsConserved'
  OBVIOUS
<1>1. CASE UNCHANGED vars
  BY <1>1, JobsFrame DEF vars, tpVars, workerVars, clientVars, envVars
<1>2. CASE \E w \in Worker : WorkerStep(w)
  <2>1. PICK w \in Worker : WorkerStep(w)
    BY <1>2
  <2>2. CASE GetJobStop(w) \/ GetJobWait(w) \/ GetJobAllocFails(w)
    BY <2>2, JobsFrame DEF GetJobStop, GetJobWait, GetJobAllocFails, envVars
  <2>3. CASE OwnLock(w) \/ CondWait(w) \/ Woken(w)
    BY <2>3, JobsFrame DEF OwnLock, CondWait, Woken, tpVars, clientVars,
       envVars
  <2> QED BY <2>1, <2>2, <2>3, JobsTake, JobsRun
          DEF WorkerStep, WorkerProgress
<1>3. CASE ClientStep
  <2>1. CASE SubmitLock \/ SubmitWoken
    <3>1. cjob \in Jobs
      BY <2>1 DEF SubmitLock, SubmitWoken, TypeInv, TypeOK, ClientTypeOK,
                  ClientLocalsMatch
    <3> QED BY <2>1, <3>1, JobsEnqueue DEF SubmitLock, SubmitWoken, envVars
  <2>2. CASE SpawnWorker \/ SpawnFails \/ SetupWait \/ SignalLock \/ Signal
    BY <2>2, JobsFrame DEF SpawnWorker, SpawnFails, SetupWait, SignalLock,
       Signal, tpVars, workerVars, envVars
  <2>3. CASE WaitLock \/ WaitWoken \/ Stop \/ SignalExit \/ Join
    BY <2>3, JobsFrame DEF WaitLock, WaitWoken, Stop, SignalExit, Join,
       tpVars, workerVars, envVars
  <2> QED BY <1>3, <2>1, <2>2, <2>3 DEF ClientStep, ClientProgress
<1>4. CASE ClientCall
  <2>1. CASE \E j \in Jobs : Submit(j) \/ SubmitToDummy(j)
    BY <2>1, JobsSubmit, JobsSubmitToDummy
  <2>2. CASE ~ \E j \in Jobs : Submit(j) \/ SubmitToDummy(j)
    BY <1>4, <2>2, JobsFrame DEF ClientCall, CreateDummy, CreateFails, Create,
       SubmitAllocFails, WaitCompletion, Destroy, tpVars, workerVars,
       clientVars, envVars
  <2> QED BY <2>1, <2>2
<1>5. CASE Spuriously
  BY <1>5, JobsFrame DEF Spuriously, SpuriousClient, SpuriousWorker, tpVars,
     workerVars, clientVars
<1> QED BY <1>1, <1>2, <1>3, <1>4, <1>5 DEF Next, Freed

(* A submitted job is in one place, once, in every reachable state: no job *)
(* is dropped, queued twice or run a second time.                          *)
THEOREM JobsNeverLost == Spec => []JobsConserved
<1>1. Init => JobsConserved
  BY DEF Init, JobsConserved, InQueue, OnWorker, HasRun, Running
<1> QED BY <1>1, TypeInit, TypeStep, JobsStep, PTL DEF Spec

(***************************************************************************)
(* Who holds the mutexes, and which workers have been started              *)
(***************************************************************************)
(* Who holds each mutex, from where the threads stand. *)
LocksMatch ==
    /\ \A w \in Worker : tp_mutex = w <=> wpc[w] = "own_lock"
    /\ tp_mutex = Client <=> cpc = "signal_lock"
    /\ \A w \in Worker :
          /\ wmutex[w] \in {Free, Client, w}
          /\ wmutex[w] = w <=> wpc[w] = "cond_wait"
          /\ wmutex[w] = Client <=> cpc = "signal" /\ ci = w

(* The workers that have a thread, or had one. *)
Started ==
    /\ cpc = "create" => worker_threads_count = 0
    /\ \A w \in Worker :
          wpc[w] # "none" <=>
             \/ cpc = "spawn" /\ w < ci
             \/ cpc \notin {"create", "spawn"} /\ w <= worker_threads_count

(* A signal to the client changes nothing but its sleep. *)
LEMMA SignalClientKeepsStage ==
    ASSUME cpc \in ClientPC, NEW b \in BOOLEAN, SignalClientIf(b)
    PROVE  \/ cpc' = cpc
           \/ cpc \in SleepPC /\ cpc' \in WokenPC
BY DEF SignalClientIf, WokenFrom, SleepPC, WokenPC

LEMMA LocksFrame ==
    ASSUME LocksMatch, UNCHANGED <<tp_mutex, wmutex, wpc, ci>>,
           cpc' = cpc \/ ({cpc, cpc'} \cap {"signal_lock", "signal"} = {})
    PROVE  LocksMatch'
BY DEF LocksMatch

LEMMA LocksStepWorker ==
    ASSUME TypeInv, LocksMatch, NEW w \in Worker, WorkerStep(w) \/ SpuriousWorker(w)
    PROVE  LocksMatch'
<1> USE DEF TypeInv, TypeOK
<1>0. /\ wpc \in [Worker -> WorkerPC] /\ wmutex \in [Worker -> Thread \union {Free}]
      /\ cpc \in ClientPC /\ Worker \subseteq Nat \ {0}
  BY DEF WorkerTypeOK, ClientTypeOK, Worker
<1>1. ASSUME GetJobStop(w) \/ GetJobTake(w) \/ GetJobAllocFails(w)
      PROVE  LocksMatch'
  <2>1. /\ UNCHANGED <<tp_mutex, wmutex, ci>> /\ tp_mutex = Free /\ wpc[w] = "get"
        /\ \E pc \in {"exited", "run"} : wpc' = [wpc EXCEPT ![w] = pc]
    BY <1>1 DEF GetJobStop, GetJobTake, GetJobAllocFails, EnterGetJob, envVars
  <2>2. cpc' = cpc \/ (cpc \in SleepPC /\ cpc' \in WokenPC)
    BY <1>0, <1>1, SignalClientKeepsStage, ReportsBoolean
       DEF GetJobStop, GetJobTake, GetJobAllocFails
  <2> QED BY <1>0, <2>1, <2>2 DEF LocksMatch, SleepPC, WokenPC, Free, Client
<1>2. ASSUME GetJobWait(w) PROVE LocksMatch'
  <2>1. /\ UNCHANGED <<wmutex, ci>> /\ tp_mutex = Free /\ wpc[w] = "get"
        /\ tp_mutex' = w /\ wpc' = [wpc EXCEPT ![w] = "own_lock"]
    BY <1>2 DEF GetJobWait, EnterGetJob, envVars
  <2>2. cpc' = cpc \/ (cpc \in SleepPC /\ cpc' \in WokenPC)
    BY <1>0, <1>2, SignalClientKeepsStage DEF GetJobWait
  <2> QED BY <1>0, <2>1, <2>2 DEF LocksMatch, SleepPC, WokenPC, Free, Client
<1>3. ASSUME OwnLock(w) PROVE LocksMatch'
  BY <1>0, <1>3 DEF OwnLock, LocksMatch, clientVars, Free, Client
<1>4. ASSUME CondWait(w) PROVE LocksMatch'
  BY <1>0, <1>4 DEF CondWait, LocksMatch, clientVars, tpVars, Free, Client
<1>5. ASSUME Woken(w) \/ RunJob(w) \/ SpuriousWorker(w) PROVE LocksMatch'
  BY <1>0, <1>5 DEF Woken, RunJob, SpuriousWorker, LocksMatch, clientVars, tpVars, Free, Client
<1> QED BY <1>1, <1>2, <1>3, <1>4, <1>5 DEF WorkerStep, WorkerProgress

LEMMA StartedStepWorker ==
    ASSUME TypeInv, Started, NEW w \in Worker, WorkerStep(w) \/ SpuriousWorker(w)
    PROVE  Started'
<1> USE DEF TypeInv, TypeOK
<1>0. wpc \in [Worker -> WorkerPC] /\ cpc \in ClientPC
  BY DEF WorkerTypeOK, ClientTypeOK
<1>1. /\ UNCHANGED <<ci, worker_threads_count>>
      /\ \E pc \in WorkerPC \ {"none"} : wpc' = [wpc EXCEPT ![w] = pc]
      /\ wpc[w] # "none"
  BY <1>0 DEF WorkerStep, WorkerProgress, GetJobStop, GetJobTake, GetJobWait, GetJobAllocFails,
     EnterGetJob, OwnLock, CondWait, Woken, RunJob, SpuriousWorker, WorkerPC, tpVars, clientVars
<1>2. cpc' = cpc \/ (cpc \in SleepPC /\ cpc' \in WokenPC)
  BY <1>0, SignalClientKeepsStage, ReportsBoolean
     DEF WorkerStep, WorkerProgress, GetJobStop, GetJobTake, GetJobWait, GetJobAllocFails,
     OwnLock, CondWait, Woken, RunJob, SpuriousWorker, clientVars
<1> QED BY <1>0, <1>1, <1>2 DEF Started, SleepPC, WokenPC

(* What a step of the client does to a worker: it creates its thread, or   *)
(* wakes it.                                                               *)
LEMMA LocksStepClient ==
    ASSUME TypeInv, LocksMatch, Started, ClientStep \/ ClientCall \/ SpuriousClient
    PROVE  LocksMatch'
<1> USE DEF TypeInv, TypeOK
<1>0. /\ wpc \in [Worker -> WorkerPC] /\ wmutex \in [Worker -> Thread \union {Free}]
      /\ cpc \in ClientPC /\ Worker \subseteq Nat \ {0} /\ ci \in Nat
      /\ worker_threads_count \in 0..NumThreads
  BY DEF WorkerTypeOK, ClientTypeOK, Worker, PoolTypeOK
<1>1. ASSUME SpawnWorker PROVE LocksMatch'
  <2>1. ci \in Worker /\ wpc[ci] = "none"
    BY <1>0, <1>1 DEF SpawnWorker, Unstarted, ClientLocalsMatch, Worker, ClientTypeOK
  <2> QED BY <1>0, <1>1, <2>1 DEF SpawnWorker, LocksMatch, tpVars, Free, Client
<1>2. ASSUME SubmitLock \/ SubmitWoken PROVE LocksMatch'
  BY <1>0, <1>2 DEF SubmitLock, SubmitWoken, Enqueue, LocksMatch, Free, Client
<1>3. ASSUME SignalLock PROVE LocksMatch'
  BY <1>0, <1>3 DEF SignalLock, LocksMatch, Free, Client
<1>4. ASSUME Signal PROVE LocksMatch'
  BY <1>0, <1>4 DEF Signal, SignalWorker, LocksMatch, Free, Client, tpVars
<1>5. ASSUME SignalExit PROVE LocksMatch'
  BY <1>0, <1>5 DEF SignalExit, SignalWorker, LocksMatch, Free, Client, tpVars
<1>6. ASSUME SpawnFails \/ SetupWait \/ WaitLock \/ WaitWoken \/ ClientCall \/ SpuriousClient
      PROVE  LocksMatch'
  <2>1. UNCHANGED <<tp_mutex, wmutex, wpc, ci>>
    BY <1>6 DEF SpawnFails, SetupWait, WaitLock, WaitWoken, ClientCall, CreateDummy, CreateFails,
       Create, Submit, SubmitToDummy, SubmitAllocFails, WaitCompletion, Destroy, SpuriousClient,
       tpVars, workerVars, clientVars
  <2>2. cpc' = cpc \/ ({cpc, cpc'} \cap {"signal_lock", "signal"} = {})
    BY <1>6 DEF SpawnFails, SetupWait, WaitLock, WaitWoken, ClientCall, CreateDummy, CreateFails,
       Create, Submit, SubmitToDummy, SubmitAllocFails, WaitCompletion, Destroy, SpuriousClient,
       StartDestroy, SleepOrReturn, SleepPC, WokenFrom, clientVars
  <2> QED BY <2>1, <2>2, LocksFrame
<1>7. ASSUME Stop \/ Join PROVE LocksMatch'
  BY <1>0, <1>7 DEF Stop, Join, NextJoin, LocksMatch, workerVars
<1> QED BY <1>1, <1>2, <1>3, <1>4, <1>5, <1>6, <1>7 DEF ClientStep, ClientProgress

LEMMA StartedStepClient ==
    ASSUME TypeInv, Started, ClientStep \/ ClientCall \/ SpuriousClient
    PROVE  Started'
<1> USE DEF TypeInv, TypeOK
<1>0. /\ wpc \in [Worker -> WorkerPC] /\ cpc \in ClientPC /\ Worker \subseteq Nat /\ ci \in Nat
      /\ worker_threads_count \in 0..NumThreads
  BY DEF WorkerTypeOK, ClientTypeOK, Worker, PoolTypeOK
<1>1. ASSUME SpawnWorker PROVE Started'
  <2>1. ci \in Worker /\ wpc[ci] = "none" /\ ci <= worker_threads_count
    BY <1>0, <1>1 DEF SpawnWorker, Unstarted, ClientLocalsMatch, Worker, ClientTypeOK
  <2>2. /\ wpc' = [wpc EXCEPT ![ci] = "get"] /\ ci' = ci + 1
        /\ cpc = "spawn" /\ cpc' = IF ci = worker_threads_count THEN "setup" ELSE "spawn"
        /\ worker_threads_count' = worker_threads_count
    BY <1>1 DEF SpawnWorker, tpVars
  <2> QED BY <1>0, <2>1, <2>2 DEF Started
<1>2. ASSUME SpawnFails \/ CreateDummy \/ CreateFails \/ (\E n \in Worker : Create(n))
      PROVE  Started'
  <2>1. UNCHANGED wpc /\ ci' = ci
    BY <1>2 DEF SpawnFails, CreateDummy, CreateFails, Create, workerVars
  <2>2. CASE SpawnFails
    BY <1>0, <2>1, <2>2 DEF SpawnFails, Started
  <2>3. CASE cpc = "create"
    <3>1. /\ ci = 1 /\ \A w \in Worker : w >= 1 /\ wpc[w] = "none"
      BY <2>3 DEF Started, ClientLocalsMatch, Worker, Unstarted
    <3>2. /\ worker_threads_count = 0
          /\ \A w \in Worker : wpc'[w] = "none" /\ ~(w < ci') /\ ~(w <= 0)
      BY <1>0, <2>1, <2>3, <3>1 DEF Started
    <3>3. CASE CreateDummy \/ CreateFails
      <4>1. worker_threads_count' = 0 /\ cpc' \in {"idle", "freed", "wait"}
        BY <3>2, <3>3 DEF CreateDummy, CreateFails, StartDestroy, tpVars
      <4> QED BY <3>2, <4>1 DEF Started
    <3>4. CASE \E n \in Worker : Create(n)
      <4>1. cpc' = "spawn"
        BY <3>4 DEF Create
      <4> QED BY <3>2, <4>1 DEF Started
    <3> QED BY <1>2, <2>3, <3>3, <3>4 DEF SpawnFails
  <2> QED BY <1>2, <2>2, <2>3 DEF CreateDummy, CreateFails, Create
<1>3. ASSUME SubmitLock \/ SubmitWoken \/ Stop \/ Join PROVE Started'
  BY <1>3 DEF SubmitLock, SubmitWoken, Enqueue, Stop, Join, NextJoin, Started, workerVars
<1>4. ASSUME \/ SetupWait \/ SignalLock \/ WaitLock \/ WaitWoken
             \/ SpuriousClient \/ Destroy \/ SubmitAllocFails
             \/ (\E j \in Jobs : Submit(j) \/ SubmitToDummy(j))
             \/ (\E n \in WaitArgs : WaitCompletion(n))
      PROVE  Started'
  BY <1>4 DEF SetupWait, SignalLock, WaitLock, WaitWoken, SpuriousClient, Destroy,
     SubmitAllocFails, Submit, SubmitToDummy, WaitCompletion, StartDestroy, SleepOrReturn,
     SleepPC, WokenFrom, Started, tpVars, workerVars, clientVars
<1>5. ASSUME Signal \/ SignalExit PROVE Started'
  BY <1>0, <1>5 DEF Signal, SignalExit, SignalWorker, Started, tpVars
<1> QED BY <1>1, <1>2, <1>3, <1>4, <1>5 DEF ClientStep, ClientProgress, ClientCall

(***************************************************************************)
(* The stages of the client, and the queue once the pool drains            *)
(***************************************************************************)
Submitting == {"submit", "submit_sleep", "submit_woken", "signal_lock", "signal"}
Closing    == {"wait", "wait_sleep", "wait_woken", "stop", "signal_exit", "join", "freed"}
Drained    == {"stop", "signal_exit", "join", "freed"}

StagesMatch ==
    /\ destroying => cmax = 0 /\ cpc \in Closing
    /\ cpc \in Drained \ {"freed"} => destroying
    /\ state = "STOP" => cpc \in {"signal_exit", "join", "freed"}
    /\ cpc \in {"signal_exit", "join"} => state = "STOP"
    /\ cpc \in Submitting => worker_threads_count > 0
    /\ cpc \in {"submit_sleep", "submit_woken"} =>
          signaling_threshold = QueueFactor * worker_threads_count

QueueMatch ==
    /\ cpc \in {"create", "spawn"} => job_queue = <<>>
    /\ worker_threads_count = 0 => job_queue = <<>>
    /\ cpc \in Drained => job_queue = <<>> /\ Running = {}

(* Once the count of pending jobs is not above 0 nothing is left.          *)
LEMMA NothingPending ==
    ASSUME TypeInv, PendingExact, pending_jobs_count <= 0
    PROVE  job_queue = <<>> /\ Running = {}
<1>1. Len(job_queue) \in Nat /\ (Len(job_queue) = 0 => job_queue = <<>>)
  BY DEF TypeInv, TypeOK, PoolTypeOK
<1>2. Len(job_queue) = 0 /\ Cardinality(Running) = 0
  BY <1>1, CountsFinite DEF PendingExact
<1> QED BY <1>1, <1>2, CountsFinite, FS_EmptySet

LEMMA StagesWorker ==
    ASSUME TypeInv, StagesMatch, NEW w \in Worker, WorkerStep(w) \/ SpuriousWorker(w)
    PROVE  StagesMatch'
<1>0. cpc \in ClientPC
  BY DEF TypeInv, TypeOK, ClientTypeOK
<1>1. /\ UNCHANGED <<destroying, cmax, worker_threads_count, signaling_threshold>>
      /\ state' = "STOP" => state = "STOP"
  BY DEF WorkerStep, WorkerProgress, GetJobStop, GetJobTake, GetJobWait, GetJobAllocFails,
     OwnLock, CondWait, Woken, RunJob, SpuriousWorker, tpVars, clientVars
<1>3. state = "STOP" => state' = "STOP"
  BY DEF WorkerStep, WorkerProgress, GetJobStop, GetJobTake, GetJobWait, GetJobAllocFails,
     OwnLock, CondWait, Woken, RunJob, SpuriousWorker, tpVars
<1>2. cpc' = cpc \/ (cpc \in SleepPC /\ cpc' = WokenFrom[cpc])
  BY DEF WorkerStep, WorkerProgress, GetJobStop, GetJobTake, GetJobWait, GetJobAllocFails,
     OwnLock, CondWait, Woken, RunJob, SpuriousWorker, clientVars, SignalClientIf
<1> QED BY <1>0, <1>1, <1>2, <1>3
        DEF StagesMatch, SleepPC, WokenFrom, Submitting, Closing, Drained

LEMMA StagesClient ==
    ASSUME TypeInv, StagesMatch, ClientStep \/ ClientCall \/ SpuriousClient
    PROVE  StagesMatch'
<1>0. cpc \in ClientPC /\ worker_threads_count \in Nat
  BY DEF TypeInv, TypeOK, ClientTypeOK, PoolTypeOK
<1> USE DEF StagesMatch, Submitting, Closing, Drained
<1>1. ASSUME SpawnWorker \/ SpawnFails \/ SetupWait PROVE StagesMatch'
  BY <1>0, <1>1 DEF SpawnWorker, SpawnFails, SetupWait, StartDestroy, tpVars
<1>2. ASSUME SubmitLock \/ SubmitWoken PROVE StagesMatch'
  BY <1>0, <1>2 DEF SubmitLock, SubmitWoken, Enqueue
<1>3. ASSUME SignalLock \/ Signal PROVE StagesMatch'
  BY <1>0, <1>3 DEF SignalLock, Signal, tpVars
<1>4. ASSUME WaitLock \/ WaitWoken PROVE StagesMatch'
  BY <1>0, <1>4 DEF WaitLock, WaitWoken, SleepOrReturn, tpVars
<1>5. ASSUME Stop \/ SignalExit \/ Join PROVE StagesMatch'
  BY <1>0, <1>5 DEF Stop, SignalExit, Join, NextJoin, tpVars
<1>6. ASSUME CreateDummy \/ CreateFails \/ (\E n \in Worker : Create(n)) PROVE StagesMatch'
  BY <1>0, <1>6 DEF CreateDummy, CreateFails, Create, StartDestroy, tpVars
<1>7. ASSUME \E j \in Jobs : Submit(j) \/ SubmitToDummy(j) PROVE StagesMatch'
  BY <1>0, <1>7 DEF Submit, SubmitToDummy, Dummy, tpVars, clientVars
<1>8. ASSUME SubmitAllocFails \/ Destroy \/ (\E n \in WaitArgs : WaitCompletion(n))
      PROVE  StagesMatch'
  BY <1>0, <1>8 DEF SubmitAllocFails, Destroy, WaitCompletion, StartDestroy, tpVars, clientVars
<1>9. ASSUME SpuriousClient PROVE StagesMatch'
  BY <1>0, <1>9 DEF SpuriousClient, SleepPC, WokenFrom, tpVars
<1> QED BY <1>1, <1>2, <1>3, <1>4, <1>5, <1>6, <1>7, <1>8, <1>9
        DEF ClientStep, ClientProgress, ClientCall

LEMMA QueueWorker ==
    ASSUME TypeInv, QueueMatch, NEW w \in Worker, WorkerStep(w) \/ SpuriousWorker(w)
    PROVE  QueueMatch'
<1>0. /\ cpc \in ClientPC
      /\ worker_threads_count' = worker_threads_count
      /\ cpc' = cpc \/ (cpc \in SleepPC /\ cpc' \in WokenPC)
  BY SignalClientKeepsStage, ReportsBoolean
     DEF WorkerStep, WorkerProgress, GetJobStop, GetJobTake, GetJobWait, GetJobAllocFails,
     OwnLock, CondWait, Woken, RunJob, SpuriousWorker, tpVars, clientVars,
     TypeInv, TypeOK, ClientTypeOK
<1>1. \/ GetJobTake(w) /\ job_queue # <<>>
      \/ job_queue' = job_queue /\ Running' \subseteq Running
  BY DEF WorkerStep, WorkerProgress, GetJobStop, GetJobTake, GetJobWait, GetJobAllocFails,
     OwnLock, CondWait, Woken, RunJob, SpuriousWorker, tpVars, clientVars, Running,
     TypeInv, TypeOK, WorkerTypeOK
<1>2. ASSUME GetJobTake(w), job_queue # <<>> PROVE QueueMatch'
  BY <1>0, <1>2 DEF QueueMatch, SleepPC, WokenPC, Drained
<1>3. ASSUME job_queue' = job_queue, Running' \subseteq Running PROVE QueueMatch'
  BY <1>0, <1>3 DEF QueueMatch, SleepPC, WokenPC, Drained
<1> QED BY <1>1, <1>2, <1>3

LEMMA QueueClient ==
    ASSUME TypeInv, Started, PendingExact, StagesMatch, QueueMatch,
           ClientStep \/ ClientCall \/ SpuriousClient
    PROVE  QueueMatch'
<1>0. cpc \in ClientPC /\ worker_threads_count \in Nat /\ ci \in Nat
  BY DEF TypeInv, TypeOK, ClientTypeOK, PoolTypeOK
<1>1. wjob' = wjob /\ Running' = Running
  BY DEF ClientStep, ClientProgress, ClientCall, SpawnWorker, SpawnFails, SetupWait, SubmitLock,
     SubmitWoken, SignalLock, Signal, WaitLock, WaitWoken, Stop, SignalExit, Join, CreateDummy,
     CreateFails, Create, Submit, SubmitToDummy, SubmitAllocFails, WaitCompletion, Destroy,
     SpuriousClient, workerVars, Running
<1>2. ASSUME \A w \in Worker : wpc[w] = "none" PROVE Running = {}
  BY <1>2 DEF Running, TypeInv, WorkerLocalsMatch
<1>3. ASSUME SpawnWorker \/ SpawnFails \/ SetupWait PROVE QueueMatch'
  BY <1>0, <1>1, <1>3 DEF SpawnWorker, SpawnFails, SetupWait, StartDestroy, QueueMatch, Drained, tpVars
<1>4. ASSUME SubmitLock \/ SubmitWoken PROVE QueueMatch'
  BY <1>0, <1>4 DEF SubmitLock, SubmitWoken, Enqueue, QueueMatch, Drained, StagesMatch, Submitting
<1>5. ASSUME SignalLock \/ Signal PROVE QueueMatch'
  BY <1>0, <1>1, <1>5 DEF SignalLock, Signal, QueueMatch, Drained, tpVars
<1>6. ASSUME WaitLock \/ WaitWoken PROVE QueueMatch'
  <2>1. UNCHANGED <<job_queue, worker_threads_count>> /\ cpc \notin Drained /\ SleepOrReturn
    BY <1>6 DEF WaitLock, WaitWoken, Drained, tpVars
  <2>2. CASE cpc' \in Drained
    <3>1. pending_jobs_count <= 0
      BY <2>1, <2>2 DEF SleepOrReturn, Drained, StagesMatch, TypeInv, TypeOK, PoolTypeOK
    <3> QED BY <2>1, <2>2, <3>1, <1>1, NothingPending DEF QueueMatch, Drained
  <2>3. CASE cpc' \notin Drained
    BY <2>1, <2>3, <1>1 DEF QueueMatch, SleepOrReturn
  <2> QED BY <2>2, <2>3
<1>7. ASSUME Stop \/ SignalExit \/ Join PROVE QueueMatch'
  BY <1>0, <1>1, <1>7 DEF Stop, SignalExit, Join, NextJoin, tpVars, QueueMatch, Drained
<1>8. ASSUME CreateDummy \/ CreateFails \/ (\E n \in Worker : Create(n)) PROVE QueueMatch'
  <2>1. cpc = "create" /\ job_queue' = job_queue /\ job_queue = <<>>
    BY <1>8 DEF CreateDummy, CreateFails, Create, tpVars, QueueMatch
  <2>2. Running = {}
    BY <2>1, <1>2 DEF Started
  <2> QED BY <2>1, <2>2, <1>1 DEF QueueMatch
<1>9. ASSUME Destroy PROVE QueueMatch'
  <2>1. cpc = "idle" /\ UNCHANGED <<job_queue, worker_threads_count>>
        /\ cpc' = (IF Dummy THEN "freed" ELSE "wait")
    BY <1>9 DEF Destroy, StartDestroy, tpVars
  <2>2. CASE Dummy
    <3>1. \A w \in Worker : wpc[w] = "none"
      BY <1>0, <2>1, <2>2 DEF Started, Dummy, Worker
    <3> QED BY <1>1, <1>2, <2>1, <2>2, <3>1 DEF QueueMatch, Dummy
  <2>3. CASE ~Dummy
    BY <1>1, <2>1, <2>3 DEF QueueMatch, Drained
  <2> QED BY <2>2, <2>3
<1>10. ASSUME \/ \E j \in Jobs : Submit(j) \/ SubmitToDummy(j)
              \/ SubmitAllocFails \/ SpuriousClient
              \/ \E n \in WaitArgs : WaitCompletion(n)
       PROVE QueueMatch'
  BY <1>0, <1>1, <1>10 DEF Submit, SubmitToDummy, SubmitAllocFails, WaitCompletion, SpuriousClient,
     SleepPC, WokenFrom, QueueMatch, Drained, tpVars, clientVars
<1> QED BY <1>3, <1>4, <1>5, <1>6, <1>7, <1>8, <1>9, <1>10
        DEF ClientStep, ClientProgress, ClientCall

(***************************************************************************)
(* Nothing is freed under a running worker                                 *)
(***************************************************************************)
(* Joined workers have ended, and so has each one when the pool is freed.  *)
JoinedMatch ==
    /\ cpc \in {"signal_exit", "join"} => \A w \in 1..(ci - 1) : wpc[w] = "exited"
    /\ cpc = "freed" => \A w \in Worker : wpc[w] \in {"none", "exited"}

LEMMA JoinedWorker ==
    ASSUME TypeInv, JoinedMatch, NEW w \in Worker, WorkerStep(w) \/ SpuriousWorker(w)
    PROVE  JoinedMatch'
<1>0. /\ cpc \in ClientPC /\ wpc \in [Worker -> WorkerPC] /\ ci' = ci
      /\ cpc' = cpc \/ (cpc \in SleepPC /\ cpc' \in WokenPC)
  BY SignalClientKeepsStage, ReportsBoolean
     DEF WorkerStep, WorkerProgress, GetJobStop, GetJobTake, GetJobWait, GetJobAllocFails,
     OwnLock, CondWait, Woken, RunJob, SpuriousWorker, tpVars, clientVars,
     TypeInv, TypeOK, ClientTypeOK, WorkerTypeOK
<1>1. /\ wpc[w] \notin {"none", "exited"}
      /\ \E pc \in WorkerPC : wpc' = [wpc EXCEPT ![w] = pc]
  BY DEF WorkerStep, WorkerProgress, GetJobStop, GetJobTake, GetJobWait, GetJobAllocFails,
     EnterGetJob, OwnLock, CondWait, Woken, RunJob, SpuriousWorker, WorkerPC
<1>2. cpc \in {"signal_exit", "join"} => 1..(ci - 1) \subseteq Worker
  BY DEF TypeInv, TypeOK, ClientTypeOK, Worker
<1> QED BY <1>0, <1>1, <1>2 DEF JoinedMatch, SleepPC, WokenPC

LEMMA JoinedClient ==
    ASSUME TypeInv, Started, JoinedMatch, ClientStep \/ ClientCall \/ SpuriousClient
    PROVE  JoinedMatch'
<1>0. /\ cpc \in ClientPC /\ wpc \in [Worker -> WorkerPC]
      /\ ci \in 1..(NumThreads + 1) /\ worker_threads_count \in 0..NumThreads
  BY DEF TypeInv, TypeOK, ClientTypeOK, WorkerTypeOK, PoolTypeOK
<1>1. ASSUME UNCHANGED wpc, cpc' \notin {"signal_exit", "join", "freed"} PROVE JoinedMatch'
  BY <1>1 DEF JoinedMatch
<1>2. ASSUME SpawnWorker \/ Signal PROVE JoinedMatch'
  BY <1>2 DEF SpawnWorker, Signal, JoinedMatch
<1>3. ASSUME Stop PROVE JoinedMatch'
  <2>1. ci' = 1 /\ wpc' = wpc /\ cpc = "stop" /\ UNCHANGED worker_threads_count
        /\ cpc' = (IF 1 > worker_threads_count THEN "freed" ELSE "signal_exit")
    BY <1>3 DEF Stop, NextJoin, workerVars
  <2>2. 1 > worker_threads_count => \A w \in Worker : wpc[w] = "none"
    BY <1>0, <2>1 DEF Started, Worker
  <2> QED BY <2>1, <2>2 DEF JoinedMatch
<1>4. ASSUME Join PROVE JoinedMatch'
  <2>1. /\ ci' = ci + 1 /\ wpc' = wpc /\ cpc = "join" /\ UNCHANGED worker_threads_count
        /\ wpc[ci] = "exited"
        /\ cpc' = (IF ci + 1 > worker_threads_count THEN "freed" ELSE "signal_exit")
    BY <1>4 DEF Join, NextJoin, workerVars
  <2>2. \A w \in 1..ci : wpc[w] = "exited"
    BY <1>0, <2>1 DEF JoinedMatch
  <2>3. ci + 1 > worker_threads_count => \A w \in Worker : wpc[w] \in {"none", "exited"}
    BY <1>0, <2>1, <2>2 DEF Started, Worker
  <2> QED BY <1>0, <2>1, <2>2, <2>3 DEF JoinedMatch
<1>5. ASSUME SignalExit PROVE JoinedMatch'
  BY <1>0, <1>5 DEF SignalExit, SignalWorker, JoinedMatch, Worker
<1>6. ASSUME CreateDummy \/ CreateFails PROVE JoinedMatch'
  <2>1. \A w \in Worker : wpc[w] = "none"
    BY <1>6 DEF CreateDummy, CreateFails, Started
  <2> QED BY <2>1, <1>6 DEF CreateDummy, CreateFails, StartDestroy, JoinedMatch, workerVars
<1>7. ASSUME Destroy PROVE JoinedMatch'
  <2>1. cpc = "idle" /\ wpc' = wpc /\ cpc' = (IF Dummy THEN "freed" ELSE "wait")
    BY <1>7 DEF Destroy, StartDestroy, workerVars
  <2>2. Dummy => \A w \in Worker : wpc[w] = "none"
    BY <1>0, <2>1 DEF Started, Worker, Dummy
  <2> QED BY <2>1, <2>2 DEF JoinedMatch
<1>8. ASSUME \/ SpawnFails \/ SetupWait \/ SubmitLock \/ SubmitWoken \/ SignalLock
             \/ WaitLock \/ WaitWoken \/ SpuriousClient \/ SubmitAllocFails
             \/ (\E n \in Worker : Create(n))
             \/ (\E j \in Jobs : Submit(j) \/ SubmitToDummy(j))
             \/ (\E n \in WaitArgs : WaitCompletion(n))
      PROVE  JoinedMatch'
  <2>1. UNCHANGED wpc /\ cpc' \notin {"signal_exit", "join", "freed"}
    BY <1>8 DEF SpawnFails, SetupWait, SubmitLock, SubmitWoken, Enqueue, SignalLock,
       WaitLock, WaitWoken, SpuriousClient, SubmitAllocFails, Create, Submit, SubmitToDummy,
       WaitCompletion, StartDestroy, SleepOrReturn, SleepPC, WokenFrom, workerVars, clientVars
  <2> QED BY <1>1, <2>1
<1> QED BY <1>2, <1>3, <1>4, <1>5, <1>6, <1>7, <1>8
        DEF ClientStep, ClientProgress, ClientCall

LEMMA FreedFollows ==
    TypeInv /\ LocksMatch /\ QueueMatch /\ JoinedMatch => FreedUnused
<1> SUFFICES ASSUME TypeInv, LocksMatch, QueueMatch, JoinedMatch PROVE FreedUnused
  OBVIOUS
<1>1. /\ tp_mutex \in Thread \union {Free} /\ ci \in 1..(NumThreads + 1)
      /\ \A w \in Worker : wmutex[w] \in {Free, Client, w}
  BY DEF TypeInv, TypeOK, PoolTypeOK, ClientTypeOK, LocksMatch
<1>2. cpc \in {"signal_exit", "join"} =>
          \A w \in 1..(ci - 1) : wpc[w] = "exited" /\ wmutex[w] = Free
  BY <1>1 DEF JoinedMatch, LocksMatch, Worker
<1>3. cpc = "freed" =>
          /\ \A w \in Worker : wpc[w] \in {"none", "exited"} /\ wmutex[w] = Free
          /\ tp_mutex = Free
  BY <1>1 DEF JoinedMatch, LocksMatch, Thread
<1> QED BY <1>2, <1>3 DEF FreedUnused, QueueMatch, Drained

(***************************************************************************)
(* The list of waiting workers                                             *)
(***************************************************************************)
Marked == {w \in Worker : marked[w]}

(* WaitingListExact without the bound on the count, which follows: a       *)
(* worker is marked by its own thread only.                                *)
WaitingInv ==
    /\ \A w \in Worker : marked[w] => wpc[w] # "none"
    /\ cpc # "freed" =>
          /\ \A i, k \in DOMAIN waiting_list :
                waiting_list[i] = waiting_list[k] => i = k
          /\ \A w \in Worker : Listed(w) => marked[w]
          /\ \A w \in Worker :
                marked[w] => \/ Listed(w)
                             \/ wpc[w] = "exited" /\ (state = "ERROR" \/ destroying)
          /\ waiting_count = Cardinality(Marked)

LEMMA MarkedFinite == IsFiniteSet(Marked) /\ Cardinality(Marked) \in Nat
BY WorkerFinite, FS_Subset, FS_CardinalityType DEF Marked

LEMMA WaitingFollows ==
    ASSUME TypeInv, Started, WaitingInv
    PROVE  WaitingListExact
<1>1. worker_threads_count \in Nat /\ ci \in Nat /\ (cpc = "spawn" => ci <= worker_threads_count)
  BY DEF TypeInv, TypeOK, PoolTypeOK, ClientTypeOK, ClientLocalsMatch
<1>2. Marked \subseteq 1..worker_threads_count
  BY <1>1 DEF Marked, WaitingInv, Started, Worker
<1>3. /\ IsFiniteSet(1..worker_threads_count)
      /\ Cardinality(1..worker_threads_count) = worker_threads_count
  BY <1>1, FS_Interval
<1>4. Cardinality(Marked) <= worker_threads_count
  BY <1>2, <1>3, FS_Subset
<1> QED BY <1>4 DEF WaitingInv, WaitingListExact, Marked

LEMMA WaitingFrame ==
    ASSUME WaitingInv, UNCHANGED <<waiting_list, waiting_count, marked>>,
           cpc = "freed" => cpc' = "freed",
           state = "ERROR" => state' = "ERROR" \/ destroying', destroying => destroying',
           \A w \in Worker : /\ wpc[w] # "none" => wpc'[w] # "none"
                             /\ wpc[w] = "exited" => wpc'[w] = "exited"
    PROVE  WaitingInv'
<1>1. Marked' = Marked
  BY DEF Marked
<1>2. \A w \in Worker : Listed(w)' <=> Listed(w)
  BY DEF Listed
<1> QED BY <1>1, <1>2 DEF WaitingInv

LEMMA WaitingGetJobWait ==
    ASSUME TypeInv, WaitingInv, NEW w \in Worker, GetJobWait(w)
    PROVE  WaitingInv'
<1>0. /\ marked \in [Worker -> BOOLEAN] /\ wpc \in [Worker -> WorkerPC] /\ cpc \in ClientPC
      /\ waiting_list \in Seq(Worker)
  BY DEF TypeInv, TypeOK, WorkerTypeOK, ClientTypeOK, PoolTypeOK
<1>1. /\ wpc[w] = "get" /\ wpc' = [wpc EXCEPT ![w] = "own_lock"]
      /\ cpc = "freed" => cpc' = "freed"
      /\ cpc' = "freed" => cpc = "freed"
      /\ UNCHANGED <<state, destroying>>
  BY <1>0 DEF GetJobWait, EnterGetJob, SignalClientIf, SleepPC, WokenFrom
<1>2. CASE marked[w]
  BY <1>0, <1>1, <1>2, WaitingFrame DEF GetJobWait
<1>3. CASE ~marked[w]
  <2>1. /\ marked' = [marked EXCEPT ![w] = TRUE]
        /\ waiting_count' = waiting_count + 1
        /\ waiting_list' = <<w>> \o waiting_list
    BY <1>3 DEF GetJobWait
  <2>2. Marked' = Marked \union {w} /\ w \notin Marked
    BY <1>0, <1>3, <2>1 DEF Marked
  <2>3. Cardinality(Marked') = Cardinality(Marked) + 1
    BY <2>2, MarkedFinite, FS_AddElement
  <2>4. /\ DOMAIN waiting_list = 1..Len(waiting_list) /\ Len(waiting_list) \in Nat
        /\ DOMAIN waiting_list' = 1..(Len(waiting_list) + 1)
        /\ waiting_list'[1] = w
        /\ \A i \in 2..(Len(waiting_list) + 1) : waiting_list'[i] = waiting_list[i - 1]
    BY <1>0, <2>1, ConsIndex
  <2>5. \A v \in Worker : Listed(v)' <=> Listed(v) \/ v = w
    <3> TAKE v \in Worker
    <3>1. ASSUME Listed(v)' PROVE Listed(v) \/ v = w
      BY <2>4, <3>1 DEF Listed
    <3>2. ASSUME Listed(v) PROVE Listed(v)'
      <4>1. PICK i \in DOMAIN waiting_list : waiting_list[i] = v
        BY <3>2 DEF Listed
      <4>2. i + 1 \in DOMAIN waiting_list' /\ waiting_list'[i + 1] = v
        BY <4>1, <2>4
      <4> QED BY <4>2 DEF Listed
    <3>3. ASSUME v = w PROVE Listed(v)'
      <4>1. 1 \in DOMAIN waiting_list' /\ waiting_list'[1] = v
        BY <3>3, <2>4
      <4> QED BY <4>1 DEF Listed
    <3> QED BY <3>1, <3>2, <3>3
  <2>6. ASSUME cpc' # "freed"
        PROVE  \A i, k \in DOMAIN waiting_list' : waiting_list'[i] = waiting_list'[k] => i = k
    <3>1. \A i, k \in DOMAIN waiting_list : waiting_list[i] = waiting_list[k] => i = k
      BY <2>6, <1>1 DEF WaitingInv
    <3>2. \A i \in DOMAIN waiting_list : waiting_list[i] # w
      BY <2>6, <1>0, <1>1, <1>3 DEF WaitingInv, Listed
    <3> QED BY <2>4, <3>1, <3>2
  <2>7. \A v \in Worker : marked'[v] => wpc'[v] # "none"
    BY <1>0, <1>1, <2>1 DEF WaitingInv
  <2>8. ASSUME cpc' # "freed", NEW v \in Worker
        PROVE  /\ Listed(v)' => marked'[v]
               /\ marked'[v] => \/ Listed(v)'
                                \/ wpc'[v] = "exited" /\ (state' = "ERROR" \/ destroying')
    BY <1>0, <1>1, <2>1, <2>5, <2>8 DEF WaitingInv
  <2>9. cpc' # "freed" => waiting_count' = Cardinality(Marked')
    BY <1>1, <2>1, <2>3 DEF WaitingInv
  <2> QED BY <2>6, <2>7, <2>8, <2>9 DEF WaitingInv
<1> QED BY <1>2, <1>3

LEMMA WaitingAllocFails ==
    ASSUME TypeInv, WaitingInv, NEW w \in Worker, GetJobAllocFails(w)
    PROVE  WaitingInv'
<1>0. marked \in [Worker -> BOOLEAN] /\ wpc \in [Worker -> WorkerPC] /\ cpc \in ClientPC
  BY DEF TypeInv, TypeOK, WorkerTypeOK, ClientTypeOK
<1>1. /\ wpc[w] = "get" /\ wpc' = [wpc EXCEPT ![w] = "exited"] /\ state' = "ERROR"
      /\ cpc' = "freed" <=> cpc = "freed"
      /\ ~marked[w] /\ marked' = [marked EXCEPT ![w] = TRUE]
      /\ waiting_count' = waiting_count + 1 /\ UNCHANGED <<waiting_list, destroying>>
  BY <1>0 DEF GetJobAllocFails, EnterGetJob, SignalClientIf, SleepPC, WokenFrom
<1>2. Marked' = Marked \union {w} /\ w \notin Marked
  BY <1>0, <1>1 DEF Marked
<1>3. Cardinality(Marked') = Cardinality(Marked) + 1
  BY <1>2, MarkedFinite, FS_AddElement
<1>4. \A v \in Worker : Listed(v)' <=> Listed(v)
  BY <1>1 DEF Listed
<1> QED BY <1>0, <1>1, <1>3, <1>4 DEF WaitingInv

LEMMA WaitingEnqueue ==
    ASSUME TypeInv, WaitingInv, NEW threshold, Enqueue(threshold),
           cpc # "freed", UNCHANGED <<wpc, state, destroying>>
    PROVE  WaitingInv'
<1>0. marked \in [Worker -> BOOLEAN] /\ waiting_list \in Seq(Worker)
  BY DEF TypeInv, TypeOK, WorkerTypeOK, PoolTypeOK
<1>1. CASE UNCHANGED <<waiting_list, waiting_count, marked>>
  BY <1>1, WaitingFrame
<1> DEFINE h == Head(waiting_list)
<1>2. CASE /\ waiting_list # <<>>
           /\ marked' = [marked EXCEPT ![h] = FALSE]
           /\ waiting_list' = Tail(waiting_list)
           /\ waiting_count' = waiting_count - 1
  <2>1. /\ DOMAIN waiting_list = 1..Len(waiting_list) /\ Len(waiting_list) \in Nat
        /\ Len(waiting_list) > 0 /\ h = waiting_list[1] /\ h \in Worker
        /\ DOMAIN waiting_list' = 1..(Len(waiting_list) - 1)
        /\ \A i \in DOMAIN waiting_list' : waiting_list'[i] = waiting_list[i + 1]
    BY <1>0, <1>2, TailIndex
  <2>2. Listed(h) /\ marked[h]
    BY <2>1 DEF Listed, WaitingInv
  <2>3. Marked' = Marked \ {h} /\ h \in Marked
    BY <1>0, <1>2, <2>1, <2>2 DEF Marked
  <2>4. Cardinality(Marked') = Cardinality(Marked) - 1
    BY <2>3, MarkedFinite, FS_RemoveElement
  <2>5. \A i, k \in DOMAIN waiting_list : waiting_list[i] = waiting_list[k] => i = k
    BY DEF WaitingInv
  <2>6. \A v \in Worker : Listed(v)' <=> Listed(v) /\ v # h
    <3> TAKE v \in Worker
    <3>1. ASSUME Listed(v)' PROVE Listed(v) /\ v # h
      <4>1. PICK i \in DOMAIN waiting_list' : waiting_list'[i] = v
        BY <3>1 DEF Listed
      <4>2. i + 1 \in DOMAIN waiting_list /\ waiting_list[i + 1] = v /\ i + 1 # 1 /\ 1 \in DOMAIN waiting_list
        BY <4>1, <2>1
      <4> QED BY <4>2, <2>1, <2>5 DEF Listed
    <3>2. ASSUME Listed(v), v # h PROVE Listed(v)'
      <4>1. PICK i \in DOMAIN waiting_list : waiting_list[i] = v
        BY <3>2 DEF Listed
      <4>2. i - 1 \in DOMAIN waiting_list' /\ waiting_list'[i - 1] = v
        BY <4>1, <3>2, <2>1
      <4> QED BY <4>2 DEF Listed
    <3> QED BY <3>1, <3>2
  <2>7. \A i, k \in DOMAIN waiting_list' : waiting_list'[i] = waiting_list'[k] => i = k
    BY <2>1, <2>5
  <2>8. \A v \in Worker : marked'[v] <=> marked[v] /\ v # h
    BY <1>0, <1>2, <2>1
  <2>9. waiting_count' = Cardinality(Marked')
    BY <1>2, <2>4 DEF WaitingInv
  <2> QED BY <2>6, <2>7, <2>8, <2>9 DEF WaitingInv
<1> QED BY <1>1, <1>2 DEF Enqueue

LEMMA WaitingWorker ==
    ASSUME TypeInv, WaitingInv, NEW w \in Worker, WorkerStep(w) \/ SpuriousWorker(w)
    PROVE  WaitingInv'
<1>0. wpc \in [Worker -> WorkerPC] /\ cpc \in ClientPC
  BY DEF TypeInv, TypeOK, WorkerTypeOK, ClientTypeOK
<1>1. ASSUME GetJobStop(w) \/ GetJobTake(w) \/ OwnLock(w) \/ CondWait(w) \/ Woken(w) \/ RunJob(w)
                \/ SpuriousWorker(w)
      PROVE  WaitingInv'
  <2>1. /\ UNCHANGED <<waiting_list, waiting_count, marked, state, destroying>>
        /\ wpc[w] \notin {"none", "exited"}
        /\ \E pc \in WorkerPC \ {"none"} : wpc' = [wpc EXCEPT ![w] = pc]
    BY <1>1 DEF GetJobStop, GetJobTake, EnterGetJob, OwnLock, CondWait, Woken, RunJob,
       SpuriousWorker, WorkerPC, tpVars, clientVars
  <2>2. cpc = "freed" => cpc' = "freed"
    BY <1>1 DEF GetJobStop, GetJobTake, OwnLock, CondWait, Woken, RunJob,
       SpuriousWorker, SignalClientIf, SleepPC, clientVars
  <2> QED BY <1>0, <2>1, <2>2, WaitingFrame
<1> QED BY <1>1, WaitingGetJobWait, WaitingAllocFails DEF WorkerStep, WorkerProgress

LEMMA WaitingClient ==
    ASSUME TypeInv, Started, StagesMatch, WaitingInv, ClientStep \/ ClientCall \/ SpuriousClient
    PROVE  WaitingInv'
<1>0. /\ wpc \in [Worker -> WorkerPC] /\ cpc \in ClientPC
  BY DEF TypeInv, TypeOK, WorkerTypeOK, ClientTypeOK
<1>1. ASSUME SpawnWorker PROVE WaitingInv'
  <2>1. ci \in Worker /\ wpc[ci] = "none" /\ cpc # "freed"
    BY <1>1 DEF SpawnWorker, Unstarted, ClientLocalsMatch, Worker, ClientTypeOK, PoolTypeOK,
       TypeInv, TypeOK
  <2> QED BY <1>0, <1>1, <2>1, WaitingFrame DEF SpawnWorker, tpVars
<1>2. ASSUME SubmitLock \/ SubmitWoken PROVE WaitingInv'
  BY <1>2, WaitingEnqueue DEF SubmitLock, SubmitWoken
<1>3. ASSUME Signal \/ SignalExit PROVE WaitingInv'
  BY <1>0, <1>3, WaitingFrame DEF Signal, SignalExit, SignalWorker, tpVars
<1>4. ASSUME Stop \/ Join PROVE WaitingInv'
  <2>1. CASE cpc' = "freed"
    BY <1>4, <2>1 DEF Stop, Join, workerVars, WaitingInv
  <2>2. CASE cpc' # "freed"
    <3>1. /\ UNCHANGED <<waiting_list, waiting_count, marked, wpc, destroying>>
          /\ destroying /\ cpc # "freed"
      BY <1>4, <2>2 DEF Stop, Join, NextJoin, workerVars, StagesMatch, Drained
    <3> QED BY <3>1, WaitingFrame
  <2> QED BY <2>1, <2>2
<1>5. ASSUME \/ SpawnFails \/ SetupWait \/ SignalLock \/ WaitLock \/ WaitWoken \/ SpuriousClient
             \/ CreateDummy \/ CreateFails \/ (\E n \in Worker : Create(n))
             \/ SubmitAllocFails \/ Destroy
             \/ (\E j \in Jobs : Submit(j) \/ SubmitToDummy(j))
             \/ (\E n \in WaitArgs : WaitCompletion(n))
      PROVE  WaitingInv'
  <2>1. /\ UNCHANGED <<waiting_list, waiting_count, marked, wpc, state>>
        /\ cpc # "freed" /\ (destroying => destroying')
    BY <1>5 DEF SpawnFails, SetupWait, SignalLock, WaitLock, WaitWoken, SpuriousClient, CreateDummy,
       CreateFails, Create, SubmitAllocFails, Destroy, Submit, SubmitToDummy, WaitCompletion,
       StartDestroy, SleepPC, tpVars, workerVars, clientVars
  <2> QED BY <2>1, WaitingFrame
<1> QED BY <1>1, <1>2, <1>3, <1>4, <1>5 DEF ClientStep, ClientProgress, ClientCall

(***************************************************************************)
(* No job is left behind by sleeping workers                               *)
(***************************************************************************)
(* The promise of NoStrandedJob, as far as it holds.                       *)
Orderly == spurious = 0 /\ state = "OK"

Sleeping(w) == wpc[w] \in {"own_lock", "cond_wait", "asleep"}
Signalled(w) == cpc \in {"signal_lock", "signal"} /\ ci = w
Comings == {w \in Worker : Coming(w)}

(* While no wait has returned spuriously, the marks say who sleeps: each   *)
(* sleeping worker is marked, or taken out of the list to be signalled.    *)
MarksMatch ==
    Orderly =>
        \A w \in Worker :
            /\ Sleeping(w) <=> marked[w] \/ Signalled(w)
            /\ Signalled(w) => wpc[w] \in {"cond_wait", "asleep"} /\ ~marked[w]

(* As long as a worker is listed, enough workers are coming.               *)
EnoughComing ==
    Orderly /\ waiting_list # <<>> => Len(job_queue) <= Cardinality(Comings)

LEMMA ComingsFinite == IsFiniteSet(Comings) /\ Cardinality(Comings) \in Nat
BY WorkerFinite, FS_Subset, FS_CardinalityType DEF Comings

LEMMA MarksWorker ==
    ASSUME TypeInv, MarksMatch, NEW w \in Worker, WorkerStep(w) \/ SpuriousWorker(w)
    PROVE  MarksMatch'
<1>0. /\ wpc \in [Worker -> WorkerPC] /\ cpc \in ClientPC /\ marked \in [Worker -> BOOLEAN]
      /\ spurious \in Nat
  BY DEF TypeInv, TypeOK, WorkerTypeOK, ClientTypeOK, EnvTypeOK
<1>1. /\ ci' = ci /\ (cpc' = cpc \/ (cpc \in SleepPC /\ cpc' \in WokenPC))
      /\ \A u \in Worker : Signalled(u)' <=> Signalled(u)
  <2>1. cpc' = cpc \/ (cpc \in SleepPC /\ cpc' \in WokenPC)
    BY <1>0, SignalClientKeepsStage, ReportsBoolean
       DEF WorkerStep, WorkerProgress, GetJobStop, GetJobTake, GetJobWait, GetJobAllocFails,
       OwnLock, CondWait, Woken, RunJob, SpuriousWorker, clientVars, TypeInv, TypeOK
  <2>2. ci' = ci
    BY DEF WorkerStep, WorkerProgress, GetJobStop, GetJobTake, GetJobWait, GetJobAllocFails,
       OwnLock, CondWait, Woken, RunJob, SpuriousWorker, clientVars
  <2> QED BY <2>1, <2>2 DEF Signalled, SleepPC, WokenPC
<1>2. ASSUME GetJobStop(w) \/ GetJobAllocFails(w) \/ SpuriousWorker(w) PROVE MarksMatch'
  BY <1>0, <1>2 DEF GetJobStop, GetJobAllocFails, SpuriousWorker, MarksMatch, Orderly, envVars, tpVars
<1>3. ASSUME GetJobTake(w) PROVE MarksMatch'
  <2>1. /\ wpc[w] = "get" /\ wpc' = [wpc EXCEPT ![w] = "run"] /\ UNCHANGED <<marked, state, spurious>>
    BY <1>3 DEF GetJobTake, EnterGetJob, envVars
  <2> QED BY <1>0, <1>1, <2>1 DEF MarksMatch, Orderly, Sleeping
<1>4. ASSUME GetJobWait(w) PROVE MarksMatch'
  <2>1. /\ wpc[w] = "get" /\ wpc' = [wpc EXCEPT ![w] = "own_lock"]
        /\ marked' = [marked EXCEPT ![w] = TRUE]
        /\ UNCHANGED <<state, spurious>>
    BY <1>0, <1>4 DEF GetJobWait, EnterGetJob, envVars
  <2> QED BY <1>0, <1>1, <2>1 DEF MarksMatch, Orderly, Sleeping
<1>5. ASSUME OwnLock(w) \/ CondWait(w) PROVE MarksMatch'
  <2>1. /\ \E pc \in {"cond_wait", "asleep"} : wpc' = [wpc EXCEPT ![w] = pc]
        /\ Sleeping(w) /\ UNCHANGED <<marked, state, spurious>>
    BY <1>5 DEF OwnLock, CondWait, Sleeping, envVars, tpVars
  <2> QED BY <1>0, <1>1, <2>1 DEF MarksMatch, Orderly, Sleeping
<1>6. ASSUME Woken(w) \/ RunJob(w) PROVE MarksMatch'
  <2>1. /\ wpc[w] \in {"woken", "run"} /\ wpc' = [wpc EXCEPT ![w] = "get"]
        /\ UNCHANGED <<marked, state, spurious>>
    BY <1>6 DEF Woken, RunJob, envVars, tpVars
  <2> QED BY <1>0, <1>1, <2>1 DEF MarksMatch, Orderly, Sleeping
<1> QED BY <1>2, <1>3, <1>4, <1>5, <1>6 DEF WorkerStep, WorkerProgress

LEMMA MarksEnqueue ==
    ASSUME TypeInv, LocksMatch, WaitingInv, MarksMatch, NEW threshold, Enqueue(threshold),
           tp_mutex = Free, cpc \in {"submit", "submit_woken"}, UNCHANGED <<wpc, state, spurious>>
    PROVE  MarksMatch'
<1>0. marked \in [Worker -> BOOLEAN] /\ waiting_list \in Seq(Worker)
  BY DEF TypeInv, TypeOK, WorkerTypeOK, PoolTypeOK
<1>1. CASE UNCHANGED marked /\ cpc' \notin {"signal_lock", "signal"}
  BY <1>1 DEF MarksMatch, Orderly, Sleeping, Signalled
<1> DEFINE h == Head(waiting_list)
<1>2. CASE /\ waiting_list # <<>> /\ ci' = h /\ cpc' = "signal_lock"
           /\ marked' = [marked EXCEPT ![h] = FALSE]
  <2>1. h \in Worker /\ Listed(h) /\ marked[h]
    <3>1. h = waiting_list[1] /\ 1 \in DOMAIN waiting_list /\ h \in Worker
      BY <1>0, <1>2
    <3> QED BY <3>1 DEF Listed, WaitingInv
  <2>2. wpc[h] # "own_lock"
    BY <2>1 DEF LocksMatch, Free, Worker
  <2> QED BY <1>0, <1>2, <2>1, <2>2 DEF MarksMatch, Orderly, Sleeping, Signalled
<1> QED BY <1>1, <1>2 DEF Enqueue

LEMMA MarksClient ==
    ASSUME TypeInv, LocksMatch, StagesMatch, WaitingInv, MarksMatch,
           ClientStep \/ ClientCall \/ SpuriousClient
    PROVE  MarksMatch'
<1>0. /\ wpc \in [Worker -> WorkerPC] /\ cpc \in ClientPC /\ spurious \in Nat
      /\ marked \in [Worker -> BOOLEAN]
  BY DEF TypeInv, TypeOK, WorkerTypeOK, ClientTypeOK, EnvTypeOK
<1>1. ASSUME SubmitLock \/ SubmitWoken PROVE MarksMatch'
  BY <1>1, MarksEnqueue DEF SubmitLock, SubmitWoken, envVars
<1>2. ASSUME SpawnWorker PROVE MarksMatch'
  <2>1. ci \in Worker /\ wpc[ci] = "none" /\ ~Signalled(ci)
    BY <1>2 DEF SpawnWorker, Unstarted, ClientLocalsMatch, Worker, ClientTypeOK, PoolTypeOK,
       TypeInv, TypeOK, Signalled
  <2>2. /\ wpc' = [wpc EXCEPT ![ci] = "get"] /\ UNCHANGED <<marked, state, spurious>>
        /\ cpc = "spawn" /\ cpc' \notin {"signal_lock", "signal"}
    BY <1>2 DEF SpawnWorker, tpVars, envVars
  <2> QED BY <1>0, <2>1, <2>2 DEF MarksMatch, Orderly, Sleeping, Signalled
<1>3. ASSUME SignalLock PROVE MarksMatch'
  BY <1>3 DEF SignalLock, MarksMatch, Orderly, Sleeping, Signalled, envVars
<1>4. ASSUME Signal PROVE MarksMatch'
  <2>1. /\ SignalWorker(ci) /\ UNCHANGED <<marked, state, spurious>>
        /\ cpc = "signal" /\ cpc' = "idle"
    BY <1>4 DEF Signal, tpVars, envVars
  <2>2. ASSUME Orderly, NEW w \in Worker, ci = w
        PROVE  wpc[w] = "asleep" /\ ~marked[w]
    BY <1>0, <2>1, <2>2 DEF MarksMatch, Signalled, LocksMatch, Client, Worker
  <2> QED BY <1>0, <2>1, <2>2 DEF MarksMatch, Orderly, Sleeping, Signalled, SignalWorker
<1>5. ASSUME Stop \/ SignalExit \/ Join \/ SpuriousClient PROVE MarksMatch'
  <2>1. ~Orderly'
    BY <1>0, <1>5 DEF Stop, SignalExit, Join, SpuriousClient, StagesMatch, Orderly, tpVars
  <2> QED BY <2>1 DEF MarksMatch
<1>6. ASSUME \/ SpawnFails \/ SetupWait \/ WaitLock \/ WaitWoken
             \/ CreateDummy \/ CreateFails \/ (\E n \in Worker : Create(n))
             \/ SubmitAllocFails \/ Destroy
             \/ (\E j \in Jobs : Submit(j) \/ SubmitToDummy(j))
             \/ (\E n \in WaitArgs : WaitCompletion(n))
      PROVE  MarksMatch'
  <2>1. /\ UNCHANGED <<marked, wpc, state, spurious>>
        /\ {cpc, cpc'} \cap {"signal_lock", "signal"} = {}
    BY <1>6 DEF SpawnFails, SetupWait, WaitLock, WaitWoken, CreateDummy,
       CreateFails, Create, SubmitAllocFails, Destroy, Submit, SubmitToDummy, WaitCompletion,
       StartDestroy, SleepOrReturn, tpVars, workerVars, clientVars, envVars
  <2> QED BY <2>1 DEF MarksMatch, Orderly, Sleeping, Signalled
<1> QED BY <1>1, <1>2, <1>3, <1>4, <1>5, <1>6 DEF ClientStep, ClientProgress, ClientCall

LEMMA ComingGrows ==
    ASSUME TypeInv, EnoughComing, job_queue' = job_queue,
           waiting_list' # <<>> => waiting_list # <<>>,
           Orderly' => Orderly,
           \A w \in Worker : Coming(w) => Coming(w)'
    PROVE  EnoughComing'
<1>1. Comings \subseteq Comings' /\ Comings' \subseteq Worker
  BY DEF Comings
<1>2. IsFiniteSet(Comings') /\ Cardinality(Comings) <= Cardinality(Comings') /\ Cardinality(Comings') \in Nat
  BY <1>1, WorkerFinite, FS_Subset, FS_CardinalityType
<1>3. Cardinality(Comings) \in Nat /\ Len(job_queue) \in Nat
  BY ComingsFinite DEF TypeInv, TypeOK, PoolTypeOK
<1> QED BY <1>2, <1>3 DEF EnoughComing

LEMMA ComingTake ==
    ASSUME TypeInv, EnoughComing, NEW w \in Worker, GetJobTake(w)
    PROVE  EnoughComing'
<1>0. /\ wpc \in [Worker -> WorkerPC] /\ cpc \in ClientPC
      /\ job_queue \in Seq(Jobs)
  BY DEF TypeInv, TypeOK, WorkerTypeOK, ClientTypeOK, PoolTypeOK
<1>1. /\ ci' = ci /\ (cpc' = cpc \/ (cpc \in SleepPC /\ cpc' \in WokenPC))
      /\ wpc[w] = "get" /\ wpc' = [wpc EXCEPT ![w] = "run"]
      /\ job_queue # <<>> /\ job_queue' = Tail(job_queue)
      /\ UNCHANGED <<waiting_list, state, spurious>>
  BY <1>0, SignalClientKeepsStage, ReportsBoolean
     DEF GetJobTake, EnterGetJob, envVars, TypeInv, TypeOK
<1>2. Comings' = Comings \ {w} /\ w \in Comings
  BY <1>0, <1>1 DEF Comings, Coming, SleepPC, WokenPC
<1>3. Cardinality(Comings') = Cardinality(Comings) - 1
  BY <1>2, ComingsFinite, FS_RemoveElement
<1>4. Len(job_queue') = Len(job_queue) - 1 /\ Len(job_queue) \in Nat
  BY <1>0, <1>1
<1> QED BY <1>1, <1>3, <1>4, ComingsFinite DEF EnoughComing, Orderly

LEMMA ComingWorker ==
    ASSUME TypeInv, StagesMatch, EnoughComing, NEW w \in Worker, WorkerStep(w) \/ SpuriousWorker(w)
    PROVE  EnoughComing'
<1>0. /\ wpc \in [Worker -> WorkerPC] /\ cpc \in ClientPC /\ spurious \in Nat
  BY DEF TypeInv, TypeOK, WorkerTypeOK, ClientTypeOK, EnvTypeOK
<1>1. ASSUME GetJobStop(w) \/ GetJobAllocFails(w) \/ SpuriousWorker(w) PROVE EnoughComing'
  <2>1. state' # "OK" \/ spurious' = spurious + 1
    BY <1>1 DEF GetJobStop, GetJobAllocFails, SpuriousWorker
  <2>2. ~Orderly'
    BY <1>0, <2>1 DEF Orderly
  <2> QED BY <2>2 DEF EnoughComing
<1>2. ASSUME GetJobWait(w) PROVE EnoughComing'
  <2>1. job_queue' = <<>>
    BY <1>2 DEF GetJobWait
  <2>2. Comings' \subseteq Worker
    BY DEF Comings
  <2>3. Cardinality(Comings') \in Nat
    BY <2>2, WorkerFinite, FS_Subset, FS_CardinalityType
  <2> QED BY <2>1, <2>3 DEF EnoughComing
<1>3. ASSUME OwnLock(w) \/ CondWait(w) \/ Woken(w) \/ RunJob(w) PROVE EnoughComing'
  <2>1. /\ UNCHANGED <<job_queue, waiting_list, state, spurious, cpc, ci>>
        /\ \/ /\ wpc[w] \in {"own_lock", "cond_wait"}
              /\ \E pc \in {"cond_wait", "asleep"} : wpc' = [wpc EXCEPT ![w] = pc]
           \/ wpc' = [wpc EXCEPT ![w] = "get"]
    BY <1>3 DEF OwnLock, CondWait, Woken, RunJob, tpVars, clientVars, envVars
  <2>2. \A u \in Worker : Coming(u) => Coming(u)'
    BY <1>0, <2>1 DEF Coming
  <2> QED BY <2>1, <2>2, ComingGrows DEF Orderly
<1> QED BY <1>1, <1>2, <1>3, ComingTake DEF WorkerStep, WorkerProgress

LEMMA ComingEnqueue ==
    ASSUME TypeInv, LocksMatch, WaitingInv, MarksMatch, EnoughComing,
           NEW threshold, Enqueue(threshold), cjob \in Jobs,
           cpc \in {"submit", "submit_woken"}, UNCHANGED <<wpc, state, spurious>>
    PROVE  EnoughComing'
<1>0. waiting_list \in Seq(Worker) /\ job_queue \in Seq(Jobs)
  BY DEF TypeInv, TypeOK, PoolTypeOK
<1>1. CASE UNCHANGED <<job_queue, waiting_list>> /\ cpc' \notin {"signal_lock", "signal"}
  <2>1. \A u \in Worker : Coming(u) => Coming(u)'
    BY <1>1 DEF Coming
  <2> QED BY <1>1, <2>1, ComingGrows DEF Orderly
<1>2. CASE waiting_list' = <<>>
  BY <1>2 DEF EnoughComing
<1> DEFINE h == Head(waiting_list)
<1>3. CASE /\ job_queue' = <<cjob>> \o job_queue
           /\ waiting_list # <<>> /\ ci' = h /\ cpc' = "signal_lock"
  <2> SUFFICES ASSUME Orderly PROVE EnoughComing'
    BY DEF EnoughComing, Orderly
  <2>1. h \in Worker /\ Listed(h) /\ marked[h]
    <3>1. h = waiting_list[1] /\ 1 \in DOMAIN waiting_list /\ h \in Worker
      BY <1>0, <1>3
    <3> QED BY <3>1 DEF Listed, WaitingInv
  <2>2. Sleeping(h)
    BY <2>1 DEF MarksMatch
  <2>3. Comings' = Comings \union {h} /\ h \notin Comings
    BY <1>3, <2>1, <2>2 DEF Comings, Coming, Sleeping
  <2>4. Cardinality(Comings') = Cardinality(Comings) + 1
    BY <2>3, ComingsFinite, FS_AddElement
  <2>5. Len(job_queue') = Len(job_queue) + 1 /\ Len(job_queue) \in Nat
    BY <1>0, <1>3
  <2> QED BY <1>3, <2>4, <2>5, ComingsFinite DEF EnoughComing
<1> QED BY <1>1, <1>2, <1>3 DEF Enqueue

LEMMA ComingClient ==
    ASSUME TypeInv, LocksMatch, StagesMatch, WaitingInv, MarksMatch, EnoughComing,
           ClientStep \/ ClientCall \/ SpuriousClient
    PROVE  EnoughComing'
<1>0. /\ wpc \in [Worker -> WorkerPC] /\ cpc \in ClientPC /\ spurious \in Nat
      /\ ci \in Nat
  BY DEF TypeInv, TypeOK, WorkerTypeOK, ClientTypeOK, EnvTypeOK
<1>1. ASSUME SubmitLock \/ SubmitWoken PROVE EnoughComing'
  <2>1. cjob \in Jobs
    BY <1>1 DEF SubmitLock, SubmitWoken, TypeInv, TypeOK, ClientTypeOK, ClientLocalsMatch
  <2> QED BY <1>1, <2>1, ComingEnqueue DEF SubmitLock, SubmitWoken, envVars
<1>2. ASSUME SpawnWorker PROVE EnoughComing'
  <2>1. /\ UNCHANGED <<job_queue, waiting_list, state, spurious>>
        /\ cpc = "spawn" /\ wpc' = [wpc EXCEPT ![ci] = "get"]
    BY <1>2 DEF SpawnWorker, tpVars, envVars
  <2>2. \A u \in Worker : Coming(u) => Coming(u)'
    BY <1>0, <2>1 DEF Coming
  <2> QED BY <2>1, <2>2, ComingGrows DEF Orderly
<1>3. ASSUME SignalLock PROVE EnoughComing'
  <2>1. \A u \in Worker : Coming(u) => Coming(u)'
    BY <1>3 DEF SignalLock, Coming
  <2> QED BY <1>3, <2>1, ComingGrows DEF SignalLock, Orderly, envVars
<1>4. ASSUME Signal PROVE EnoughComing'
  <2>1. /\ SignalWorker(ci) /\ UNCHANGED <<job_queue, waiting_list, state, spurious>>
        /\ cpc = "signal" /\ cpc' = "idle"
    BY <1>4 DEF Signal, tpVars, envVars
  <2>2. ASSUME Orderly, NEW w \in Worker, ci = w
        PROVE  wpc[w] = "asleep"
    BY <1>0, <2>1, <2>2 DEF MarksMatch, Signalled, LocksMatch, Client, Worker
  <2>3. ASSUME Orderly, NEW u \in Worker, Coming(u) PROVE Coming(u)'
    BY <1>0, <2>1, <2>2, <2>3 DEF Coming, SignalWorker
  <2>4. CASE Orderly
    BY <2>1, <2>3, <2>4, ComingGrows DEF Orderly
  <2>5. CASE ~Orderly
    BY <2>1, <2>5 DEF EnoughComing, Orderly
  <2> QED BY <2>4, <2>5
<1>5. ASSUME Stop \/ SignalExit \/ Join \/ SpuriousClient PROVE EnoughComing'
  <2>1. ~Orderly'
    BY <1>0, <1>5 DEF Stop, SignalExit, Join, SpuriousClient, StagesMatch, Orderly, tpVars
  <2> QED BY <2>1 DEF EnoughComing
<1>6. ASSUME \/ SpawnFails \/ SetupWait \/ WaitLock \/ WaitWoken
             \/ CreateDummy \/ CreateFails \/ (\E n \in Worker : Create(n))
             \/ SubmitAllocFails \/ Destroy
             \/ (\E j \in Jobs : Submit(j) \/ SubmitToDummy(j))
             \/ (\E n \in WaitArgs : WaitCompletion(n))
      PROVE  EnoughComing'
  <2>1. /\ UNCHANGED <<job_queue, waiting_list, wpc, state, spurious>>
        /\ cpc \notin {"signal_lock", "signal"}
    BY <1>6 DEF SpawnFails, SetupWait, WaitLock, WaitWoken, CreateDummy,
       CreateFails, Create, SubmitAllocFails, Destroy, Submit, SubmitToDummy, WaitCompletion,
       tpVars, workerVars, clientVars, envVars
  <2>2. \A u \in Worker : Coming(u) => Coming(u)'
    BY <2>1 DEF Coming
  <2> QED BY <2>1, <2>2, ComingGrows DEF Orderly
<1> QED BY <1>1, <1>2, <1>3, <1>4, <1>5, <1>6 DEF ClientStep, ClientProgress, ClientCall

LEMMA StrandedFollows == TypeInv /\ EnoughComing => NoStrandedJob
<1> SUFFICES ASSUME TypeInv, EnoughComing, Orderly,
                    \E w \in Worker : Listed(w)
             PROVE  Len(job_queue) <= Cardinality({w \in Worker : Coming(w)})
  BY DEF NoStrandedJob, Orderly
<1>1. waiting_list # <<>>
  BY DEF Listed, TypeInv, TypeOK, PoolTypeOK
<1> QED BY <1>1 DEF EnoughComing, Comings

(***************************************************************************)
(* The state JobPool sees                                                  *)
(***************************************************************************)
IMatch == TypeInv /\ PendingExact /\ JobsConserved /\ Started /\ StagesMatch /\ QueueMatch

(* The abstract state, in the vocabulary of JobPool.                       *)
Status == [j \in Jobs |-> StatusOf(j)]
Remaining == IF CallOf = "wait" THEN cmax ELSE 0

(* What the program points say of the call in progress.                    *)
LEMMA CallAt ==
    ASSUME TypeInv, StagesMatch
    PROVE  /\ CallOf = "wait" <=> cpc \in {"wait", "wait_sleep", "wait_woken"} /\ ~destroying
           /\ destroying /\ cpc # "freed" => CallOf = "closing"
           /\ cpc \in {"stop", "signal_exit", "join"} => destroying
           /\ cpc \notin Closing => CallOf = "none" /\ ~destroying
BY DEF CallOf, StagesMatch, Closing, Drained

(* A job's status is the place it is in.                                   *)
LEMMA StatusIs ==
    ASSUME TypeInv, JobsConserved, NEW j \in Jobs
    PROVE  /\ StatusOf(j) = "done" <=> HasRun(j)
           /\ StatusOf(j) = "running" <=> OnWorker(j)
           /\ StatusOf(j) = "queued" <=> InQueue(j)
           /\ StatusOf(j) = "new" <=> ~HasRun(j) /\ ~OnWorker(j) /\ ~InQueue(j)
           /\ StatusOf(j) \in {"new", "queued", "running", "done"}
<1>1. runs[j] > 0 <=> HasRun(j)
  BY DEF HasRun, JobsConserved, TypeInv, TypeOK, EnvTypeOK
<1>2. StatusOf(j) = IF HasRun(j) THEN "done" ELSE IF OnWorker(j) THEN "running"
                    ELSE IF InQueue(j) THEN "queued" ELSE "new"
  BY <1>1 DEF StatusOf, JobsConserved
<1> QED BY <1>2 DEF JobsConserved

LEMMA StatusIsNext ==
    ASSUME TypeInv', JobsConserved', NEW j \in Jobs
    PROVE  /\ StatusOf(j)' = "done" <=> HasRun(j)'
           /\ StatusOf(j)' = "running" <=> OnWorker(j)'
           /\ StatusOf(j)' = "queued" <=> InQueue(j)'
           /\ StatusOf(j)' = "new" <=> ~HasRun(j)' /\ ~OnWorker(j)' /\ ~InQueue(j)'
           /\ StatusOf(j)' \in {"new", "queued", "running", "done"}
<1>1. runs'[j] > 0 <=> HasRun(j)'
  BY DEF HasRun, JobsConserved, TypeInv, TypeOK, EnvTypeOK
<1>2. StatusOf(j)' = IF HasRun(j)' THEN "done" ELSE IF OnWorker(j)' THEN "running"
                     ELSE IF InQueue(j)' THEN "queued" ELSE "new"
  BY <1>1 DEF StatusOf, JobsConserved
<1> QED BY <1>2 DEF JobsConserved

(* The values of a function are no more than its arguments.                *)
LEMMA ValuesBounded ==
    ASSUME NEW S, IsFiniteSet(S), NEW T, NEW f \in [S -> T]
    PROVE  /\ IsFiniteSet({f[x] : x \in S})
           /\ Cardinality({f[x] : x \in S}) <= Cardinality(S)
<1> DEFINE R == {f[x] : x \in S}
<1>1. f \in Surjection(S, R)
  BY DEF Surjection
<1> HIDE DEF R
<1>2. IsFiniteSet(R) /\ Cardinality(R) <= Cardinality(S)
  BY <1>1, FS_Surjection
<1> QED BY <1>2 DEF R

LEMMA UpToFinite ==
    ASSUME NEW n \in Nat
    PROVE  IsFiniteSet(1..n) /\ Cardinality(1..n) = n
BY FS_Interval

(* The jobs that a wait waits for are among those the pool counts.         *)
LEMMA UnfinishedCounted ==
    ASSUME TypeInv, PendingExact, JobsConserved
    PROVE  /\ IsFiniteSet(Promise!Unfinished)
           /\ Cardinality(Promise!Unfinished) \in Nat
           /\ Cardinality(Promise!Unfinished) <= pending_jobs_count
<1>0. job_queue \in Seq(Jobs) /\ wjob \in [Worker -> Jobs \union {NoJob}]
  BY DEF TypeInv, TypeOK, PoolTypeOK, WorkerTypeOK
<1>j. PICK jobOf \in [Running -> Jobs] : \A w \in Running : jobOf[w] = wjob[w]
  <2>1. [w \in Running |-> wjob[w]] \in [Running -> Jobs]
    BY <1>0 DEF Running
  <2> QED BY <2>1
<1> DEFINE D == 1..Len(job_queue)
           Q == {job_queue[i] : i \in D}
           R == {jobOf[w] : w \in Running}
<1>1. IsFiniteSet(Q) /\ Cardinality(Q) <= Len(job_queue)
  <2>1. job_queue \in [D -> Jobs] /\ Len(job_queue) \in Nat
    BY <1>0
  <2>2. IsFiniteSet(D) /\ Cardinality(D) = Len(job_queue)
    BY <2>1, UpToFinite
  <2> HIDE DEF D
  <2>3. IsFiniteSet(Q) /\ Cardinality(Q) <= Cardinality(D)
    BY <2>1, <2>2, ValuesBounded, Zenon
  <2> QED BY <2>2, <2>3
<1>2. IsFiniteSet(R) /\ Cardinality(R) <= Cardinality(Running)
  BY CountsFinite, ValuesBounded
<1>3. Promise!Unfinished \subseteq Q \union R
  <2> SUFFICES ASSUME NEW j \in Jobs, InQueue(j) \/ OnWorker(j) PROVE j \in Q \union R
    BY StatusIs DEF Promise!Unfinished
  <2>1. CASE InQueue(j)
    BY <1>0, <2>1 DEF InQueue
  <2>2. CASE OnWorker(j)
    <3>1. PICK w \in Worker : wjob[w] = j
      BY <2>2 DEF OnWorker
    <3>2. w \in Running /\ jobOf[w] = j
      BY <3>1, <1>j, NoJobAssumption DEF Running
    <3> QED BY <3>2
  <2> QED BY <2>1, <2>2
<1> HIDE DEF D, Q, R
<1>4. IsFiniteSet(Q \union R)
      /\ Cardinality(Q \union R) = Cardinality(Q) + Cardinality(R) - Cardinality(Q \cap R)
  BY <1>1, <1>2, FS_Union
<1>5. /\ Cardinality(Q) \in Nat /\ Cardinality(R) \in Nat
      /\ Cardinality(Q \cap R) \in Nat /\ Cardinality(Q \union R) \in Nat
  <2>1. IsFiniteSet(Q \cap R)
    BY <1>1, FS_Subset
  <2> QED BY <2>1, <1>1, <1>2, <1>4, FS_CardinalityType
<1>6. /\ IsFiniteSet(Promise!Unfinished) /\ Cardinality(Promise!Unfinished) \in Nat
      /\ Cardinality(Promise!Unfinished) <= Cardinality(Q \union R)
  BY <1>3, <1>4, FS_Subset, FS_CardinalityType
<1>7. Len(job_queue) \in Nat
  BY <1>0
<1> QED BY <1>1, <1>2, <1>4, <1>5, <1>6, <1>7, CountsFinite DEF PendingExact

(***************************************************************************)
(* Steps of the pool as steps of JobPool: jobs                             *)
(***************************************************************************)
promised == <<Status, CallOf, Remaining>>

(* JobPool counts with the same operator.                                  *)
LEMMA SameCardinality ==
    ASSUME NEW S
    PROVE  Promise!Cardinality(S) = Cardinality(S)
BY DEF Promise!Cardinality, Cardinality

LEMMA BelowCapacity ==
    ASSUME NEW n \in Nat, NEW p \in Int, n <= p,
           NEW k \in 0..NumThreads, p <= QueueFactor * k
    PROVE  n < QueueFactor * NumThreads + 1
<1>1. QueueFactor * k <= QueueFactor * NumThreads
  OBVIOUS
<1>2. QueueFactor * NumThreads \in Nat /\ QueueFactor * k \in Nat
  OBVIOUS
<1> QED BY <1>1, <1>2

(* Steps that move no job                                                  *)

LEMMA JobsStay ==
    ASSUME UNCHANGED <<job_queue, wjob, runs>>
    PROVE  Status' = Status
BY DEF Status, StatusOf, InQueue, OnWorker

LEMMA Stutters ==
    ASSUME UNCHANGED <<job_queue, wjob, runs>>, CallOf' = CallOf,
           CallOf = "wait" => cmax' = cmax
    PROVE  promised' = promised
BY JobsStay DEF promised, Remaining

(* Steps within a call, seen from where they start and end.                *)
LEMMA SameCall ==
    ASSUME UNCHANGED <<destroying, cmax, job_queue, wjob, runs>>,
           \/ cpc' = cpc
           \/ {cpc, cpc'} \subseteq {"wait", "wait_sleep", "wait_woken"}
           \/ {cpc, cpc'} \cap {"wait", "wait_sleep", "wait_woken", "freed"} = {}
           \/ destroying /\ cpc # "freed" /\ cpc' # "freed"
    PROVE  promised' = promised
<1>1. CallOf' = CallOf
  BY DEF CallOf
<1> QED BY <1>1, Stutters

(* One job changes its place.                                              *)
LEMMA OneJobMoves ==
    ASSUME NEW j \in Jobs, \A k \in Jobs \ {j} : StatusOf(k)' = StatusOf(k)
    PROVE  Status' = [Status EXCEPT ![j] = StatusOf(j)']
BY DEF Status

LEMMA TakeStarts ==
    ASSUME IMatch, IMatch', NEW w \in Worker, GetJobTake(w)
    PROVE  \E j \in Jobs : Promise!Start(j)
<1>0. /\ job_queue \in Seq(Jobs) /\ wjob \in [Worker -> Jobs \union {NoJob}]
      /\ JobsConserved /\ cpc \in ClientPC
  BY DEF IMatch, TypeInv, TypeOK, PoolTypeOK, WorkerTypeOK, ClientTypeOK
<1>h. PICK h \in Jobs : h = Head(job_queue)
  BY <1>0 DEF GetJobTake
<1>1. /\ job_queue # <<>> /\ job_queue' = Tail(job_queue)
      /\ wjob' = [wjob EXCEPT ![w] = h] /\ wjob[w] = NoJob
      /\ UNCHANGED <<runs, destroying, cmax>>
  BY <1>h DEF GetJobTake, EnterGetJob, envVars, IMatch, TypeInv, WorkerLocalsMatch
<1>2. cpc' = cpc \/ (cpc \in SleepPC /\ cpc' = WokenFrom[cpc])
  BY DEF GetJobTake, SignalClientIf
<1>3. CallOf' = CallOf
  BY <1>1, <1>2 DEF CallOf, SleepPC, WokenFrom
<1>4. InQueue(h) /\ OnWorker(h)'
  BY <1>0, <1>1, <1>h, TailIndex DEF InQueue, OnWorker
<1>5. ASSUME NEW k \in Jobs \ {h} PROVE StatusOf(k)' = StatusOf(k)
  <2>1. InQueue(k)' <=> InQueue(k)
    <3>1. ASSUME InQueue(k)' PROVE InQueue(k)
      <4>1. PICK i \in DOMAIN job_queue' : job_queue'[i] = k
        BY <3>1 DEF InQueue
      <4>2. i + 1 \in DOMAIN job_queue /\ job_queue[i + 1] = k
        BY <4>1, <1>0, <1>1, TailIndex
      <4> QED BY <4>2 DEF InQueue
    <3>2. ASSUME InQueue(k) PROVE InQueue(k)'
      <4>1. PICK i \in DOMAIN job_queue : job_queue[i] = k
        BY <3>2 DEF InQueue
      <4>2. i - 1 \in DOMAIN job_queue' /\ job_queue'[i - 1] = k
        BY <4>1, <1>0, <1>1, <1>h, TailIndex
      <4> QED BY <4>2 DEF InQueue
    <3> QED BY <3>1, <3>2
  <2>2. OnWorker(k)' <=> OnWorker(k)
    BY <1>0, <1>1, NoJobAssumption DEF OnWorker
  <2>3. runs'[k] = runs[k]
    BY <1>1
  <2> QED BY <2>1, <2>2, <2>3 DEF StatusOf
<1>6. StatusOf(h) = "queued" /\ StatusOf(h)' = "running"
  BY <1>1, <1>4, StatusIs, StatusIsNext DEF IMatch
<1>7. Status' = [Status EXCEPT ![h] = "running"] /\ Status[h] = "queued"
  BY <1>1, <1>5, <1>6, OneJobMoves DEF Status
<1>8. Remaining' = Remaining
  BY <1>1, <1>3 DEF Remaining
<1> QED BY <1>1, <1>3, <1>7, <1>8 DEF Promise!Start, Status, Remaining

LEMMA RunFinishes ==
    ASSUME IMatch, IMatch', NEW w \in Worker, RunJob(w)
    PROVE  \E j \in Jobs : Promise!Finish(j)
<1>0. wjob \in [Worker -> Jobs \union {NoJob}] /\ runs \in [Jobs -> Nat] /\ JobsConserved
  BY DEF IMatch, TypeInv, TypeOK, WorkerTypeOK, EnvTypeOK
<1>r. PICK r \in Jobs : r = wjob[w]
  BY <1>0 DEF RunJob, IMatch, TypeInv, WorkerLocalsMatch
<1>1. /\ wjob' = [wjob EXCEPT ![w] = NoJob]
      /\ runs' = [runs EXCEPT ![r] = @ + 1]
      /\ UNCHANGED <<job_queue, cpc, destroying, cmax>>
  BY <1>r DEF RunJob, tpVars, clientVars
<1>2. CallOf' = CallOf /\ Remaining' = Remaining
  BY <1>1 DEF CallOf, Remaining
<1>3. OnWorker(r) /\ ~HasRun(r)
  BY <1>0, <1>r DEF OnWorker, JobsConserved
<1>4. HasRun(r)'
  <2>1. runs[r] = 0
    BY <1>0, <1>3 DEF HasRun, JobsConserved
  <2> QED BY <1>0, <1>1, <2>1 DEF HasRun
<1>5. ASSUME NEW k \in Jobs \ {r} PROVE StatusOf(k)' = StatusOf(k)
  <2>1. /\ InQueue(k)' <=> InQueue(k)
        /\ OnWorker(k)' <=> OnWorker(k)
        /\ runs'[k] = runs[k]
    BY <1>0, <1>1, <1>r, NoJobAssumption DEF InQueue, OnWorker
  <2> QED BY <2>1 DEF StatusOf
<1>6. StatusOf(r) = "running" /\ StatusOf(r)' = "done"
  BY <1>1, <1>3, <1>4, StatusIs, StatusIsNext DEF IMatch
<1>7. Status' = [Status EXCEPT ![r] = "done"] /\ Status[r] = "running"
  BY <1>1, <1>5, <1>6, OneJobMoves DEF Status
<1> QED BY <1>1, <1>2, <1>7 DEF Promise!Finish, Status, Remaining

LEMMA SubmitEnters ==
    ASSUME IMatch, IMatch', NEW threshold, Enqueue(threshold),
           threshold = QueueFactor * worker_threads_count,
           cpc \in {"submit", "submit_woken"},
           UNCHANGED <<wjob, runs, destroying, cmax>>
    PROVE  promised' = promised \/ \E j \in Jobs : Promise!Enter(j)
<1>0. /\ job_queue \in Seq(Jobs) /\ JobsConserved
      /\ worker_threads_count \in 0..NumThreads /\ pending_jobs_count \in Int
      /\ cjob \in Jobs
  BY DEF IMatch, TypeInv, TypeOK, PoolTypeOK, ClientTypeOK, ClientLocalsMatch
<1>c. PICK c \in Jobs : c = cjob
  BY <1>0
<1>1. CASE cpc' = "submit_sleep" /\ job_queue' = job_queue
  BY <1>1, SameCall
<1>2. CASE /\ pending_jobs_count <= threshold
           /\ job_queue' = <<cjob>> \o job_queue
           /\ cpc' \in {"idle", "signal_lock"}
  <2>1. CallOf = "none" /\ CallOf' = "none" /\ Remaining = 0 /\ Remaining' = 0
    BY <1>2, CallAt DEF IMatch, Closing, CallOf, Remaining
  <2>2. Cardinality(Promise!Unfinished) < QueueFactor * NumThreads + 1
    <3>1. /\ Cardinality(Promise!Unfinished) \in Nat
          /\ Cardinality(Promise!Unfinished) <= pending_jobs_count
      BY UnfinishedCounted DEF IMatch
    <3>2. pending_jobs_count <= QueueFactor * worker_threads_count
      BY <1>2
    <3>3. pending_jobs_count \in Int /\ worker_threads_count \in 0..NumThreads
      BY <1>0
    <3> QED BY <3>1, <3>2, <3>3, BelowCapacity
  <2>3. ~InQueue(c) /\ ~OnWorker(c) /\ ~HasRun(c)
    BY <1>0, <1>c DEF JobsConserved
  <2>4. /\ DOMAIN job_queue = 1..Len(job_queue) /\ Len(job_queue) \in Nat
        /\ DOMAIN job_queue' = 1..(Len(job_queue) + 1)
        /\ job_queue'[1] = c
        /\ \A i \in 2..(Len(job_queue) + 1) : job_queue'[i] = job_queue[i - 1]
    BY <1>0, <1>2, <1>c, ConsIndex
  <2>5. InQueue(c)'
    <3>1. 1 \in DOMAIN job_queue' /\ job_queue'[1] = c
      BY <2>4
    <3> QED BY <3>1 DEF InQueue
  <2>6. ASSUME NEW k \in Jobs \ {c} PROVE StatusOf(k)' = StatusOf(k)
    <3>1. ASSUME InQueue(k)' PROVE InQueue(k)
      BY <2>4, <3>1 DEF InQueue
    <3>2. ASSUME InQueue(k) PROVE InQueue(k)'
      <4>1. PICK i \in DOMAIN job_queue : job_queue[i] = k
        BY <3>2 DEF InQueue
      <4>2. i + 1 \in DOMAIN job_queue' /\ job_queue'[i + 1] = k
        BY <4>1, <2>4
      <4> QED BY <4>2 DEF InQueue
    <3>3. (OnWorker(k)' <=> OnWorker(k)) /\ runs'[k] = runs[k]
      BY DEF OnWorker
    <3> QED BY <3>1, <3>2, <3>3 DEF StatusOf
  <2>7. StatusOf(c) = "new" /\ StatusOf(c)' = "queued"
    BY <2>3, <2>5, StatusIs, StatusIsNext DEF IMatch
  <2>8. Status' = [Status EXCEPT ![c] = "queued"] /\ Status[c] = "new"
    BY <2>6, <2>7, OneJobMoves DEF Status
  <2>9. Promise!Enter(c)
    BY <2>1, <2>2, <2>8, SameCardinality DEF Promise!Enter, Status, Remaining
  <2> QED BY <2>9
<1> QED BY <1>1, <1>2 DEF Enqueue

LEMMA DummyRunsInCall ==
    ASSUME IMatch, IMatch', NEW j \in Jobs, SubmitToDummy(j)
    PROVE  Promise!RunInCall(j)
<1>0. runs \in [Jobs -> Nat] /\ JobsConserved
  BY DEF IMatch, TypeInv, TypeOK, EnvTypeOK
<1>1. /\ cpc = "idle" /\ j \notin submitted
      /\ runs' = [runs EXCEPT ![j] = @ + 1]
      /\ UNCHANGED <<job_queue, wjob, cpc, destroying, cmax>>
  BY DEF SubmitToDummy, tpVars, workerVars, clientVars
<1>2. CallOf = "none" /\ CallOf' = "none" /\ Remaining' = Remaining
  BY <1>1, CallAt DEF IMatch, Closing, CallOf, Remaining
<1>3. ~InQueue(j) /\ ~OnWorker(j) /\ ~HasRun(j)
  BY <1>0, <1>1 DEF JobsConserved
<1>4. HasRun(j)'
  BY <1>0, <1>1, <1>3 DEF HasRun, JobsConserved
<1>5. ASSUME NEW k \in Jobs \ {j} PROVE StatusOf(k)' = StatusOf(k)
  BY <1>0, <1>1 DEF StatusOf, InQueue, OnWorker
<1>6. StatusOf(j) = "new" /\ StatusOf(j)' = "done"
  BY <1>3, <1>4, StatusIs, StatusIsNext DEF IMatch
<1>7. Status' = [Status EXCEPT ![j] = "done"] /\ Status[j] = "new"
  BY <1>5, <1>6, OneJobMoves DEF Status
<1> QED BY <1>2, <1>7 DEF Promise!RunInCall, Status, Remaining

(***************************************************************************)
(* Steps of the pool as steps of JobPool: waiting and closing; the theorems *)
(***************************************************************************)
LEMMA NothingUnfinished ==
    ASSUME TypeInv, JobsConserved, job_queue = <<>>, Running = {}
    PROVE  Promise!Unfinished = {}
<1>1. ASSUME NEW j \in Jobs PROVE ~InQueue(j) /\ ~OnWorker(j)
  BY <1>1, NoJobAssumption DEF InQueue, OnWorker, Running
<1> QED BY <1>1, StatusIs DEF Promise!Unfinished

LEMMA ClosingStarts ==
    ASSUME UNCHANGED <<job_queue, wjob, runs>>, CallOf = "none",
           StartDestroy
    PROVE  Promise!Close
<1>1. CallOf' = "closing"
  BY DEF CallOf, StartDestroy
<1>2. Status' = Status /\ Remaining' = Remaining
  BY <1>1, JobsStay DEF Remaining
<1> QED BY <1>1, <1>2 DEF Promise!Close, Status, Remaining

LEMMA PoolCloses ==
    ASSUME IMatch, IMatch', UNCHANGED <<job_queue, wjob, runs>>,
           CallOf \in {"none", "closing"}, cpc' = "freed"
    PROVE  Promise!Closed
<1>1. CallOf' = "closed"
  BY DEF CallOf
<1>2. Status' = Status /\ Remaining' = Remaining
  BY <1>1, JobsStay DEF Remaining
<1>3. job_queue = <<>> /\ Running = {}
  BY DEF IMatch, QueueMatch, Drained, Running
<1>4. Promise!Unfinished = {}
  BY <1>3, NothingUnfinished DEF IMatch
<1> QED BY <1>1, <1>2, <1>4 DEF Promise!Closed, Status, Remaining

LEMMA WaitEnds ==
    ASSUME IMatch, IMatch', cpc \in {"wait", "wait_woken"}, SleepOrReturn,
           UNCHANGED <<pending_jobs_count, job_queue, wjob, runs, destroying, cmax>>
    PROVE  promised' = promised \/ Promise!WaitReturns
<1>1. CASE cpc' = "wait_sleep" \/ destroying
  BY <1>1, SameCall DEF SleepOrReturn
<1>2. CASE cpc' # "wait_sleep" /\ ~destroying
  <2>1. /\ cpc' = "idle" /\ pending_jobs_count <= cmax
        /\ pending_jobs_count \in Int /\ cmax \in Nat
    BY <1>2 DEF SleepOrReturn, IMatch, TypeInv, TypeOK, PoolTypeOK, ClientTypeOK
  <2>2. CallOf = "wait" /\ CallOf' = "none" /\ Remaining = cmax /\ Remaining' = 0
    BY <1>2, <2>1 DEF CallOf, Remaining
  <2>3. Cardinality(Promise!Unfinished) <= cmax
    <3>1. /\ Cardinality(Promise!Unfinished) \in Nat
          /\ Cardinality(Promise!Unfinished) <= pending_jobs_count
      BY UnfinishedCounted DEF IMatch
    <3> QED BY <2>1, <3>1
  <2>4. Promise!WaitReturns
    BY <2>2, <2>3, JobsStay, SameCardinality DEF Promise!WaitReturns, Status, Remaining
  <2> QED BY <2>4
<1> QED BY <1>1, <1>2

LEMMA WaitStarts ==
    ASSUME IMatch, NEW n \in WaitArgs, WaitCompletion(n)
    PROVE  Promise!Wait
<1>1. /\ cpc = "idle" /\ cpc' = "wait" /\ cmax' \in Nat
      /\ UNCHANGED <<job_queue, wjob, runs, destroying>>
  BY DEF WaitCompletion, tpVars, workerVars, envVars
<1>2. CallOf = "none" /\ ~destroying
  BY <1>1, CallAt DEF IMatch, Closing
<1>3. CallOf' = "wait" /\ Remaining' \in Nat
  BY <1>1, <1>2 DEF CallOf, Remaining
<1> QED BY <1>1, <1>2, <1>3, JobsStay DEF Promise!Wait, Status, Remaining

LEMMA WorkerPromised ==
    ASSUME IMatch, IMatch', NEW w \in Worker, WorkerStep(w) \/ SpuriousWorker(w)
    PROVE  promised' = promised \/ Promise!Next
<1>1. CASE GetJobTake(w)
  BY <1>1, TakeStarts DEF Promise!Next
<1>2. CASE RunJob(w)
  BY <1>2, RunFinishes DEF Promise!Next
<1>3. CASE ~GetJobTake(w) /\ ~RunJob(w)
  <2>1. UNCHANGED <<destroying, cmax, job_queue, wjob, runs>>
    BY <1>3 DEF WorkerStep, WorkerProgress, GetJobStop, GetJobWait, GetJobAllocFails, OwnLock,
       CondWait, Woken, SpuriousWorker, tpVars, clientVars, envVars
  <2>2. cpc' = cpc \/ (cpc \in SleepPC /\ cpc' = WokenFrom[cpc])
    BY <1>3 DEF WorkerStep, WorkerProgress, GetJobStop, GetJobWait, GetJobAllocFails, OwnLock,
       CondWait, Woken, SpuriousWorker, clientVars, SignalClientIf
  <2>3. \/ cpc' = cpc
        \/ {cpc, cpc'} \subseteq {"wait", "wait_sleep", "wait_woken"}
        \/ {cpc, cpc'} \cap {"wait", "wait_sleep", "wait_woken", "freed"} = {}
    BY <2>2 DEF SleepPC, WokenFrom
  <2> QED BY <2>1, <2>3, SameCall
<1> QED BY <1>1, <1>2, <1>3

LEMMA ClientPromised ==
    ASSUME IMatch, IMatch', ClientStep \/ ClientCall \/ SpuriousClient
    PROVE  promised' = promised \/ Promise!Next
<1>0. CASE SubmitLock \/ SubmitWoken
  <2>1. PICK k \in Int : k = QueueFactor * worker_threads_count
    BY DEF IMatch, TypeInv, TypeOK, PoolTypeOK
  <2>2. Enqueue(k) /\ cpc \in {"submit", "submit_woken"}
    BY <1>0, <2>1 DEF SubmitLock, SubmitWoken, IMatch, StagesMatch
  <2>3. UNCHANGED <<wjob, runs, destroying, cmax>>
    BY <1>0 DEF SubmitLock, SubmitWoken, envVars
  <2> QED BY <2>1, <2>2, <2>3, SubmitEnters DEF Promise!Next
<1>1. CASE \E j \in Jobs : SubmitToDummy(j)
  BY <1>1, DummyRunsInCall DEF Promise!Next
<1>2. CASE \E n \in WaitArgs : WaitCompletion(n)
  BY <1>2, WaitStarts DEF Promise!Next
<1>3. CASE WaitLock \/ WaitWoken
  BY <1>3, WaitEnds DEF WaitLock, WaitWoken, tpVars, workerVars, envVars, Promise!Next
<1>4. CASE Destroy \/ CreateFails
  <2>1. /\ cpc \in {"idle", "create"} /\ UNCHANGED <<job_queue, wjob, runs>>
        /\ cpc' = "freed" \/ StartDestroy
    BY <1>4 DEF Destroy, CreateFails, tpVars, workerVars, envVars
  <2>2. CallOf = "none"
    BY <2>1, CallAt DEF IMatch, Closing
  <2> QED BY <2>1, <2>2, PoolCloses, ClosingStarts DEF Promise!Next
<1>5. CASE SetupWait
  <2>1. /\ cpc \in {"setup", "setup_woken"} /\ UNCHANGED <<job_queue, wjob, runs>>
        /\ \/ cpc' \in {"setup_sleep", "idle"} /\ UNCHANGED <<cmax, destroying>>
           \/ StartDestroy
    BY <1>5 DEF SetupWait, tpVars, workerVars, envVars
  <2>2. CallOf = "none"
    BY <2>1, CallAt DEF IMatch, Closing
  <2>3. CASE cpc' \in {"setup_sleep", "idle"} /\ UNCHANGED <<cmax, destroying>>
    BY <2>1, <2>3, SameCall
  <2> QED BY <2>1, <2>2, <2>3, ClosingStarts DEF Promise!Next
<1>6. CASE Stop \/ Join
  <2>1. /\ cpc \in {"stop", "join"} /\ UNCHANGED <<destroying, cmax, job_queue, wjob, runs>>
    BY <1>6 DEF Stop, Join, workerVars, envVars
  <2>2. destroying /\ CallOf = "closing"
    BY <2>1, CallAt DEF IMatch
  <2>3. CASE cpc' = "freed"
    BY <2>1, <2>2, <2>3, PoolCloses DEF Promise!Next
  <2>4. CASE cpc' # "freed"
    BY <2>1, <2>2, <2>4, SameCall
  <2> QED BY <2>3, <2>4
<1>7. CASE \/ SpawnWorker \/ SpawnFails \/ SignalLock \/ Signal \/ SignalExit
           \/ CreateDummy \/ (\E n \in Worker : Create(n)) \/ SubmitAllocFails
           \/ (\E j \in Jobs : Submit(j)) \/ SpuriousClient
  <2>1. UNCHANGED <<destroying, cmax, job_queue, wjob, runs>>
    BY <1>7 DEF SpawnWorker, SpawnFails, SignalLock, Signal, SignalExit, CreateDummy, Create,
       SubmitAllocFails, Submit, SpuriousClient, tpVars, workerVars, clientVars, envVars
  <2>2. \/ cpc' = cpc
        \/ {cpc, cpc'} \subseteq {"wait", "wait_sleep", "wait_woken"}
        \/ {cpc, cpc'} \cap {"wait", "wait_sleep", "wait_woken", "freed"} = {}
    BY <1>7 DEF SpawnWorker, SpawnFails, SignalLock, Signal, SignalExit, CreateDummy, Create,
       SubmitAllocFails, Submit, SpuriousClient, SleepPC, WokenFrom, clientVars
  <2> QED BY <2>1, <2>2, SameCall
<1> QED BY <1>0, <1>1, <1>2, <1>3, <1>4, <1>5, <1>6, <1>7
        DEF ClientStep, ClientProgress, ClientCall

LEMMA NextPromised ==
    ASSUME IMatch, IMatch', [Next]_vars
    PROVE  [Promise!Next]_promised
<1>1. CASE UNCHANGED vars
  BY <1>1, SameCall DEF vars, tpVars, workerVars, clientVars, envVars
<1> QED BY <1>1, WorkerPromised, ClientPromised DEF Next, Spuriously, Freed

LEMMA InitPromised == Init => Promise!Init
<1> SUFFICES ASSUME Init PROVE Promise!Init
  OBVIOUS
<1>1. Status = [j \in Jobs |-> "new"]
  BY NoJobAssumption DEF Init, Status, StatusOf, InQueue, OnWorker
<1>2. CallOf = "none" /\ Remaining = 0
  BY DEF Init, CallOf, Remaining
<1> QED BY <1>1, <1>2 DEF Promise!Init, Status, Remaining

IInv == IMatch /\ LocksMatch /\ JoinedMatch /\ WaitingInv /\ MarksMatch /\ EnoughComing

LEMMA InitInv == Init => IInv
<1> SUFFICES ASSUME Init PROVE IInv
  OBVIOUS
<1>1. TypeInv
  BY TypeInit
<1>2. PendingExact
  <2>1. Running = {} /\ Finished = {}
    BY DEF Init, Running, Finished
  <2> QED BY <2>1, FS_EmptySet DEF Init, PendingExact
<1>3. JobsConserved
  BY DEF Init, JobsConserved, InQueue, OnWorker, HasRun, Running
<1>4. Started /\ LocksMatch /\ JoinedMatch
  BY DEF Init, Started, LocksMatch, JoinedMatch, Free, Client, Worker
<1>5. StagesMatch
  BY DEF Init, StagesMatch, Submitting, Closing, Drained
<1>6. QueueMatch
  BY DEF Init, QueueMatch, Drained
<1>7. WaitingInv
  <2>1. Marked = {}
    BY DEF Init, Marked
  <2> QED BY <2>1, FS_EmptySet DEF Init, WaitingInv, Listed
<1>8. MarksMatch
  BY DEF Init, MarksMatch, Sleeping, Signalled
<1>9. EnoughComing
  BY DEF Init, EnoughComing
<1> QED BY <1>1, <1>2, <1>3, <1>4, <1>5, <1>6, <1>7, <1>8, <1>9 DEF IInv, IMatch

LEMMA NextInv == IInv /\ [Next]_vars => IInv'
<1> SUFFICES ASSUME IInv, [Next]_vars PROVE IInv'
  OBVIOUS
<1> USE DEF IInv, IMatch
<1>1. TypeInv' /\ PendingExact' /\ JobsConserved'
  BY TypeStep, PendingStep, JobsStep
<1>2. CASE UNCHANGED vars
  <2> USE <1>2 DEF vars, tpVars, workerVars, clientVars, envVars
  <2>1. Started' /\ StagesMatch' /\ LocksMatch' /\ JoinedMatch'
    BY DEF Started, StagesMatch, LocksMatch, JoinedMatch
  <2>2. QueueMatch'
    BY DEF QueueMatch, Running
  <2>3. WaitingInv'
    BY WaitingFrame
  <2>4. MarksMatch'
    BY DEF MarksMatch, Orderly, Sleeping, Signalled
  <2>5. EnoughComing'
    BY ComingGrows DEF Coming, Orderly
  <2> QED BY <1>1, <2>1, <2>2, <2>3, <2>4, <2>5
<1>3. CASE \E w \in Worker : WorkerStep(w) \/ SpuriousWorker(w)
  BY <1>1, <1>3, StartedStepWorker, StagesWorker, QueueWorker, LocksStepWorker, JoinedWorker,
     WaitingWorker, MarksWorker, ComingWorker
<1>4. CASE ClientStep \/ ClientCall \/ SpuriousClient
  BY <1>1, <1>4, StartedStepClient, StagesClient, QueueClient, LocksStepClient, JoinedClient,
     WaitingClient, MarksClient, ComingClient
<1> QED BY <1>2, <1>3, <1>4 DEF Next, Spuriously, Freed

(* The parts of the invariant hold in every behaviour of the pool.         *)
THEOREM Invariance == Spec => []IInv
BY InitInv, NextInv, PTL DEF Spec

(* The list of waiting workers holds each marked worker once, its count    *)
(* is exact, and the assertions of opj_thread_pool_submit_job and          *)
(* opj_thread_pool_get_next_job on it never fail.                          *)
THEOREM WaitingListCorrect == Spec => []WaitingListExact
<1>1. IInv => WaitingListExact
  BY WaitingFollows DEF IInv, IMatch
<1> QED BY <1>1, Invariance, PTL

(* Until a wait returns spuriously or a worker fails, jobs queued by       *)
(* opj_thread_pool_submit_job never outnumber the workers coming for them  *)
(* while another worker sleeps.                                            *)
THEOREM NobodyStranded == Spec => []NoStrandedJob
<1>1. IInv => NoStrandedJob
  BY StrandedFollows DEF IInv, IMatch
<1> QED BY <1>1, Invariance, PTL

(* opj_thread_pool_destroy frees nothing in use: the threads whose mutexes *)
(* it destroys have ended, and no job is left.                             *)
THEOREM FreedCorrect == Spec => []FreedUnused
<1>1. IInv => FreedUnused
  BY FreedFollows DEF IInv, IMatch
<1> QED BY <1>1, Invariance, PTL

(* The pool is the job pool of thread.h: a job that opj_thread_pool_       *)
(* submit_job takes runs at most once and the pool holds at most Capacity, *)
(* a wait returns with no more unfinished jobs than it was asked for, and  *)
(* the pool closes when none is left.                                      *)
THEOREM PoolImplemented == Spec => ImplementsJobPool
<1>1. Init => Promise!Init
  BY InitPromised
<1>2. IInv /\ IInv' /\ [Next]_vars => [Promise!Next]_promised
  BY NextPromised DEF IInv
<1> QED
  BY <1>1, <1>2, Invariance, PTL
  DEF Spec, ImplementsJobPool, Promise!Spec, Promise!vars, promised, Status, Remaining

=============================================================================
