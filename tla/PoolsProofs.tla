----------------------------- MODULE PoolsProofs -----------------------------
(***************************************************************************)
(* Proofs about MCDynamicPools, in which each behaviour is one of a pool   *)
(* of either dynamic kind: what DynamicPoolProofs shows of the pool with a *)
(* queue and, as an instance, of the pool without one.                     *)
(***************************************************************************)
EXTENDS MCDynamicPools, DynamicPoolProofs

\* The proofs about DynamicPool, for the pool without a queue.
P == INSTANCE DynamicPoolProofs WITH
        PoolType <- "DYNAMIC_SIZE_NO_QUEUE", MaxQueueSize <- 0

\* What the proofs assume of the constants holds of a pool without a queue.
LEMMA NoQueueAssumptions == P!PoolAssumption /\ P!DynamicAssumption
  BY PoolAssumption, DynamicAssumption DEF P!PoolAssumption, P!DynamicAssumption, P!IsFiniteSet,
     IsFiniteSet

(***************************************************************************)
(* The model-checked instance and the one the proofs are about are the     *)
(* same pool, operator by operator                                         *)
(***************************************************************************)
\* A new pool.
LEMMA SameInit == Init => P!Init
  BY DEF Init, P!Init

\* The steps of the workers.
LEMMA SameWorkerStep ==
    ASSUME NEW t \in Workers, NoQueue!DynamicWorkerStep(t)
    PROVE  P!DynamicWorkerStep(t)
  BY DEF NoQueue!DynamicWorkerStep, P!DynamicWorkerStep, NoQueue!WorkerStep, P!WorkerStep,
     NoQueue!SleepForWork, P!SleepForWork, NoQueue!QuitOnShutdown, P!QuitOnShutdown,
     NoQueue!TakeWork, P!TakeWork, NoQueue!BeginRun, P!BeginRun, NoQueue!FinishRun,
     P!FinishRun, NoQueue!CancelledInRun, P!CancelledInRun, NoQueue!ExitThread, P!ExitThread,
     NoQueue!WaitForWorkTimesOut, P!WaitForWorkTimesOut, NoQueue!DecrementWorkerCount,
     P!DecrementWorkerCount, NoQueue!queueVars, P!queueVars, NoQueue!threadVars, P!threadVars,
     NoQueue!workerVars, P!workerVars, NoQueue!callVars, P!callVars, NoQueue!QueueIsFull,
     P!QueueIsFull, NoQueue!OnNotFull, P!OnNotFull, NoQueue!OnEmpty, P!OnEmpty,
     NoQueue!Cardinality, P!Cardinality

\* The steps of addWork().
LEMMA SameAddWork ==
    ASSUME NEW c \in Clients, NoQueue!AddWork(c)
    PROVE  P!AddWork(c)
  BY DEF NoQueue!AddWork, P!AddWork, NoQueue!AddToClosedQueue, P!AddToClosedQueue,
     NoQueue!BlockOnFullQueue, P!BlockOnFullQueue, NoQueue!PushWork, P!PushWork,
     NoQueue!AddWorkTimesOut, P!AddWorkTimesOut, NoQueue!NotifyOneWorker, P!NotifyOneWorker,
     NoQueue!NoNewThread, P!NoNewThread, NoQueue!StartNewThread, P!StartNewThread,
     NoQueue!RefuseWork, P!RefuseWork, NoQueue!Return, P!Return, NoQueue!ReapDeadThreads,
     P!ReapDeadThreads, NoQueue!Dead, P!Dead, NoQueue!IsRunning, P!IsRunning,
     NoQueue!QueueClosed, P!QueueClosed, NoQueue!QueueIsFull, P!QueueIsFull,
     NoQueue!OnNotEmpty, P!OnNotEmpty, NoQueue!m_maxThreads, P!m_maxThreads,
     NoQueue!Cardinality, P!Cardinality, NoQueue!queueVars, P!queueVars, NoQueue!threadVars,
     P!threadVars, NoQueue!workerVars, P!workerVars, NoQueue!callVars, P!callVars

\* The steps of shutdown().
LEMMA SameShutdownStep ==
    ASSUME NEW c \in Clients, NoQueue!ShutdownStep(c)
    PROVE  P!ShutdownStep(c)
  BY DEF NoQueue!ShutdownStep, P!ShutdownStep, NoQueue!CloseQueue, P!CloseQueue,
     NoQueue!DrainQueue, P!DrainQueue, NoQueue!DrainTimesOut, P!DrainTimesOut,
     NoQueue!NotifyWorkers, P!NotifyWorkers, NoQueue!NotifyAdders, P!NotifyAdders,
     NoQueue!EndLoop, P!EndLoop, NoQueue!CooperativeCancel, P!CooperativeCancel,
     NoQueue!DefinitiveCancel, P!DefinitiveCancel, NoQueue!JoinThread, P!JoinThread,
     NoQueue!Return, P!Return, NoQueue!QueueClosed, P!QueueClosed, NoQueue!IsRunning,
     P!IsRunning, NoQueue!CurrentRunnable, P!CurrentRunnable, NoQueue!OnNotEmpty, P!OnNotEmpty,
     NoQueue!OnNotFull, P!OnNotFull, NoQueue!queueVars, P!queueVars, NoQueue!threadVars,
     P!threadVars, NoQueue!workerVars, P!workerVars, NoQueue!callVars, P!callVars

\* The calls, waitForEmptyQueue(), the destructor and the spurious wakeups.
LEMMA SameOtherStep ==
    /\ \A c \in Clients : NoQueue!Call(c) => P!Call(c)
    /\ \A c \in Clients : NoQueue!WaitForEmptyQueue(c) => P!WaitForEmptyQueue(c)
    /\ NoQueue!Destroy => P!Destroy
    /\ \A x \in Workers \cup Clients : NoQueue!SpuriousWakeup(x) => P!SpuriousWakeup(x)
  BY DEF NoQueue!Call, P!Call, NoQueue!CallAddWork, P!CallAddWork,
     NoQueue!CallWaitForEmptyQueue, P!CallWaitForEmptyQueue, NoQueue!CallShutdown,
     P!CallShutdown, NoQueue!WaitForEmptyQueue, P!WaitForEmptyQueue, NoQueue!Return, P!Return,
     NoQueue!Destroy, P!Destroy, NoQueue!QueueClosed, P!QueueClosed, NoQueue!SpuriousWakeup,
     P!SpuriousWakeup, NoQueue!queueVars, P!queueVars, NoQueue!threadVars, P!threadVars,
     NoQueue!workerVars, P!workerVars, NoQueue!callVars, P!callVars

\* Every step of the model-checked pool is one of the pool the proofs are about.
LEMMA SameNext ==
    /\ NoQueue!Next => P!Next
    /\ UNCHANGED poolVars => UNCHANGED P!poolVars
<1>1. NoQueue!Next => P!Next
  BY SameWorkerStep, SameAddWork, SameShutdownStep, SameOtherStep
  DEF NoQueue!Next, P!Next, NoQueue!ClientStep, P!ClientStep
<1>2. UNCHANGED poolVars => UNCHANGED P!poolVars
  BY DEF poolVars, queueVars, threadVars, workerVars, callVars, P!poolVars, P!queueVars,
     P!threadVars, P!workerVars, P!callVars
<1>3. QED  BY <1>1, <1>2

\* What a pool's type says does not depend on its kind.
LEMMA SameType == P!TypeOK => TypeOK
  BY DEF P!TypeOK, TypeOK, P!WorkerPcs, WorkerPcs, P!ClientPcs, ClientPcs, P!AddPcs, AddPcs,
     P!CloserPcs, CloserPcs, P!Timers, Timers, P!Statuses, Statuses

\* What the model-checked properties say of the pool without a queue.
LEMMA SamePromises ==
    /\ P!ClientsAwake => NoQueue!ClientsAwake
    /\ P!ThreadsAreBounded => NoQueue!ThreadsAreBounded
<1>1. P!ClientsAwake => NoQueue!ClientsAwake
  BY DEF NoQueue!ClientsAwake, P!ClientsAwake, NoQueue!OnNotFull, P!OnNotFull, NoQueue!OnEmpty,
     P!OnEmpty, NoQueue!QueueIsFull, P!QueueIsFull, NoQueue!Cardinality, P!Cardinality
<1>2. P!ThreadsAreBounded => NoQueue!ThreadsAreBounded
  BY DEF NoQueue!ThreadsAreBounded, P!ThreadsAreBounded, NoQueue!m_maxThreads, P!m_maxThreads,
     NoQueue!Cardinality, P!Cardinality
<1>3. QED  BY <1>1, <1>2

\* The promises of ThreadPool.hpp, too, are the same for both instances.
LEMMA SameService ==
    /\ P!Service!ServiceNext => NoQueue!Service!ServiceNext
    /\ UNCHANGED P!Service!serviceVars => UNCHANGED Service!serviceVars
<1>1. P!Service!ServiceNext => NoQueue!Service!ServiceNext
  BY DEF NoQueue!Service!ServiceNext, P!Service!ServiceNext, NoQueue!Service!Start,
     P!Service!Start, NoQueue!Service!Close, P!Service!Close, NoQueue!Service!Stop,
     P!Service!Stop, NoQueue!Service!Accept, P!Service!Accept, NoQueue!Service!Refuse,
     P!Service!Refuse, NoQueue!Service!EndWork, P!Service!EndWork, NoQueue!Service!Finish,
     P!Service!Finish, NoQueue!Service!Cut, P!Service!Cut, NoQueue!Service!Running,
     P!Service!Running, NoQueue!Service!Cardinality, P!Service!Cardinality,
     NoQueue!Cardinality, P!Cardinality
<1>2. UNCHANGED P!Service!serviceVars => UNCHANGED Service!serviceVars
  BY DEF P!Service!serviceVars, Service!serviceVars
<1>3. QED  BY <1>1, <1>2
(***************************************************************************)
(* The invariant of the pool at hand                                       *)
(***************************************************************************)
\* The inductive invariant of DynamicPool, for the kind of pool of the behaviour.
BothInv ==
    /\ kind \in {"queue", "no queue"}
    /\ kind = "queue" => PoolInv
    /\ kind = "no queue" => P!PoolInv

\* A new pool of either kind satisfies it.
LEMMA BothInit == MCInit => BothInv
<1>1. Init => PoolInv
  BY InitInv
<1>2. P!Init => P!PoolInv
  BY NoQueueAssumptions, P!InitInv
<1>3. QED  BY <1>1, <1>2, SameInit DEF MCInit, BothInv

\* Every step of either kind of pool keeps it.
LEMMA BothNext == BothInv /\ [MCNext]_allVars => BothInv'
<1>1. PoolInv /\ [Next]_poolVars => PoolInv'
  BY NextInv
<1>2. P!PoolInv /\ [P!Next]_(P!poolVars) => P!PoolInv'
  BY NoQueueAssumptions, P!NextInv
<1>3. [MCNext]_allVars => kind' = kind
  BY DEF MCNext, allVars
<1>4. [MCNext]_allVars /\ kind = "queue" => [Next]_poolVars
  BY DEF MCNext, allVars
<1>5. [MCNext]_allVars /\ kind = "no queue" => [P!Next]_(P!poolVars)
  BY SameNext DEF MCNext, allVars
<1>6. QED  BY <1>1, <1>2, <1>3, <1>4, <1>5 DEF BothInv

\* The invariant holds of both kinds of pool.
LEMMA BothInvariant == MCSpec => []BothInv
  BY BothInit, BothNext, PTL DEF MCSpec

\* Every variable of either kind of pool keeps its type, and a worker has work exactly
\* from taking it to the end of the run.
THEOREM BothTypeCorrect == MCSpec => []TypeOK
<1>1. BothInv => TypeOK
  BY SameType DEF BothInv, PoolInv, SharedInv, P!PoolInv, P!SharedInv
<1>2. QED  BY <1>1, BothInvariant, PTL

\* No client of a dynamic pool sleeps through what it waits for, although the two kinds
\* notify in different critical sections: without a queue, addWork() is woken by the
\* worker that is free again, with one by the worker that takes work.
THEOREM BothClientsAwake == MCSpec => []ClientsAwakeInBoth
<1>1. BothInv => ClientsAwakeInBoth
  BY SamePromises DEF BothInv, PoolInv, SharedInv, P!PoolInv, P!SharedInv, ClientsAwakeInBoth
<1>2. QED  BY <1>1, BothInvariant, PTL

\* The busy threads and the queue of a pool without a queue never exceed numThreads, the
\* counter behind queueIsFull() never wraps, and shutdownThreads() finds every thread.
THEOREM BothThreadsBounded == MCSpec => []ThreadsAreBoundedInBoth
<1>1. BothInv => ThreadsAreBoundedInBoth
  BY SamePromises DEF BothInv, PoolInv, P!PoolInv, ThreadsAreBoundedInBoth
<1>2. QED  BY <1>1, BothInvariant, PTL

(***************************************************************************)
(* PoolService and the word of shutdown(), for the pool at hand            *)
(***************************************************************************)
\* Each step of either kind of pool is one of PoolService with its own bound.
LEMMA BothServe ==
    BothInv /\ [MCNext]_allVars
        => [IF kind = "queue" THEN Service!ServiceNext
                              ELSE NoQueue!Service!ServiceNext]_(Service!serviceVars)
<1>1. PoolInv /\ [Next]_poolVars => [Service!ServiceNext]_(Service!serviceVars)
  BY NextServes
<1>2. P!PoolInv /\ [P!Next]_(P!poolVars)
         => [P!Service!ServiceNext]_(P!Service!serviceVars)
  BY NoQueueAssumptions, P!NextServes
<1>3. [MCNext]_allVars /\ kind = "queue" => [Next]_poolVars
  BY DEF MCNext, allVars
<1>4. [MCNext]_allVars /\ kind = "no queue" => [P!Next]_(P!poolVars)
  BY SameNext DEF MCNext, allVars
<1>5. QED  BY <1>1, <1>2, <1>3, <1>4, SameService DEF BothInv

\* Pools of both dynamic kinds do what ThreadPool.hpp promises, each for its own bound on
\* the queue: accepted work is started once, in order, by at most numThreads threads, and
\* addWork() accepts nothing beyond the bound or after the close.
THEOREM BothKindsImplementService == MCSpec => BothImplementService
<1>1. MCInit => Service!ServiceInit
  BY InitServes DEF MCInit
<1>2. QED
  BY <1>1, BothServe, BothInvariant, PTL DEF MCSpec, BothImplementService

\* The step that returns from shutdown(E_FINISH_WORK_IN_QUEUE) without a limit leaves no
\* accepted work behind.
LEMMA BothStepsFinish ==
    BothInv /\ [MCNext]_allVars
        => [\A c \in Clients :
              cpc[c] = "join" /\ cpc'[c] = "idle" /\ finish[c] /\ timer[c] = "infinite"
                 => \A w \in Work : status[w] \notin {"queued", "running", "cut"}]_poolVars
<1>1. ASSUME PoolInv, [Next]_poolVars, NEW c \in Clients,
             cpc[c] = "join", cpc'[c] = "idle", finish[c], timer[c] = "infinite"
      PROVE  \A w \in Work : status[w] \notin {"queued", "running", "cut"}
  BY <1>1, NextFinishes
<1>2. ASSUME P!PoolInv, [P!Next]_(P!poolVars), NEW c \in Clients,
             cpc[c] = "join", cpc'[c] = "idle", finish[c], timer[c] = "infinite"
      PROVE  \A w \in Work : status[w] \notin {"queued", "running", "cut"}
  BY <1>2, NoQueueAssumptions, P!NextFinishes
<1>3. [MCNext]_allVars /\ kind = "queue" => [Next]_poolVars
  BY DEF MCNext, allVars
<1>4. [MCNext]_allVars /\ kind = "no queue" => [P!Next]_(P!poolVars)
  BY SameNext DEF MCNext, allVars
<1>5. QED  BY <1>1, <1>2, <1>3, <1>4 DEF BothInv

\* shutdown(E_FINISH_WORK_IN_QUEUE) of a dynamic pool of either kind returns only after
\* all the accepted work was run to its end, whatever addWork() and the other calls do.
THEOREM BothShutdownsFinish == MCSpec => FinishMeansFinished
  BY BothStepsFinish, BothInvariant, PTL DEF MCSpec, FinishMeansFinished
=============================================================================
