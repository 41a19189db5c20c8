-------------------------- MODULE CommonPoolProofs --------------------------
(***************************************************************************)
(* What the actions of CommonPool preserve, for every kind of pool, any    *)
(* number of threads, clients and Runnables and any queue size: no wakeup  *)
(* of a client is lost, no Runnable is lost or doubled, every step is one  *)
(* of PoolService, and a shutdown that finishes the work keeps its word.   *)
(* FixedPoolProofs and DynamicPoolProofs add the addWork() of their pools. *)
(***************************************************************************)
EXTENDS CommonPool, FiniteSetTheorems, TLAPS

(***************************************************************************)
(* No lost wakeup of a client: each action preserves SharedInv             *)
(***************************************************************************)
\* What a call that returns leaves behind.
LEMMA ReturnType ==
    ASSUME TypeOK, NEW c \in Clients, Return(c)
    PROVE  /\ cpc' \in [Clients -> ClientPcs]
           /\ offer' \in [Clients -> Work \cup {NoWork}]
           /\ finish' \in [Clients -> BOOLEAN]
           /\ timer' \in [Clients -> Timers]
           /\ pool' \in {"constructing", "open", "destroying", "destroyed"}
           /\ cpc'[c] = "idle"
           /\ \A d \in Clients \ {c} : cpc'[d] = cpc[d]
<1>1. cpc' \in [Clients -> ClientPcs] /\ timer' \in [Clients -> Timers]
  BY DEF TypeOK, Return, ClientPcs, Timers
<1>2. /\ offer' \in [Clients -> Work \cup {NoWork}]
      /\ finish' \in [Clients -> BOOLEAN]
      /\ pool' \in {"constructing", "open", "destroying", "destroyed"}
  BY DEF TypeOK, Return
<1>3. cpc'[c] = "idle" /\ \A d \in Clients \ {c} : cpc'[d] = cpc[d]
  BY DEF TypeOK, Return
<1>4. QED  BY <1>1, <1>2, <1>3

\* A worker goes to sleep only on an empty queue that is not shut down.
LEMMA SleepForWorkShared ==
    ASSUME SharedInv, NEW t \in Workers, SleepForWork(t)
    PROVE  SharedInv'
<1>1. TypeOK'
  BY PoolAssumption DEF SharedInv, TypeOK, SleepForWork, queueVars, threadVars, workerVars,
     callVars
<1>2. CallsFitPool'
  BY DEF SharedInv, CallsFitPool, SleepForWork, queueVars, callVars
<1>3. ClientsAwake'
  BY PoolAssumption DEF SharedInv, ClientsAwake, SleepForWork, queueVars, threadVars, OnNotFull,
     OnEmpty
<1>4. QED  BY <1>1, <1>2, <1>3 DEF SharedInv

\* A worker that quits leaves the queue alone.
LEMMA QuitOnShutdownShared ==
    ASSUME SharedInv, NEW t \in Workers, QuitOnShutdown(t)
    PROVE  SharedInv'
<1>1. TypeOK'
  BY DEF SharedInv, TypeOK, QuitOnShutdown, queueVars, threadVars, callVars, WorkerPcs
<1>2. CallsFitPool'
  BY DEF SharedInv, CallsFitPool, QuitOnShutdown, queueVars, callVars
<1>3. ClientsAwake'
  BY DEF SharedInv, ClientsAwake, QuitOnShutdown, queueVars, OnNotFull, OnEmpty
<1>4. QED  BY <1>1, <1>2, <1>3 DEF SharedInv

\* The pop notifies whoever waits for what it brings about.
LEMMA TakeWorkShared ==
    ASSUME SharedInv, NEW t \in Workers, TakeWork(t)
    PROVE  SharedInv'
<1>1. TypeOK'
  BY PoolAssumption DEF SharedInv, TypeOK, TakeWork, callVars, WorkerPcs, Statuses
<1>2. CallsFitPool'
  BY DEF SharedInv, CallsFitPool, TakeWork, callVars
<1>3. ClientsAwake'
  BY DEF ClientsAwake, TakeWork, OnNotFull, OnEmpty
<1>4. QED  BY <1>1, <1>2, <1>3 DEF SharedInv

\* Beginning a run moves the worker only.
LEMMA BeginRunShared ==
    ASSUME SharedInv, NEW t \in Workers, BeginRun(t)
    PROVE  SharedInv'
<1>1. TypeOK'
  BY DEF SharedInv, TypeOK, BeginRun, queueVars, threadVars, callVars, WorkerPcs
<1>2. CallsFitPool'
  BY DEF SharedInv, CallsFitPool, BeginRun, queueVars, callVars
<1>3. ClientsAwake'
  BY DEF SharedInv, ClientsAwake, BeginRun, queueVars, threadVars, OnNotFull, OnEmpty
<1>4. QED  BY <1>1, <1>2, <1>3 DEF SharedInv

\* Ending a run moves the worker only.
LEMMA FinishRunShared ==
    ASSUME SharedInv, NEW t \in Workers, FinishRun(t)
    PROVE  SharedInv'
<1>1. TypeOK'
  <2>1. status' \in [Work -> Statuses] /\ t \notin waiting
    BY DEF SharedInv, TypeOK, FinishRun, Statuses
  <2>2. CASE PoolType = "FIXED_SIZE"
    <3>1. /\ wpc' = [wpc EXCEPT ![t] = "getWork"] /\ job' = [job EXCEPT ![t] = NoWork]
      BY <2>2 DEF FinishRun
    <3>2. wpc' \in [Workers -> WorkerPcs] /\ job' \in [Workers -> Work \cup {NoWork}]
      BY <3>1 DEF SharedInv, TypeOK, WorkerPcs
    <3>3. QED
      BY <2>1, <3>1, <3>2 DEF SharedInv, TypeOK, FinishRun, queueVars, threadVars, callVars
  <2>3. CASE PoolType # "FIXED_SIZE"
    <3>1. /\ wpc' = [wpc EXCEPT ![t] = "ranWork"] /\ job' = job
          /\ wpc' \in [Workers -> WorkerPcs]
      BY <2>3 DEF SharedInv, TypeOK, FinishRun, WorkerPcs
    <3>2. QED
      BY <2>1, <3>1 DEF SharedInv, TypeOK, FinishRun, queueVars, threadVars, callVars
  <2>4. QED  BY <2>2, <2>3
<1>2. CallsFitPool'
  BY DEF SharedInv, CallsFitPool, FinishRun, queueVars, callVars
<1>3. ClientsAwake'
  BY DEF SharedInv, ClientsAwake, FinishRun, queueVars, threadVars, OnNotFull, OnEmpty
<1>4. QED  BY <1>1, <1>2, <1>3 DEF SharedInv

\* A cut run moves the worker only.
LEMMA CancelledInRunShared ==
    ASSUME SharedInv, NEW t \in Workers, CancelledInRun(t)
    PROVE  SharedInv'
<1>1. TypeOK'
  BY DEF SharedInv, TypeOK, CancelledInRun, queueVars, threadVars, callVars, WorkerPcs, Statuses
<1>2. CallsFitPool'
  BY DEF SharedInv, CallsFitPool, CancelledInRun, queueVars, callVars
<1>3. ClientsAwake'
  BY DEF SharedInv, ClientsAwake, CancelledInRun, queueVars, threadVars, OnNotFull, OnEmpty
<1>4. QED  BY <1>1, <1>2, <1>3 DEF SharedInv

\* The end of a thread moves the worker only.
LEMMA ExitThreadShared ==
    ASSUME SharedInv, NEW t \in Workers, ExitThread(t)
    PROVE  SharedInv'
<1>1. TypeOK'
  BY DEF SharedInv, TypeOK, ExitThread, queueVars, threadVars, callVars, WorkerPcs
<1>2. CallsFitPool'
  BY DEF SharedInv, CallsFitPool, ExitThread, queueVars, callVars
<1>3. ClientsAwake'
  BY DEF SharedInv, ClientsAwake, ExitThread, queueVars, threadVars, OnNotFull, OnEmpty
<1>4. QED  BY <1>1, <1>2, <1>3 DEF SharedInv

\* A call begins awake.
LEMMA CallWaitForEmptyQueueShared ==
    ASSUME SharedInv, NEW c \in Clients, CallWaitForEmptyQueue(c)
    PROVE  SharedInv'
<1>1. TypeOK'
  BY DEF SharedInv, TypeOK, CallWaitForEmptyQueue, queueVars, threadVars, workerVars, callVars,
     ClientPcs
<1>2. CallsFitPool'
  BY DEF SharedInv, CallsFitPool, CallWaitForEmptyQueue, queueVars, callVars, AddPcs, CloserPcs
<1>3. ClientsAwake'
  BY DEF SharedInv, TypeOK, ClientsAwake, CallWaitForEmptyQueue, queueVars, threadVars,
     OnNotFull, OnEmpty
<1>4. QED  BY <1>1, <1>2, <1>3 DEF SharedInv

\* The owner turns to the shutdown when nobody is in a call.
LEMMA DestroyShared ==
    ASSUME SharedInv, Destroy
    PROVE  SharedInv'
<1>1. TypeOK'
  <2>1. /\ UNCHANGED <<m_queue, m_queueClosed, m_shutdown, m_threads, m_workingThreads, waiting,
                       wpc, job, cancel, offer, finish, seen, status>>
        /\ pool' \in {"destroyed", "destroying"}
        /\ \/ cpc' = cpc /\ timer' = timer
           \/ /\ cpc' = [cpc EXCEPT ![Owner] = "shutdown"]
              /\ timer' = [timer EXCEPT ![Owner] = "definitive"]
        /\ \A c \in Clients : cpc[c] = "idle"
    BY DEF Destroy, queueVars, workerVars
  <2>2. cpc' \in [Clients -> ClientPcs] /\ timer' \in [Clients -> Timers]
    BY <2>1 DEF SharedInv, TypeOK, ClientPcs, Timers
  <2>3. \A c \in Clients : c \notin waiting
    BY <2>1 DEF SharedInv, TypeOK
  <2>4. QED  BY <2>1, <2>2, <2>3 DEF SharedInv, TypeOK
<1>2. CallsFitPool'
  BY DEF SharedInv, CallsFitPool, TypeOK, Destroy, queueVars, AddPcs, CloserPcs
<1>3. ClientsAwake'
  BY DEF SharedInv, TypeOK, ClientsAwake, Destroy, OnNotFull, OnEmpty
<1>4. QED  BY <1>1, <1>2, <1>3 DEF SharedInv

\* A client that gives up takes nothing along.
LEMMA AddWorkTimesOutShared ==
    ASSUME SharedInv, NEW c \in Clients, AddWorkTimesOut(c)
    PROVE  SharedInv'
<1>1. TypeOK'
  <2>1. status' \in [Work -> Statuses]
    BY DEF SharedInv, TypeOK, AddWorkTimesOut, Statuses
  <2>2. /\ waiting' = waiting \ {c} /\ Return(c)
        /\ UNCHANGED <<m_queue, m_queueClosed, m_shutdown, m_threads, m_workingThreads, wpc, job,
                       cancel, seen>>
    BY DEF AddWorkTimesOut, queueVars, workerVars
  <2>3. \A d \in Clients : d \in waiting' => cpc'[d] \in {"blocked", "empty", "drain"}
    BY <2>2, ReturnType DEF SharedInv, TypeOK
  <2>4. QED  BY <2>1, <2>2, <2>3, ReturnType DEF SharedInv, TypeOK
<1>2. CallsFitPool'
  BY DEF SharedInv, CallsFitPool, TypeOK, AddWorkTimesOut, Return, queueVars, AddPcs, CloserPcs
<1>3. ClientsAwake'
  BY DEF SharedInv, ClientsAwake, AddWorkTimesOut, Return, queueVars, OnNotFull, OnEmpty
<1>4. QED  BY <1>1, <1>2, <1>3 DEF SharedInv

\* A client goes to sleep only while there is work in the queue.
LEMMA WaitForEmptyQueueShared ==
    ASSUME SharedInv, NEW c \in Clients, WaitForEmptyQueue(c)
    PROVE  SharedInv'
<1>1. TypeOK'
  <2>1. CASE m_queue = <<>>
    BY <2>1, ReturnType DEF SharedInv, TypeOK, WaitForEmptyQueue, queueVars, workerVars
  <2>2. CASE m_queue # <<>>
    BY PoolAssumption, <2>2 DEF SharedInv, TypeOK, WaitForEmptyQueue, queueVars, workerVars,
       callVars
  <2>3. QED  BY <2>1, <2>2
<1>2. CallsFitPool'
  BY DEF SharedInv, CallsFitPool, TypeOK, WaitForEmptyQueue, Return, queueVars, callVars, AddPcs,
     CloserPcs
<1>3. ClientsAwake'
  BY DEF SharedInv, TypeOK, ClientsAwake, WaitForEmptyQueue, Return, queueVars, OnNotFull,
     OnEmpty
<1>4. QED  BY <1>1, <1>2, <1>3 DEF SharedInv

\* Whoever stops the pool is the one that will notify.
LEMMA CloseQueueShared ==
    ASSUME SharedInv, NEW c \in Clients, CloseQueue(c)
    PROVE  SharedInv'
<1>1. TypeOK'
  <2>1. CASE QueueClosed
    BY <2>1, ReturnType DEF SharedInv, TypeOK, CloseQueue, queueVars, workerVars
  <2>2. CASE ~QueueClosed /\ finish[c] /\ m_queue # <<>>
    BY PoolAssumption, <2>2 DEF SharedInv, TypeOK, CloseQueue, workerVars, callVars, ClientPcs,
       CloserPcs
  <2>3. CASE ~QueueClosed /\ ~(finish[c] /\ m_queue # <<>>)
    <3>1. CASE QueueClosed
      BY <2>1, <3>1
    <3>2. CASE ~QueueClosed
      <4>1. /\ cpc[c] = "shutdown" /\ cpc' = [cpc EXCEPT ![c] = "notifyWorkers"]
            /\ m_queueClosed' = TRUE /\ m_shutdown' = TRUE
            /\ UNCHANGED <<m_queue, waiting, callVars, pool, m_threads, m_workingThreads,
                           workerVars, seen, status>>
        BY <2>3, <3>2 DEF CloseQueue
      <4>2. cpc' \in [Clients -> ClientPcs]
        BY <4>1 DEF SharedInv, TypeOK, ClientPcs, CloserPcs
      <4>3. c \notin waiting
        BY <4>1 DEF SharedInv, TypeOK
      <4>4. QED
        BY <4>1, <4>2, <4>3 DEF SharedInv, TypeOK, workerVars, callVars
    <3>3. QED  BY <3>1, <3>2
  <2>4. QED  BY <2>1, <2>2, <2>3
<1>2. CallsFitPool'
  BY DEF SharedInv, CallsFitPool, TypeOK, CloseQueue, Return, queueVars, callVars, AddPcs,
     CloserPcs
<1>3. ClientsAwake'
  BY DEF SharedInv, TypeOK, ClientsAwake, CloseQueue, Return, queueVars, OnNotFull, OnEmpty,
     QueueClosed
<1>4. QED  BY <1>1, <1>2, <1>3 DEF SharedInv

\* The drain sleeps only while there is work in the queue.
LEMMA DrainQueueShared ==
    ASSUME SharedInv, NEW c \in Clients, DrainQueue(c)
    PROVE  SharedInv'
<1>1. TypeOK'
  <2>1. CASE m_queue = <<>>
    BY <2>1 DEF SharedInv, TypeOK, DrainQueue, threadVars, workerVars, callVars, ClientPcs,
       CloserPcs
  <2>2. CASE m_queue # <<>>
    BY PoolAssumption, <2>2 DEF SharedInv, TypeOK, DrainQueue, threadVars, workerVars, callVars
  <2>3. QED  BY <2>1, <2>2
<1>2. CallsFitPool'
  BY DEF SharedInv, CallsFitPool, TypeOK, DrainQueue, callVars, AddPcs, CloserPcs
<1>3. ClientsAwake'
  BY DEF SharedInv, TypeOK, ClientsAwake, DrainQueue, threadVars, OnNotFull, OnEmpty
<1>4. QED  BY <1>1, <1>2, <1>3 DEF SharedInv

\* The drain gives up, and stops the pool.
LEMMA DrainTimesOutShared ==
    ASSUME SharedInv, NEW c \in Clients, DrainTimesOut(c)
    PROVE  SharedInv'
<1>1. TypeOK'
  BY DEF SharedInv, TypeOK, DrainTimesOut, threadVars, workerVars, callVars, ClientPcs, CloserPcs
<1>2. CallsFitPool'
  BY DEF SharedInv, CallsFitPool, DrainTimesOut, callVars, AddPcs, CloserPcs
<1>3. ClientsAwake'
  BY DEF SharedInv, TypeOK, ClientsAwake, DrainTimesOut, OnEmpty
<1>4. QED  BY <1>1, <1>2, <1>3 DEF SharedInv

\* No worker sleeps on past the notification.
LEMMA NotifyWorkersShared ==
    ASSUME SharedInv, NEW c \in Clients, NotifyWorkers(c)
    PROVE  SharedInv'
<1>1. TypeOK'
  BY DEF SharedInv, TypeOK, NotifyWorkers, queueVars, threadVars, workerVars, callVars,
     ClientPcs, CloserPcs
<1>2. CallsFitPool'
  BY DEF SharedInv, CallsFitPool, NotifyWorkers, queueVars, callVars, AddPcs, CloserPcs
<1>3. ClientsAwake'
  BY DEF SharedInv, ClientsAwake, NotifyWorkers, queueVars, OnEmpty
<1>4. QED  BY <1>1, <1>2, <1>3 DEF SharedInv

\* No adder sleeps on past the notification.
LEMMA NotifyAddersShared ==
    ASSUME SharedInv, NEW c \in Clients, NotifyAdders(c)
    PROVE  SharedInv'
<1>1. TypeOK'
  BY DEF SharedInv, TypeOK, NotifyAdders, queueVars, threadVars, workerVars, callVars, ClientPcs,
     CloserPcs
<1>2. CallsFitPool'
  BY DEF SharedInv, CallsFitPool, NotifyAdders, queueVars, callVars, AddPcs, CloserPcs
<1>3. ClientsAwake'
  BY DEF SharedInv, ClientsAwake, NotifyAdders, queueVars, OnNotFull, OnEmpty
<1>4. QED  BY <1>1, <1>2, <1>3 DEF SharedInv

\* The shutdown goes on to its next phase or returns.
LEMMA EndLoopShared ==
    ASSUME SharedInv, NEW c \in Clients, EndLoop(c)
    PROVE  SharedInv'
<1>1. TypeOK'
  <2>1. CASE cpc[c] = "join"
    BY <2>1, ReturnType DEF SharedInv, TypeOK, EndLoop, queueVars, workerVars
  <2>2. CASE cpc[c] # "join"
    <3>1. PICK next \in ClientPcs \ {"blocked", "empty", "drain"} :
              cpc' = [cpc EXCEPT ![c] = next]
      BY <2>2 DEF EndLoop, ClientPcs, AddPcs, CloserPcs
    <3>2. cpc' \in [Clients -> ClientPcs]
      BY <3>1 DEF SharedInv, TypeOK
    <3>3. c \notin waiting
      BY DEF SharedInv, TypeOK, EndLoop
    <3>4. QED
      BY <2>2, <3>1, <3>2, <3>3 DEF SharedInv, TypeOK, EndLoop, queueVars, workerVars, callVars
  <2>3. QED  BY <2>1, <2>2
<1>2. CallsFitPool'
  BY DEF SharedInv, CallsFitPool, TypeOK, EndLoop, Return, queueVars, callVars, AddPcs, CloserPcs
<1>3. ClientsAwake'
  BY DEF SharedInv, TypeOK, ClientsAwake, EndLoop, Return, queueVars, OnNotFull, OnEmpty
<1>4. QED  BY <1>1, <1>2, <1>3 DEF SharedInv

\* The request reaches the worker, or the call is denied and returns.
LEMMA CooperativeCancelShared ==
    ASSUME SharedInv, NEW c \in Clients, NEW t \in Workers, CooperativeCancel(c, t)
    PROVE  SharedInv'
<1>1. TypeOK'
  <2>1. CASE IsRunning(t) /\ CurrentRunnable(t) \in Deniers
    BY <2>1, ReturnType DEF SharedInv, TypeOK, CooperativeCancel, queueVars
  <2>2. CASE ~(IsRunning(t) /\ CurrentRunnable(t) \in Deniers)
    <3>1. cancel' = [cancel EXCEPT ![t] = "requested"] \/ cancel' = cancel
      BY <2>2 DEF SharedInv, TypeOK, CooperativeCancel
    <3>2. cancel' \in [Workers -> {"none", "requested", "killed"}]
      BY <3>1 DEF SharedInv, TypeOK
    <3>3. QED
      BY <2>2, <3>2 DEF SharedInv, TypeOK, CooperativeCancel, queueVars, callVars
  <2>3. QED  BY <2>1, <2>2
<1>2. CallsFitPool'
  BY DEF SharedInv, CallsFitPool, TypeOK, CooperativeCancel, Return, queueVars, callVars, AddPcs,
     CloserPcs
<1>3. ClientsAwake'
  BY DEF SharedInv, TypeOK, ClientsAwake, CooperativeCancel, Return, queueVars, OnNotFull,
     OnEmpty
<1>4. QED  BY <1>1, <1>2, <1>3 DEF SharedInv

\* The cancellation reaches the worker.
LEMMA DefinitiveCancelShared ==
    ASSUME SharedInv, NEW c \in Clients, NEW t \in Workers, DefinitiveCancel(c, t)
    PROVE  SharedInv'
<1>1. TypeOK'
  BY DEF SharedInv, TypeOK, DefinitiveCancel, queueVars, threadVars, callVars
<1>2. CallsFitPool'
  BY DEF SharedInv, CallsFitPool, DefinitiveCancel, queueVars, callVars
<1>3. ClientsAwake'
  BY DEF SharedInv, ClientsAwake, DefinitiveCancel, queueVars, threadVars, OnNotFull, OnEmpty
<1>4. QED  BY <1>1, <1>2, <1>3 DEF SharedInv

\* Joining moves the loop only.
LEMMA JoinThreadShared ==
    ASSUME SharedInv, NEW c \in Clients, NEW t \in Workers, JoinThread(c, t)
    PROVE  SharedInv'
<1>1. TypeOK'
  BY DEF SharedInv, TypeOK, JoinThread, queueVars, threadVars, workerVars, callVars
<1>2. CallsFitPool'
  BY DEF SharedInv, CallsFitPool, JoinThread, queueVars, callVars
<1>3. ClientsAwake'
  BY DEF SharedInv, ClientsAwake, JoinThread, queueVars, threadVars, OnNotFull, OnEmpty
<1>4. QED  BY <1>1, <1>2, <1>3 DEF SharedInv

\* A call begins awake, with a Runnable to add.
LEMMA CallAddWorkShared ==
    ASSUME SharedInv, NEW c \in Clients, NEW w \in Work, NEW limit \in Timers, CallAddWork(c, w,
           limit)
    PROVE  SharedInv'
<1>1. TypeOK'
  BY DEF SharedInv, TypeOK, CallAddWork, queueVars, threadVars, workerVars, ClientPcs, AddPcs,
     Statuses
<1>2. CallsFitPool'
  BY DEF SharedInv, CallsFitPool, TypeOK, CallAddWork, queueVars, CloserPcs
<1>3. ClientsAwake'
  BY DEF SharedInv, ClientsAwake, CallAddWork, queueVars, threadVars, OnNotFull, OnEmpty
<1>4. QED  BY <1>1, <1>2, <1>3 DEF SharedInv

\* A call begins awake.
LEMMA CallShutdownShared ==
    ASSUME SharedInv, NEW c \in Clients, NEW finishWorkInQueue \in BOOLEAN, NEW limit \in Timers,
           CallShutdown(c, finishWorkInQueue, limit)
    PROVE  SharedInv'
<1>1. TypeOK'
  BY DEF SharedInv, TypeOK, CallShutdown, queueVars, threadVars, workerVars, ClientPcs
<1>2. CallsFitPool'
  BY DEF SharedInv, CallsFitPool, CallShutdown, queueVars, AddPcs, CloserPcs
<1>3. ClientsAwake'
  BY DEF SharedInv, ClientsAwake, CallShutdown, queueVars, threadVars, OnNotFull, OnEmpty
<1>4. QED  BY <1>1, <1>2, <1>3 DEF SharedInv

\* A wakeup only ever takes sleepers away.
LEMMA SpuriousWakeupShared ==
    ASSUME SharedInv, NEW x \in Workers \cup Clients, SpuriousWakeup(x)
    PROVE  SharedInv'
<1>1. TypeOK'
  BY DEF SharedInv, TypeOK, SpuriousWakeup, queueVars, threadVars, workerVars, callVars
<1>2. CallsFitPool'
  BY DEF SharedInv, CallsFitPool, SpuriousWakeup, queueVars, callVars
<1>3. ClientsAwake'
  BY DEF SharedInv, ClientsAwake, SpuriousWakeup, queueVars, threadVars, OnNotFull, OnEmpty
<1>4. QED  BY <1>1, <1>2, <1>3 DEF SharedInv

\* A refused call leaves the queue alone.
LEMMA RefuseWorkShared ==
    ASSUME SharedInv, NEW c \in Clients, cpc[c] \in {"add", "blocked"}, c \notin waiting,
           RefuseWork(c)
    PROVE  SharedInv'
<1>1. TypeOK'
  <2>1. Return(c) /\ TypeOK
    BY DEF SharedInv, RefuseWork
  <2>2. status' \in [Work -> Statuses]
    BY <2>1 DEF TypeOK, RefuseWork, Statuses
  <2>3. QED
    BY <2>1, <2>2, ReturnType DEF TypeOK, RefuseWork, queueVars, workerVars
<1>2. CallsFitPool'
  BY DEF SharedInv, CallsFitPool, TypeOK, RefuseWork, Return, queueVars, AddPcs, CloserPcs
<1>3. ClientsAwake'
  BY DEF SharedInv, ClientsAwake, RefuseWork, Return, queueVars, OnNotFull, OnEmpty
<1>4. QED  BY <1>1, <1>2, <1>3 DEF SharedInv

\* Every step of a worker that all pools have.
LEMMA WorkerStepShared ==
    ASSUME SharedInv, NEW t \in Workers, WorkerStep(t)
    PROVE  SharedInv'
  BY SleepForWorkShared, QuitOnShutdownShared, TakeWorkShared, BeginRunShared,
     FinishRunShared, CancelledInRunShared, ExitThreadShared DEF WorkerStep

\* Every step of shutdown().
LEMMA ShutdownStepShared ==
    ASSUME SharedInv, NEW c \in Clients, ShutdownStep(c)
    PROVE  SharedInv'
  BY CloseQueueShared, DrainQueueShared, DrainTimesOutShared, NotifyWorkersShared,
     NotifyAddersShared, EndLoopShared, CooperativeCancelShared, DefinitiveCancelShared,
     JoinThreadShared DEF ShutdownStep

\* The invariant is about the variables of the pool only.
LEMMA StutterShared ==
    ASSUME SharedInv, UNCHANGED poolVars
    PROVE  SharedInv'
<1>1. TypeOK' /\ CallsFitPool'
  BY DEF SharedInv, TypeOK, CallsFitPool, poolVars, queueVars, threadVars, workerVars, callVars
<1>2. ClientsAwake'
  BY DEF SharedInv, ClientsAwake, OnNotFull, OnEmpty, poolVars, queueVars, threadVars
<1>3. QED  BY <1>1, <1>2 DEF SharedInv
(***************************************************************************)
(* Where the work is: each action preserves WorkAccounted                  *)
(***************************************************************************)
\* An action that moves no work: it takes nobody into addWork() and cancels only
\* once the pool is stopped.
LEMMA AccountFrame ==
    ASSUME TypeOK, WorkAccounted,
           m_queue' = m_queue, status' = status, Holders' = Holders,
           \A t \in Holders : job'[t] = job[t],
           m_shutdown => m_shutdown',
           \A t \in Workers : cancel'[t] = cancel[t] \/ m_shutdown',
           \A c \in Offerers' : c \in Offerers /\ offer'[c] = offer[c]
    PROVE  WorkAccounted'
<1>1. /\ \A i, j \in 1..Len(m_queue') : m_queue'[i] = m_queue'[j] => i = j
      /\ \A i \in 1..Len(m_queue') : status'[m_queue'[i]] = "queued"
      /\ \A w \in Work : status'[w] = "queued" => \E i \in 1..Len(m_queue') : m_queue'[i] = w
      /\ PoolType # "DYNAMIC_SIZE_NO_QUEUE" /\ MaxQueueSize > 0 => Len(m_queue') <= MaxQueueSize
  BY DEF WorkAccounted
<1>2. /\ \A c \in Offerers' : status'[offer'[c]] = "offered"
      /\ \A c, d \in Offerers' : offer'[c] = offer'[d] => c = d
  BY DEF WorkAccounted
<1>3. /\ \A t \in Holders' : status'[job'[t]] = "running"
      /\ \A t, u \in Holders' : job'[t] = job'[u] => t = u
      /\ \A w \in Work : status'[w] = "running" => \E t \in Holders' : job'[t] = w
  BY DEF WorkAccounted
<1>4. /\ \A w \in Work : status'[w] = "cut" => m_shutdown'
      /\ \A t \in Workers : cancel'[t] # "none" => m_shutdown'
  BY DEF TypeOK, WorkAccounted
<1>5. QED  BY <1>1, <1>2, <1>3, <1>4 DEF WorkAccounted

\* The queue stays what it was as long as no work enters or leaves it.
LEMMA QueueFrame ==
    ASSUME TypeOK, WorkAccounted, m_queue' = m_queue,
           \A w \in Work : status[w] = "queued" <=> status'[w] = "queued"
    PROVE  /\ \A i, j \in 1..Len(m_queue') : m_queue'[i] = m_queue'[j] => i = j
           /\ \A i \in 1..Len(m_queue') : status'[m_queue'[i]] = "queued"
           /\ \A w \in Work :
                 status'[w] = "queued" => \E i \in 1..Len(m_queue') : m_queue'[i] = w
           /\ PoolType # "DYNAMIC_SIZE_NO_QUEUE" /\ MaxQueueSize > 0
                 => Len(m_queue') <= MaxQueueSize
  BY DEF TypeOK, WorkAccounted

\* What a client offers is a Runnable that is offered.
LEMMA OffersAreOffered ==
    ASSUME CallsFitPool, WorkAccounted, NEW c \in Offerers
    PROVE  offer[c] \in Work /\ status[offer[c]] = "offered"
  BY DEF CallsFitPool, WorkAccounted, Offerers, AddPcs

\* The offers stay apart as long as nobody makes one.
LEMMA OfferFrame ==
    ASSUME WorkAccounted,
           \A c \in Offerers' : c \in Offerers /\ offer'[c] = offer[c],
           \A c \in Offerers' : status'[offer[c]] = status[offer[c]]
    PROVE  /\ \A c \in Offerers' : status'[offer'[c]] = "offered"
           /\ \A c, d \in Offerers' : offer'[c] = offer'[d] => c = d
  BY DEF WorkAccounted

\* The work in hand stays as long as no worker takes work or ends it.
LEMMA HolderFrame ==
    ASSUME TypeOK, WorkAccounted, Holders' = Holders, \A t \in Holders : job'[t] = job[t],
           \A w \in Work : status[w] = "running" <=> status'[w] = "running"
    PROVE  /\ \A t \in Holders' : status'[job'[t]] = "running"
           /\ \A t, u \in Holders' : job'[t] = job'[u] => t = u
           /\ \A w \in Work : status'[w] = "running" => \E t \in Holders' : job'[t] = w
<1>1. \A t \in Holders : job[t] \in Work
  BY DEF TypeOK, Holders
<1>2. QED  BY <1>1 DEF WorkAccounted

\* The head of the queue goes to a worker that had nothing.
LEMMA TakeWorkAccounted ==
    ASSUME TypeOK, CallsFitPool, WorkAccounted, NEW t \in Workers, TakeWork(t)
    PROVE  WorkAccounted'
<1> DEFINE w == Head(m_queue)
<1>1. /\ Len(m_queue) \in Nat /\ Len(m_queue) > 0 /\ w = m_queue[1] /\ w \in Work
      /\ Len(m_queue') = Len(m_queue) - 1
      /\ \A i \in 1..Len(m_queue') : m_queue'[i] = m_queue[i + 1]
  BY DEF TypeOK, TakeWork
<1>2. /\ status' = [status EXCEPT ![w] = "running"] /\ job' = [job EXCEPT ![t] = w]
      /\ UNCHANGED <<cpc, offer, cancel, m_shutdown>>
  BY DEF TakeWork, callVars
<1>3. /\ \A i, j \in 1..Len(m_queue') : m_queue'[i] = m_queue'[j] => i = j
      /\ PoolType # "DYNAMIC_SIZE_NO_QUEUE" /\ MaxQueueSize > 0
            => Len(m_queue') <= MaxQueueSize
  BY <1>1, PoolAssumption DEF WorkAccounted
<1>4. \A i \in 1..Len(m_queue') : m_queue'[i] # w /\ m_queue'[i] \in Work
  <2>1. SUFFICES ASSUME NEW i \in 1..Len(m_queue')
                 PROVE  m_queue'[i] # w /\ m_queue'[i] \in Work
    OBVIOUS
  <2>2. /\ i + 1 \in 1..Len(m_queue) /\ 1 \in 1..Len(m_queue) /\ i + 1 # 1
        /\ m_queue'[i] = m_queue[i + 1]
    BY <1>1, <2>1
  <2>3. m_queue[i + 1] # m_queue[1]
    BY <2>2 DEF WorkAccounted
  <2>4. QED  BY <1>1, <2>2, <2>3 DEF TypeOK
<1>5. \A i \in 1..Len(m_queue') : status'[m_queue'[i]] = "queued"
  <2>1. SUFFICES ASSUME NEW i \in 1..Len(m_queue')
                 PROVE  status'[m_queue'[i]] = "queued"
    OBVIOUS
  <2>2. i + 1 \in 1..Len(m_queue) /\ m_queue'[i] = m_queue[i + 1]
    BY <1>1, <2>1
  <2>3. status[m_queue[i + 1]] = "queued"
    BY <2>2 DEF WorkAccounted
  <2>4. status'[m_queue'[i]] = status[m_queue'[i]]
    <3>1. m_queue'[i] \in Work /\ m_queue'[i] # w
      BY <1>4
    <3>2. status \in [Work -> Statuses]
      BY DEF TypeOK
    <3>3. QED  BY <1>2, <3>1, <3>2
  <2>5. QED  BY <2>2, <2>3, <2>4
<1>6. \A v \in Work : status'[v] = "queued" => \E i \in 1..Len(m_queue') : m_queue'[i] = v
  <2>1. SUFFICES ASSUME NEW v \in Work, status'[v] = "queued"
                 PROVE  \E i \in 1..Len(m_queue') : m_queue'[i] = v
    OBVIOUS
  <2>2. v # w /\ status[v] = "queued"
    BY <1>1, <1>2, <2>1 DEF TypeOK
  <2>3. PICK i \in 1..Len(m_queue) : m_queue[i] = v
    BY <2>2 DEF WorkAccounted
  <2>4. i # 1 /\ i - 1 \in 1..Len(m_queue') /\ m_queue'[i - 1] = v
    BY <1>1, <2>2, <2>3
  <2>5. QED  BY <2>4
<1>7. status[w] = "queued"
  BY <1>1 DEF WorkAccounted
<1>8. /\ \A c \in Offerers' : status'[offer'[c]] = "offered"
      /\ \A c, d \in Offerers' : offer'[c] = offer'[d] => c = d
  <2>1. Offerers' = Offerers /\ offer' = offer
    BY <1>2 DEF Offerers
  <2>2. \A c \in Offerers : status'[offer[c]] = status[offer[c]]
    BY <1>2, <1>7, OffersAreOffered DEF TypeOK
  <2>3. QED  BY <2>1, <2>2, OfferFrame
<1>9. /\ Holders' = Holders \cup {t} /\ t \notin Holders
      /\ job'[t] = w /\ status'[w] = "running"
      /\ \A u \in Holders : job'[u] = job[u] /\ job[u] \in Work /\ job[u] # w
      /\ \A v \in Work \ {w} : status'[v] = status[v]
  <2>1. wpc[t] = "getWork" /\ wpc' = [wpc EXCEPT ![t] = "gotWork"]
    BY DEF TakeWork
  <2>2. Holders' = Holders \cup {t} /\ t \notin Holders
    BY <2>1 DEF TypeOK, Holders
  <2>3. \A u \in Holders : job[u] \in Work /\ job[u] # w
    BY <1>7 DEF TypeOK, Holders, WorkAccounted
  <2>4. QED  BY <1>1, <1>2, <2>2, <2>3 DEF TypeOK, Holders
<1>10. /\ \A u \in Holders' : status'[job'[u]] = "running"
       /\ \A u, v \in Holders' : job'[u] = job'[v] => u = v
       /\ \A v \in Work : status'[v] = "running" => \E u \in Holders' : job'[u] = v
  BY <1>9 DEF WorkAccounted
<1>11. /\ \A v \in Work : status'[v] = "cut" => m_shutdown'
       /\ \A u \in Workers : cancel'[u] # "none" => m_shutdown'
  BY <1>1, <1>2 DEF WorkAccounted, TypeOK
<1>12. QED  BY <1>3, <1>5, <1>6, <1>8, <1>10, <1>11 DEF WorkAccounted

\* The work of a worker ends, one way or the other.
LEMMA EndRunAccounted ==
    ASSUME TypeOK, CallsFitPool, WorkAccounted, NEW t \in Workers,
           FinishRun(t) \/ CancelledInRun(t)
    PROVE  WorkAccounted'
<1> DEFINE w == job[t]
<1>1. t \in Holders /\ w \in Work /\ status[w] = "running"
  BY DEF TypeOK, Holders, WorkAccounted, FinishRun, CancelledInRun
<1>2. PICK end \in {"done", "cut"} : /\ status' = [status EXCEPT ![w] = end]
                                     /\ end = "cut" => m_shutdown
  BY DEF WorkAccounted, FinishRun, CancelledInRun
<1>3. /\ \A v \in Work \ {w} : status'[v] = status[v]
      /\ status'[w] \in {"done", "cut"}
      /\ UNCHANGED <<m_queue, m_shutdown, cpc, offer, cancel>>
  BY <1>1, <1>2 DEF TypeOK, FinishRun, CancelledInRun, queueVars, callVars
<1>4. /\ \A i, j \in 1..Len(m_queue') : m_queue'[i] = m_queue'[j] => i = j
      /\ \A i \in 1..Len(m_queue') : status'[m_queue'[i]] = "queued"
      /\ \A v \in Work : status'[v] = "queued" => \E i \in 1..Len(m_queue') : m_queue'[i] = v
      /\ PoolType # "DYNAMIC_SIZE_NO_QUEUE" /\ MaxQueueSize > 0
            => Len(m_queue') <= MaxQueueSize
  BY <1>1, <1>3, QueueFrame
<1>5. /\ \A c \in Offerers' : status'[offer'[c]] = "offered"
      /\ \A c, d \in Offerers' : offer'[c] = offer'[d] => c = d
  <2>1. Offerers' = Offerers /\ offer' = offer
    BY <1>3 DEF Offerers
  <2>2. \A c \in Offerers : status'[offer[c]] = status[offer[c]]
    BY <1>1, <1>3, OffersAreOffered
  <2>3. QED  BY <2>1, <2>2, OfferFrame
<1>6. /\ Holders' = Holders \ {t}
      /\ \A u \in Holders' : job'[u] = job[u] /\ job[u] \in Work
  <2>1. \E x \in {"getWork", "ranWork", "leaving", "exited"} : wpc' = [wpc EXCEPT ![t] = x]
    BY DEF FinishRun, CancelledInRun
  <2>2. Holders' = Holders \ {t}
    BY <2>1 DEF TypeOK, Holders
  <2>3. job' = job \/ job' = [job EXCEPT ![t] = NoWork]
    BY DEF FinishRun, CancelledInRun
  <2>4. QED  BY <2>2, <2>3 DEF TypeOK, Holders
<1>7. /\ \A u \in Holders' : status'[job'[u]] = "running"
      /\ \A u, v \in Holders' : job'[u] = job'[v] => u = v
      /\ \A v \in Work : status'[v] = "running" => \E u \in Holders' : job'[u] = v
  <2>1. \A u \in Holders' : job[u] # w
    BY <1>1, <1>6 DEF WorkAccounted
  <2>2. \A v \in Work : status'[v] = "running" => v # w /\ status[v] = "running"
    BY <1>3
  <2>3. QED  BY <1>3, <1>6, <2>1, <2>2 DEF WorkAccounted
<1>8. /\ \A v \in Work : status'[v] = "cut" => m_shutdown'
      /\ \A u \in Workers : cancel'[u] # "none" => m_shutdown'
  BY <1>1, <1>2, <1>3 DEF TypeOK, WorkAccounted
<1>9. QED  BY <1>4, <1>5, <1>7, <1>8 DEF WorkAccounted
\* Accepted work goes to the end of a queue that has room.
LEMMA AppendAccounted ==
    ASSUME TypeOK, CallsFitPool, WorkAccounted, NEW c \in Offerers,
           ~QueueIsFull(m_queue, m_workingThreads),
           m_queue' = Append(m_queue, offer[c]),
           status' = [status EXCEPT ![offer[c]] = "queued"],
           Offerers' = Offerers \ {c}, \A d \in Offerers' : offer'[d] = offer[d],
           Holders' = Holders, UNCHANGED <<job, cancel, m_shutdown>>
    PROVE  WorkAccounted'
<1> DEFINE w == offer[c]
<1>1. w \in Work /\ status[w] = "offered" /\ m_queue \in Seq(Work)
  BY OffersAreOffered DEF TypeOK
<1>2. /\ Len(m_queue) \in Nat /\ Len(m_queue') = Len(m_queue) + 1
      /\ \A i \in 1..Len(m_queue) : m_queue'[i] = m_queue[i] /\ m_queue[i] # w
      /\ m_queue'[Len(m_queue) + 1] = w
  BY <1>1 DEF WorkAccounted
<1>3. \A i \in 1..Len(m_queue') : i \in 1..Len(m_queue) \/ i = Len(m_queue) + 1
  BY <1>2
<1>4. \A i, j \in 1..Len(m_queue') : m_queue'[i] = m_queue'[j] => i = j
  BY <1>2, <1>3 DEF WorkAccounted
<1>5. \A i \in 1..Len(m_queue') : status'[m_queue'[i]] = "queued"
  BY <1>1, <1>2, <1>3 DEF WorkAccounted, TypeOK
<1>6. \A v \in Work : status'[v] = "queued" => \E i \in 1..Len(m_queue') : m_queue'[i] = v
  <2>1. SUFFICES ASSUME NEW v \in Work, status'[v] = "queued"
                 PROVE  \E i \in 1..Len(m_queue') : m_queue'[i] = v
    OBVIOUS
  <2>2. CASE v = w
    BY <1>2, <2>2
  <2>3. CASE v # w
    <3>1. PICK i \in 1..Len(m_queue) : m_queue[i] = v
      BY <1>1, <2>1, <2>3 DEF WorkAccounted, TypeOK
    <3>2. i \in 1..Len(m_queue') /\ m_queue'[i] = v
      BY <1>2, <3>1
    <3>3. QED  BY <3>2
  <2>4. QED  BY <2>2, <2>3
<1>7. PoolType # "DYNAMIC_SIZE_NO_QUEUE" /\ MaxQueueSize > 0 => Len(m_queue') <= MaxQueueSize
  BY <1>2, PoolAssumption DEF WorkAccounted, QueueIsFull
<1>8. /\ \A d \in Offerers' : status'[offer'[d]] = "offered"
      /\ \A d, e \in Offerers' : offer'[d] = offer'[e] => d = e
  <2>1. \A d \in Offerers' : offer[d] # w /\ offer[d] \in Work
    BY OffersAreOffered DEF WorkAccounted
  <2>2. \A d \in Offerers' : status'[offer[d]] = status[offer[d]]
    BY <2>1 DEF TypeOK
  <2>3. QED  BY <2>2, OfferFrame
<1>9. /\ \A t \in Holders' : status'[job'[t]] = "running"
      /\ \A t, u \in Holders' : job'[t] = job'[u] => t = u
      /\ \A v \in Work : status'[v] = "running" => \E t \in Holders' : job'[t] = v
  <2>1. \A v \in Work : status[v] = "running" <=> status'[v] = "running"
    BY <1>1 DEF TypeOK
  <2>2. QED  BY <2>1, HolderFrame
<1>10. /\ \A v \in Work : status'[v] = "cut" => m_shutdown'
       /\ \A u \in Workers : cancel'[u] # "none" => m_shutdown'
  BY <1>1 DEF WorkAccounted, TypeOK
<1>11. QED  BY <1>4, <1>5, <1>6, <1>7, <1>8, <1>9, <1>10 DEF WorkAccounted

\* Refused work is nowhere.
LEMMA RefusedAccounted ==
    ASSUME TypeOK, CallsFitPool, WorkAccounted, NEW c \in Offerers,
           status' = [status EXCEPT ![offer[c]] = "refused"], Return(c),
           UNCHANGED <<queueVars, workerVars>>
    PROVE  WorkAccounted'
<1> DEFINE w == offer[c]
<1>1. w \in Work /\ status[w] = "offered"
  BY OffersAreOffered
<1>2. /\ UNCHANGED <<m_queue, m_shutdown, job, wpc, cancel>>
      /\ \A v \in Work \ {w} : status'[v] = status[v]
      /\ status'[w] = "refused"
  BY <1>1 DEF TypeOK, queueVars, workerVars
<1>3. /\ \A i, j \in 1..Len(m_queue') : m_queue'[i] = m_queue'[j] => i = j
      /\ \A i \in 1..Len(m_queue') : status'[m_queue'[i]] = "queued"
      /\ \A v \in Work : status'[v] = "queued" => \E i \in 1..Len(m_queue') : m_queue'[i] = v
      /\ PoolType # "DYNAMIC_SIZE_NO_QUEUE" /\ MaxQueueSize > 0
            => Len(m_queue') <= MaxQueueSize
  BY <1>1, <1>2, QueueFrame
<1>4. /\ \A d \in Offerers' : status'[offer'[d]] = "offered"
      /\ \A d, e \in Offerers' : offer'[d] = offer'[e] => d = e
  <2>1. \A d \in Offerers' : d \in Offerers /\ d # c /\ offer'[d] = offer[d]
    BY DEF TypeOK, Offerers, Return
  <2>2. \A d \in Offerers' : offer[d] \in Work \ {w}
    BY <2>1, OffersAreOffered DEF WorkAccounted
  <2>3. QED  BY <1>2, <2>1, <2>2, OfferFrame
<1>5. /\ \A t \in Holders' : status'[job'[t]] = "running"
      /\ \A t, u \in Holders' : job'[t] = job'[u] => t = u
      /\ \A v \in Work : status'[v] = "running" => \E t \in Holders' : job'[t] = v
  <2>1. Holders' = Holders
    BY <1>2 DEF Holders
  <2>2. QED  BY <1>1, <1>2, <2>1, HolderFrame
<1>6. /\ \A v \in Work : status'[v] = "cut" => m_shutdown'
      /\ \A u \in Workers : cancel'[u] # "none" => m_shutdown'
  BY <1>1, <1>2 DEF WorkAccounted, TypeOK
<1>7. QED  BY <1>3, <1>4, <1>5, <1>6 DEF WorkAccounted

\* The work whose addWork() gives up is refused.
LEMMA AddWorkTimesOutAccounted ==
    ASSUME TypeOK, CallsFitPool, WorkAccounted, NEW c \in Clients, AddWorkTimesOut(c)
    PROVE  WorkAccounted'
  BY RefusedAccounted DEF AddWorkTimesOut, Offerers

\* A Runnable is offered by one client only.
LEMMA CallAddWorkAccounted ==
    ASSUME TypeOK, CallsFitPool, WorkAccounted, NEW c \in Clients, NEW w \in Work,
           NEW limit \in Timers, CallAddWork(c, w, limit)
    PROVE  WorkAccounted'
<1>1. /\ status[w] = "new" /\ status' = [status EXCEPT ![w] = "offered"]
      /\ cpc' = [cpc EXCEPT ![c] = "add"] /\ offer' = [offer EXCEPT ![c] = w]
      /\ UNCHANGED <<m_queue, job, wpc, cancel, m_shutdown>>
  BY DEF CallAddWork, queueVars, workerVars
<1>2. /\ status'[w] = "offered"
      /\ \A v \in Work \ {w} : status'[v] = status[v]
  BY <1>1 DEF TypeOK
<1>3. /\ \A i, j \in 1..Len(m_queue') : m_queue'[i] = m_queue'[j] => i = j
      /\ \A i \in 1..Len(m_queue') : status'[m_queue'[i]] = "queued"
      /\ \A v \in Work : status'[v] = "queued" => \E i \in 1..Len(m_queue') : m_queue'[i] = v
      /\ PoolType # "DYNAMIC_SIZE_NO_QUEUE" /\ MaxQueueSize > 0
            => Len(m_queue') <= MaxQueueSize
  BY <1>1, <1>2, QueueFrame
<1>4. /\ \A d \in Offerers' : status'[offer'[d]] = "offered"
      /\ \A d, e \in Offerers' : offer'[d] = offer'[e] => d = e
  <2>1. offer'[c] = w /\ \A d \in Offerers' \ {c} : d \in Offerers /\ offer'[d] = offer[d]
    BY <1>1 DEF TypeOK, Offerers
  <2>2. \A d \in Offerers' \ {c} : offer'[d] \in Work /\ offer'[d] # w
    BY <1>1, <2>1, OffersAreOffered
  <2>3. QED  BY <1>2, <2>1, <2>2 DEF WorkAccounted
<1>5. /\ \A t \in Holders' : status'[job'[t]] = "running"
      /\ \A t, u \in Holders' : job'[t] = job'[u] => t = u
      /\ \A v \in Work : status'[v] = "running" => \E t \in Holders' : job'[t] = v
  <2>1. Holders' = Holders
    BY <1>1 DEF Holders
  <2>2. QED  BY <1>1, <1>2, <2>1, HolderFrame
<1>6. /\ \A v \in Work : status'[v] = "cut" => m_shutdown'
      /\ \A u \in Workers : cancel'[u] # "none" => m_shutdown'
  BY <1>1, <1>2 DEF WorkAccounted, TypeOK
<1>7. QED  BY <1>3, <1>4, <1>5, <1>6 DEF WorkAccounted

\* Workers move work only when they take it or end it.
LEMMA WorkerStepAccounted ==
    ASSUME TypeOK, CallsFitPool, WorkAccounted, NEW t \in Workers, WorkerStep(t)
    PROVE  WorkAccounted'
<1>1. CASE SleepForWork(t) \/ QuitOnShutdown(t) \/ BeginRun(t) \/ ExitThread(t)
  <2>1. UNCHANGED <<m_queue, m_shutdown, status, job, cancel, cpc, offer>>
    BY <1>1 DEF SleepForWork, QuitOnShutdown, BeginRun, ExitThread, queueVars, workerVars,
       callVars
  <2>2. Offerers' = Offerers /\ Holders' = Holders
    BY <1>1, <2>1 DEF SleepForWork, QuitOnShutdown, BeginRun, ExitThread, workerVars, TypeOK,
       Holders, Offerers
  <2>3. QED  BY <2>1, <2>2, AccountFrame
<1>2. CASE TakeWork(t)
  BY <1>2, TakeWorkAccounted
<1>3. CASE FinishRun(t) \/ CancelledInRun(t)
  BY <1>3, EndRunAccounted
<1>4. QED  BY <1>1, <1>2, <1>3 DEF WorkerStep
\* The steps of shutdown() leave the work where it is, and cancel after it has stopped
\* the pool.
LEMMA ShutdownStepAccounted ==
    ASSUME TypeOK, CallsFitPool, WorkAccounted, NEW c \in Clients, ShutdownStep(c)
    PROVE  WorkAccounted'
<1>1. /\ UNCHANGED <<m_queue, status, job, wpc>>
      /\ m_shutdown => m_shutdown'
      /\ \A d \in Offerers' : d \in Offerers /\ offer'[d] = offer[d]
  <2>1. CASE CloseQueue(c)
    BY <2>1 DEF CloseQueue, Return, TypeOK, queueVars, workerVars, callVars, QueueClosed,
       Offerers
  <2>2. CASE DrainQueue(c) \/ DrainTimesOut(c)
    BY <2>2 DEF DrainQueue, DrainTimesOut, TypeOK, workerVars, callVars, Offerers
  <2>3. CASE NotifyWorkers(c) \/ NotifyAdders(c)
    BY <2>3 DEF NotifyWorkers, NotifyAdders, TypeOK, queueVars, workerVars, callVars, Offerers
  <2>4. CASE EndLoop(c)
    BY <2>4 DEF EndLoop, Return, TypeOK, queueVars, workerVars, callVars, Offerers
  <2>5. ASSUME NEW t \in Workers, CooperativeCancel(c, t)
        PROVE  /\ UNCHANGED <<m_queue, m_shutdown, status, job, wpc>>
               /\ \A d \in Offerers' : d \in Offerers /\ offer'[d] = offer[d]
    BY <2>5 DEF CooperativeCancel, Return, TypeOK, queueVars, callVars, Offerers
  <2>6. ASSUME NEW t \in Workers, DefinitiveCancel(c, t) \/ JoinThread(c, t)
        PROVE  /\ UNCHANGED <<m_queue, m_shutdown, status, job, wpc>>
               /\ \A d \in Offerers' : d \in Offerers /\ offer'[d] = offer[d]
    BY <2>6 DEF DefinitiveCancel, JoinThread, queueVars, workerVars, callVars, Offerers
  <2>7. QED  BY <2>1, <2>2, <2>3, <2>4, <2>5, <2>6 DEF ShutdownStep
<1>2. \A t \in Workers : cancel'[t] = cancel[t] \/ m_shutdown'
  <2>1. CASE cpc[c] \in {"coop", "kill"}
    BY <1>1, <2>1 DEF CallsFitPool, CloserPcs
  <2>2. CASE cpc[c] \notin {"coop", "kill"}
    BY <2>2 DEF ShutdownStep, CloseQueue, DrainQueue, DrainTimesOut, NotifyWorkers,
       NotifyAdders, EndLoop, CooperativeCancel, DefinitiveCancel, JoinThread, workerVars
  <2>3. QED  BY <2>1, <2>2
<1>3. QED  BY <1>1, <1>2, AccountFrame DEF Holders

\* Calls that bring no work, the destructor, and wakeups.
LEMMA OtherStepAccounted ==
    ASSUME TypeOK, WorkAccounted,
           \/ \E c \in Clients : \/ WaitForEmptyQueue(c) \/ CallWaitForEmptyQueue(c)
                                 \/ \E f \in BOOLEAN, limit \in CallTimers :
                                       CallShutdown(c, f, limit)
           \/ Destroy
           \/ \E x \in Workers \cup Clients : SpuriousWakeup(x)
           \/ UNCHANGED poolVars
    PROVE  WorkAccounted'
<1>1. UNCHANGED <<m_queue, m_shutdown, status, job, wpc, cancel>>
  BY DEF WaitForEmptyQueue, CallWaitForEmptyQueue, CallShutdown, Destroy, SpuriousWakeup,
     poolVars, queueVars, workerVars
<1>2. \A d \in Offerers' : d \in Offerers /\ offer'[d] = offer[d]
  <2>1. CASE \/ \E c \in Clients : \/ CallWaitForEmptyQueue(c)
                                   \/ \E f \in BOOLEAN, limit \in CallTimers :
                                         CallShutdown(c, f, limit)
             \/ Destroy
             \/ \E x \in Workers \cup Clients : SpuriousWakeup(x)
             \/ UNCHANGED poolVars
    BY <2>1 DEF CallWaitForEmptyQueue, CallShutdown, Destroy, SpuriousWakeup, poolVars,
       callVars, TypeOK, Offerers
  <2>2. ASSUME NEW c \in Clients, WaitForEmptyQueue(c)
        PROVE  \A d \in Offerers' : d \in Offerers /\ offer'[d] = offer[d]
    BY <2>2 DEF WaitForEmptyQueue, Return, callVars, TypeOK, Offerers
  <2>3. QED  BY <2>1, <2>2
<1>3. QED  BY <1>1, <1>2, AccountFrame DEF Holders

(***************************************************************************)
(* The pool implements PoolService: each action is a step or a stutter     *)
(***************************************************************************)
\* While a worker is free, fewer Runnables run than there are workers.
LEMMA FreeWorkerMeansRoom ==
    ASSUME TypeOK, WorkAccounted, NEW t \in Workers, t \notin Holders
    PROVE  Cardinality({w \in Work : status[w] = "running"}) < Cardinality(Workers)
<1> DEFINE Taken == {w \in Work : status[w] = "running"}
           holds == [u \in Holders |-> job[u]]
<1>1. IsFiniteSet(Workers)
  BY PoolAssumption
<1>2. /\ IsFiniteSet(Workers \ {t})
      /\ Cardinality(Workers \ {t}) = Cardinality(Workers) - 1
      /\ Cardinality(Workers) \in Nat
  BY <1>1, FS_RemoveElement, FS_CardinalityType
<1>3. Holders \in SUBSET (Workers \ {t})
  BY DEF Holders
<1>4. IsFiniteSet(Holders) /\ Cardinality(Holders) <= Cardinality(Workers \ {t})
  BY <1>2, <1>3, FS_Subset
<1>5. holds \in Surjection(Holders, Taken)
  <2>1. holds \in [Holders -> Taken]
    <3>1. \A u \in Holders : job[u] \in Work /\ status[job[u]] = "running"
      BY DEF TypeOK, WorkAccounted, Holders
    <3>2. QED  BY <3>1
  <2>2. \A w \in Taken : \E u \in Holders : holds[u] = w
    BY DEF WorkAccounted
  <2>3. QED  BY <2>1, <2>2 DEF Surjection
<1>6. IsFiniteSet(Taken) /\ Cardinality(Taken) <= Cardinality(Holders)
  BY <1>4, <1>5, FS_Surjection
<1>7. Cardinality(Taken) \in Nat /\ Cardinality(Holders) \in Nat
  BY <1>4, <1>6, FS_CardinalityType
<1> HIDE DEF Taken
<1>8. Cardinality(Taken) < Cardinality(Workers)
  BY <1>2, <1>4, <1>6, <1>7
<1>9. QED  BY <1>8 DEF Taken

\* Steps that change no variable of the service: an offer is none of its business yet.
LEMMA ServiceStutters ==
    ASSUME TypeOK, UNCHANGED queueVars,
           \A w \in Work : \/ status'[w] = status[w]
                           \/ {status[w], status'[w]} \subseteq {"new", "offered"}
    PROVE  UNCHANGED Service!serviceVars
  BY DEF Service!serviceVars, queueVars

\* A worker that takes work starts it: the oldest, and there is a worker for it.
LEMMA TakeWorkStarts ==
    ASSUME TypeOK, WorkAccounted, NEW t \in Workers, TakeWork(t)
    PROVE  Service!Start
<1>1. m_queue # <<>> /\ ~m_shutdown /\ Head(m_queue) \in Work /\ t \notin Holders
  BY DEF TypeOK, TakeWork, Holders
<1>2. Cardinality(Service!Running) < Cardinality(Workers)
  <2>1. Service!Running = {w \in Work : status[w] = "running"}
    BY DEF Service!Running
  <2>2. QED  BY <1>1, <2>1, FreeWorkerMeansRoom
<1>3. [w \in Work |-> IF status'[w] = "offered" THEN "new" ELSE status'[w]]
        = [[w \in Work |-> IF status[w] = "offered" THEN "new" ELSE status[w]]
             EXCEPT ![Head(m_queue)] = "running"]
  BY <1>1 DEF TypeOK, TakeWork
<1>4. Service!Cardinality(Service!Running) < Cardinality(Workers)
  BY <1>2 DEF Cardinality, Service!Cardinality
<1>5. m_queue' = Tail(m_queue) /\ UNCHANGED <<m_queueClosed, m_shutdown>>
  BY DEF TakeWork
<1>6. QED  BY <1>1, <1>3, <1>4, <1>5 DEF Service!Start

\* The end of a run, and a cut only in a pool that is stopped.
LEMMA EndRunEnds ==
    ASSUME TypeOK, WorkAccounted, NEW t \in Workers, FinishRun(t) \/ CancelledInRun(t)
    PROVE  \E w \in Work : Service!EndWork(w)
<1>1. PICK v \in Work : job[t] = v /\ status[v] = "running" /\ UNCHANGED queueVars
  BY DEF TypeOK, WorkAccounted, Holders, FinishRun, CancelledInRun
<1>2. CASE FinishRun(t)
  <2>1. [w \in Work |-> IF status'[w] = "offered" THEN "new" ELSE status'[w]]
          = [[w \in Work |-> IF status[w] = "offered" THEN "new" ELSE status[w]]
               EXCEPT ![v] = "done"]
    BY <1>1, <1>2 DEF TypeOK, FinishRun
  <2>2. QED  BY <1>1, <2>1 DEF Service!EndWork, Service!Finish, queueVars
<1>3. CASE CancelledInRun(t)
  <2>1. [w \in Work |-> IF status'[w] = "offered" THEN "new" ELSE status'[w]]
          = [[w \in Work |-> IF status[w] = "offered" THEN "new" ELSE status[w]]
               EXCEPT ![v] = "cut"]
    BY <1>1, <1>3 DEF TypeOK, CancelledInRun
  <2>2. m_shutdown
    BY <1>3 DEF CancelledInRun, WorkAccounted
  <2>3. QED  BY <1>1, <2>1, <2>2 DEF Service!EndWork, Service!Cut, queueVars
<1>4. QED  BY <1>2, <1>3

\* A push to a queue that has room and is open is an acceptance.
LEMMA AppendAccepts ==
    ASSUME TypeOK, CallsFitPool, WorkAccounted, NEW c \in Offerers,
           ~QueueIsFull(m_queue, m_workingThreads), ~QueueClosed,
           m_queue' = Append(m_queue, offer[c]),
           status' = [status EXCEPT ![offer[c]] = "queued"],
           UNCHANGED <<m_queueClosed, m_shutdown>>
    PROVE  \E w \in Work : Service!Accept(w)
<1>1. PICK v \in Work : offer[c] = v /\ status[v] = "offered"
  BY OffersAreOffered
<1>2. [w \in Work |-> IF status'[w] = "offered" THEN "new" ELSE status'[w]]
        = [[w \in Work |-> IF status[w] = "offered" THEN "new" ELSE status[w]]
             EXCEPT ![v] = "queued"]
  BY <1>1 DEF TypeOK
<1>3. CASE PoolType = "DYNAMIC_SIZE_NO_QUEUE"
  <2>1. Len(m_queue) < Cardinality(Workers)
    <3>1. Cardinality(Workers) \in Nat
      BY PoolAssumption, FS_CardinalityType
    <3>2. ~(Cardinality(Workers) <= Len(m_queue) + m_workingThreads)
      BY <1>3 DEF QueueIsFull
    <3>3. Len(m_queue) \in Nat /\ m_workingThreads \in Nat
      BY DEF TypeOK
    <3>4. QED  BY <3>1, <3>2, <3>3
  <2>2. QED  BY <1>1, <1>2, <1>3, <2>1 DEF Service!Accept, QueueClosed
<1>4. CASE PoolType # "DYNAMIC_SIZE_NO_QUEUE"
  <2>1. MaxQueueSize > 0 => Len(m_queue) < MaxQueueSize
    BY <1>4, PoolAssumption DEF TypeOK, WorkAccounted, QueueIsFull
  <2>2. QED  BY <1>1, <1>2, <1>4, <2>1 DEF Service!Accept, QueueClosed
<1>5. QED  BY <1>3, <1>4

\* addWork() that returns false refuses.
LEMMA RefusalRefuses ==
    ASSUME TypeOK, CallsFitPool, WorkAccounted, NEW c \in Offerers,
           status' = [status EXCEPT ![offer[c]] = "refused"], UNCHANGED queueVars
    PROVE  \E w \in Work : Service!Refuse(w)
<1>1. PICK v \in Work : offer[c] = v /\ status[v] = "offered"
  BY OffersAreOffered
<1>2. [w \in Work |-> IF status'[w] = "offered" THEN "new" ELSE status'[w]]
        = [[w \in Work |-> IF status[w] = "offered" THEN "new" ELSE status[w]]
             EXCEPT ![v] = "refused"]
  BY <1>1 DEF TypeOK
<1>3. QED  BY <1>1, <1>2 DEF Service!Refuse, queueVars

\* The only steps of a shutdown the service sees are the close and the stop.
LEMMA ShutdownClosesOrStops ==
    ASSUME TypeOK, CallsFitPool, NEW c \in Clients, ShutdownStep(c)
    PROVE  Service!Close \/ Service!Stop \/ UNCHANGED Service!serviceVars
<1>1. status' = status
  BY DEF ShutdownStep, CloseQueue, DrainQueue, DrainTimesOut, NotifyWorkers, NotifyAdders,
     EndLoop, CooperativeCancel, DefinitiveCancel, JoinThread
<1>2. CASE UNCHANGED queueVars
  BY <1>1, <1>2, ServiceStutters
<1>3. CASE CloseQueue(c) /\ ~QueueClosed
  <2>1. m_queue' = m_queue /\ ~m_queueClosed /\ m_queueClosed' /\ m_shutdown' \in BOOLEAN
    BY <1>3 DEF CloseQueue, QueueClosed, TypeOK
  <2>2. QED  BY <1>1, <2>1 DEF Service!Close
<1>4. CASE DrainQueue(c) \/ DrainTimesOut(c)
  <2>1. /\ UNCHANGED <<m_queue, m_queueClosed>> /\ m_queueClosed
        /\ m_shutdown' = TRUE \/ m_shutdown' = m_shutdown
    BY <1>4 DEF DrainQueue, DrainTimesOut, CallsFitPool, CloserPcs
  <2>2. CASE m_shutdown' = m_shutdown
    BY <1>1, <2>1, <2>2, ServiceStutters DEF queueVars
  <2>3. CASE m_shutdown' = TRUE /\ ~m_shutdown
    BY <1>1, <2>1, <2>3 DEF Service!Stop
  <2>4. m_shutdown \in BOOLEAN
    BY DEF TypeOK
  <2>5. QED  BY <2>1, <2>2, <2>3, <2>4
<1>5. CASE CloseQueue(c) /\ QueueClosed
  <2>1. UNCHANGED queueVars
    BY <1>5 DEF CloseQueue
  <2>2. QED  BY <1>2, <2>1
<1>6. CASE \/ NotifyWorkers(c) \/ NotifyAdders(c) \/ EndLoop(c)
           \/ \E t \in Workers :
                 CooperativeCancel(c, t) \/ DefinitiveCancel(c, t) \/ JoinThread(c, t)
  <2>1. UNCHANGED queueVars
    BY <1>6 DEF NotifyWorkers, NotifyAdders, EndLoop, CooperativeCancel, DefinitiveCancel,
       JoinThread
  <2>2. QED  BY <1>2, <2>1
<1>7. QED  BY <1>3, <1>4, <1>5, <1>6 DEF ShutdownStep

\* What the service sees of a worker.
LEMMA WorkerStepServes ==
    ASSUME TypeOK, WorkAccounted, NEW t \in Workers, WorkerStep(t)
    PROVE  [Service!ServiceNext]_(Service!serviceVars)
<1>1. CASE SleepForWork(t) \/ QuitOnShutdown(t) \/ BeginRun(t) \/ ExitThread(t)
  <2>1. UNCHANGED queueVars /\ status' = status
    BY <1>1 DEF SleepForWork, QuitOnShutdown, BeginRun, ExitThread
  <2>2. QED  BY <2>1, ServiceStutters
<1>2. CASE TakeWork(t)
  BY <1>2, TakeWorkStarts DEF Service!ServiceNext
<1>3. CASE FinishRun(t) \/ CancelledInRun(t)
  BY <1>3, EndRunEnds DEF Service!ServiceNext
<1>4. QED  BY <1>1, <1>2, <1>3 DEF WorkerStep

\* What it sees of a call that begins: nothing.
LEMMA CallServes ==
    ASSUME TypeOK, NEW c \in Clients,
           \/ \E w \in Work, limit \in CallTimers : CallAddWork(c, w, limit)
           \/ CallWaitForEmptyQueue(c)
           \/ \E f \in BOOLEAN, limit \in CallTimers : CallShutdown(c, f, limit)
    PROVE  UNCHANGED Service!serviceVars
<1>1. /\ UNCHANGED queueVars
      /\ \A v \in Work : \/ status'[v] = status[v]
                         \/ status[v] = "new" /\ status'[v] = "offered"
  BY DEF CallAddWork, CallWaitForEmptyQueue, CallShutdown, TypeOK
<1>2. QED  BY <1>1, ServiceStutters
(***************************************************************************)
(* Finishing means finished: each action preserves CloserKeepsWord         *)
(***************************************************************************)
\* An action outside the shutdown: no client comes to close the queue, nobody is cancelled,
\* no work is added behind the back of a client that closed the queue, no thread is
\* revived.
LEMMA CloserFrame ==
    ASSUME TypeOK, CloserKeepsWord,
           cancel' = cancel, m_threads' = m_threads, seen' = seen,
           \A c \in Clients : cpc'[c] \in CloserPcs
              => cpc'[c] = cpc[c] /\ timer'[c] = timer[c] /\ finish'[c] = finish[c],
           m_queue = <<>> => m_queue' = <<>>,
           \A w \in Work : status'[w] = "cut" => status[w] = "cut",
           \A t \in Workers : /\ wpc[t] = "exited" => wpc'[t] = "exited"
                              /\ wpc'[t] # "unstarted" => wpc[t] # "unstarted"
    PROVE  CloserKeepsWord'
<1>1. \A c \in Clients : cpc'[c] \in {"coop", "kill", "join"} => cpc'[c] \in CloserPcs
  BY DEF CloserPcs
<1>2. /\ \A c, d \in Clients : cpc'[c] \in CloserPcs /\ cpc'[d] \in CloserPcs => c = d
      /\ \A c \in Clients : cpc'[c] \in {"coop", "kill"} => timer'[c] # "infinite"
  BY <1>1 DEF CloserKeepsWord
<1>3. \A c \in Clients : cpc'[c] \in CloserPcs /\ timer'[c] = "infinite"
         => /\ \A t \in Workers : cancel'[t] = "none"
            /\ \A w \in Work : status'[w] # "cut"
            /\ finish'[c] /\ cpc'[c] # "drain" => m_queue' = <<>>
  BY DEF CloserKeepsWord
<1>4. \A c \in Clients : cpc'[c] = "join" => \A t \in seen' : wpc'[t] = "exited"
  BY <1>1 DEF CloserKeepsWord, TypeOK
<1>5. \A t \in Workers : wpc'[t] # "unstarted" => t \in m_threads'
  BY DEF CloserKeepsWord
<1>6. QED  BY <1>2, <1>3, <1>4, <1>5 DEF CloserKeepsWord

\* While nobody closes the queue there is no word to keep.
LEMMA OpenKeepsWord ==
    ASSUME \A c \in Clients : cpc'[c] \notin CloserPcs,
           \A t \in Workers : wpc'[t] # "unstarted" => t \in m_threads'
    PROVE  CloserKeepsWord'
<1>1. \A c \in Clients : cpc'[c] \notin {"coop", "kill", "join"}
  BY DEF CloserPcs
<1>2. QED  BY <1>1 DEF CloserKeepsWord

\* Work is cut only for who has a limit to its patience.
LEMMA WorkerStepKeepsWord ==
    ASSUME TypeOK, CloserKeepsWord, NEW t \in Workers, WorkerStep(t)
    PROVE  CloserKeepsWord'
<1>1. CASE CancelledInRun(t)
  <2>1. \A c \in Clients : ~(cpc[c] \in CloserPcs /\ timer[c] = "infinite")
    BY <1>1 DEF CancelledInRun, CloserKeepsWord
  <2>2. /\ UNCHANGED <<m_queue, m_threads, cancel, cpc, callVars, seen>>
        /\ \A u \in Workers : /\ wpc[u] = "exited" => wpc'[u] = "exited"
                              /\ wpc'[u] # "unstarted" => wpc[u] # "unstarted"
    BY <1>1 DEF CancelledInRun, TypeOK, queueVars, threadVars
  <2>3. \A c \in Clients : cpc'[c] = "join" => \A u \in seen' : wpc'[u] = "exited"
    BY <2>2 DEF CloserKeepsWord, TypeOK
  <2>4. QED  BY <2>1, <2>2, <2>3 DEF CloserKeepsWord, callVars
<1>2. CASE ~CancelledInRun(t)
  <2>1. UNCHANGED <<m_threads, cancel, cpc, callVars, seen>>
    BY <1>1, <1>2 DEF WorkerStep, SleepForWork, QuitOnShutdown, TakeWork, BeginRun, FinishRun,
       ExitThread, threadVars, workerVars
  <2>2. m_queue = <<>> => m_queue' = <<>>
    BY <1>2 DEF WorkerStep, SleepForWork, QuitOnShutdown, TakeWork, BeginRun, FinishRun,
       ExitThread, queueVars
  <2>3. \A u \in Workers : /\ wpc[u] = "exited" => wpc'[u] = "exited"
                           /\ wpc'[u] # "unstarted" => wpc[u] # "unstarted"
    BY <1>2 DEF WorkerStep, SleepForWork, QuitOnShutdown, TakeWork, BeginRun, FinishRun,
       ExitThread, workerVars, TypeOK
  <2>4. \A w \in Work : status'[w] = "cut" => status[w] = "cut"
    BY <1>2 DEF WorkerStep, SleepForWork, QuitOnShutdown, TakeWork, BeginRun, FinishRun,
       ExitThread, TypeOK
  <2>5. QED  BY <2>1, <2>2, <2>3, <2>4, CloserFrame DEF callVars
<1>3. QED  BY <1>1, <1>2

\* Before the queue is closed nobody has been cancelled; who drains it without
\* a limit stops the pool when it is empty.
LEMMA CloseQueueKeepsWord ==
    ASSUME TypeOK, CallsFitPool, WorkAccounted, CloserKeepsWord, NEW c \in Clients,
           CloseQueue(c)
    PROVE  CloserKeepsWord'
<1>1. CASE QueueClosed
  <2>1. /\ UNCHANGED <<m_queue, m_threads, wpc, cancel, seen, status>>
        /\ cpc'[c] = "idle"
        /\ \A d \in Clients \ {c} :
              cpc'[d] = cpc[d] /\ timer'[d] = timer[d] /\ finish'[d] = finish[d]
    BY <1>1 DEF CloseQueue, Return, TypeOK, queueVars, workerVars
  <2>2. QED  BY <2>1, CloserFrame DEF CloserPcs
<1>2. CASE ~QueueClosed
  <2>1. \A d \in Clients : cpc[d] \notin CloserPcs
    BY <1>2 DEF QueueClosed, CallsFitPool
  <2>2. /\ \A t \in Workers : cancel[t] = "none"
        /\ \A w \in Work : status[w] # "cut"
    BY <1>2 DEF QueueClosed, WorkAccounted
  <2>3. /\ UNCHANGED <<m_queue, m_threads, wpc, cancel, seen, status, timer, finish>>
        /\ cpc'[c] \in {"drain", "notifyWorkers"}
        /\ finish[c] /\ cpc'[c] # "drain" => m_queue = <<>>
        /\ \A d \in Clients \ {c} : cpc'[d] = cpc[d]
    BY <1>2 DEF CloseQueue, TypeOK, workerVars, callVars
  <2>4. /\ \A d \in Clients : cpc'[d] \in CloserPcs => d = c
        /\ \A d \in Clients : cpc'[d] \notin {"coop", "kill", "join"}
    BY <2>1, <2>3 DEF CloserPcs
  <2>5. QED  BY <2>2, <2>3, <2>4 DEF CloserKeepsWord
<1>3. QED  BY <1>1, <1>2

\* The drain ends with an empty queue, or for who has a limit to its patience.
LEMMA DrainKeepsWord ==
    ASSUME TypeOK, CloserKeepsWord, NEW c \in Clients, DrainQueue(c) \/ DrainTimesOut(c)
    PROVE  CloserKeepsWord'
<1>1. /\ UNCHANGED <<m_queue, m_threads, wpc, cancel, seen, status, timer, finish>>
      /\ cpc[c] = "drain" /\ cpc'[c] \in {"drain", "notifyWorkers"}
      /\ timer[c] = "infinite" /\ cpc'[c] # "drain" => m_queue = <<>>
      /\ \A d \in Clients \ {c} : cpc'[d] = cpc[d]
  BY DEF DrainQueue, DrainTimesOut, TypeOK, threadVars, workerVars, callVars
<1>2. \A d \in Clients : cpc'[d] \in CloserPcs => cpc[d] \in CloserPcs
  BY <1>1 DEF CloserPcs
<1>3. \A d \in Clients : cpc'[d] \in {"coop", "kill", "join"} => cpc[d] = cpc'[d]
  BY <1>1
<1>4. QED  BY <1>1, <1>2, <1>3 DEF CloserKeepsWord

\* The notifications decide whether anybody will be cancelled.
LEMMA NotifyKeepsWord ==
    ASSUME TypeOK, CloserKeepsWord, NEW c \in Clients, NotifyWorkers(c) \/ NotifyAdders(c)
    PROVE  CloserKeepsWord'
<1>1. /\ UNCHANGED <<m_queue, m_threads, wpc, cancel, status, timer, finish>>
      /\ cpc[c] \in {"notifyWorkers", "notifyAdders"}
      /\ cpc'[c] \in {"notifyAdders", "coop", "join"}
      /\ cpc'[c] = "coop" => timer[c] # "infinite"
      /\ \A d \in Clients \ {c} : cpc'[d] = cpc[d]
  BY DEF NotifyWorkers, NotifyAdders, TypeOK, queueVars, threadVars, workerVars, callVars
<1>2. \A d \in Clients : cpc'[d] \in CloserPcs => cpc[d] \in CloserPcs
  BY <1>1 DEF CloserPcs
<1>3. \A d \in Clients \ {c} : cpc'[d] \notin {"coop", "kill", "join"}
  BY <1>1 DEF CloserKeepsWord, CloserPcs
<1>4. cpc'[c] = "join" => seen' = {}
  BY DEF NotifyWorkers, NotifyAdders, TypeOK
<1>5. QED  BY <1>1, <1>2, <1>3, <1>4 DEF CloserKeepsWord, CloserPcs

\* The loops over m_threads.
LEMMA LoopKeepsWord ==
    ASSUME TypeOK, CloserKeepsWord, NEW c \in Clients,
           \/ EndLoop(c)
           \/ \E t \in Workers :
                 CooperativeCancel(c, t) \/ DefinitiveCancel(c, t) \/ JoinThread(c, t)
    PROVE  CloserKeepsWord'
<1>1. /\ UNCHANGED <<m_queue, m_threads, wpc, status>>
      /\ cpc[c] \in {"coop", "kill", "join"}
      /\ cpc'[c] = "idle" \/ /\ cpc'[c] \in {"coop", "kill", "join"}
                             /\ timer'[c] = timer[c] /\ finish'[c] = finish[c]
      /\ cpc'[c] \in {"coop", "kill"} => cpc[c] \in {"coop", "kill"}
      /\ \A d \in Clients \ {c} :
            cpc'[d] = cpc[d] /\ timer'[d] = timer[d] /\ finish'[d] = finish[d]
  BY DEF EndLoop, CooperativeCancel, DefinitiveCancel, JoinThread, Return, TypeOK, queueVars,
     threadVars, workerVars, callVars
<1>2. cpc[c] = "join" => cancel' = cancel
  BY DEF EndLoop, CooperativeCancel, DefinitiveCancel, JoinThread, workerVars
<1>3. \A d \in Clients : cpc'[d] \in CloserPcs => d = c
  BY <1>1 DEF CloserKeepsWord, CloserPcs
<1>4. cpc'[c] = "join" => \A t \in seen' : wpc'[t] = "exited"
  BY <1>1 DEF EndLoop, CooperativeCancel, DefinitiveCancel, JoinThread, Return, CloserKeepsWord,
     TypeOK
<1>5. \A d \in Clients : cpc'[d] \in {"coop", "kill", "join"} => d = c
  BY <1>3 DEF CloserPcs
<1>6. \A d \in Clients : cpc'[d] \in CloserPcs /\ timer'[d] = "infinite"
         => /\ \A t \in Workers : cancel'[t] = "none"
            /\ \A w \in Work : status'[w] # "cut"
            /\ finish'[d] /\ cpc'[d] # "drain" => m_queue' = <<>>
  BY <1>1, <1>2, <1>3 DEF CloserKeepsWord, CloserPcs
<1>7. cpc'[c] \in {"coop", "kill"} => timer'[c] # "infinite"
  BY <1>1 DEF CloserKeepsWord
<1>8. QED
  BY <1>1, <1>3, <1>4, <1>5, <1>6, <1>7 DEF CloserKeepsWord

\* Every step of shutdown().
LEMMA ShutdownStepKeepsWord ==
    ASSUME TypeOK, CallsFitPool, WorkAccounted, CloserKeepsWord, NEW c \in Clients,
           ShutdownStep(c)
    PROVE  CloserKeepsWord'
  BY CloseQueueKeepsWord, DrainKeepsWord, NotifyKeepsWord, LoopKeepsWord DEF ShutdownStep

\* Calls that begin or are refused, the destructor, and wakeups.
LEMMA OtherStepKeepsWord ==
    ASSUME TypeOK, CloserKeepsWord,
           \/ \E c \in Clients :
                 \/ WaitForEmptyQueue(c) \/ CallWaitForEmptyQueue(c) \/ AddWorkTimesOut(c)
                 \/ cpc[c] \in {"add", "blocked"} /\ RefuseWork(c)
                 \/ \E w \in Work, limit \in CallTimers : CallAddWork(c, w, limit)
                 \/ \E f \in BOOLEAN, limit \in CallTimers : CallShutdown(c, f, limit)
           \/ Destroy
           \/ \E x \in Workers \cup Clients : SpuriousWakeup(x)
           \/ UNCHANGED poolVars
    PROVE  CloserKeepsWord'
<1>1. UNCHANGED <<m_queue, m_threads, wpc, cancel, seen>>
  BY DEF WaitForEmptyQueue, CallWaitForEmptyQueue, AddWorkTimesOut, RefuseWork, CallAddWork,
     CallShutdown, Destroy, SpuriousWakeup, poolVars, queueVars, threadVars, workerVars
<1>2. \A w \in Work : status'[w] = "cut" => status[w] = "cut"
  BY DEF WaitForEmptyQueue, CallWaitForEmptyQueue, AddWorkTimesOut, RefuseWork, CallAddWork,
     CallShutdown, Destroy, SpuriousWakeup, poolVars, TypeOK
<1>3. \A d \in Clients : cpc'[d] \in CloserPcs
         => cpc'[d] = cpc[d] /\ timer'[d] = timer[d] /\ finish'[d] = finish[d]
  <2>1. ASSUME NEW c \in Clients,
               \/ WaitForEmptyQueue(c) \/ AddWorkTimesOut(c)
               \/ cpc[c] \in {"add", "blocked"} /\ RefuseWork(c)
        PROVE  \A d \in Clients : cpc'[d] \in CloserPcs
                  => cpc'[d] = cpc[d] /\ timer'[d] = timer[d] /\ finish'[d] = finish[d]
    BY <2>1 DEF WaitForEmptyQueue, AddWorkTimesOut, RefuseWork, Return, TypeOK, callVars,
       CloserPcs
  <2>2. ASSUME NEW c \in Clients,
               \/ CallWaitForEmptyQueue(c)
               \/ \E w \in Work, limit \in CallTimers : CallAddWork(c, w, limit)
               \/ \E f \in BOOLEAN, limit \in CallTimers : CallShutdown(c, f, limit)
        PROVE  \A d \in Clients : cpc'[d] \in CloserPcs
                  => cpc'[d] = cpc[d] /\ timer'[d] = timer[d] /\ finish'[d] = finish[d]
    BY <2>2 DEF CallWaitForEmptyQueue, CallAddWork, CallShutdown, TypeOK, callVars, CloserPcs
  <2>3. ASSUME \/ Destroy \/ UNCHANGED poolVars
               \/ \E x \in Workers \cup Clients : SpuriousWakeup(x)
        PROVE  \A d \in Clients : cpc'[d] \in CloserPcs
                  => cpc'[d] = cpc[d] /\ timer'[d] = timer[d] /\ finish'[d] = finish[d]
    BY <2>3 DEF Destroy, SpuriousWakeup, poolVars, TypeOK, callVars, CloserPcs
  <2>4. QED  BY <2>1, <2>2, <2>3
<1>4. QED  BY <1>1, <1>2, <1>3, CloserFrame

\* A client comes back from its joins only at the end of the last loop: no step of a
\* client but that one, its own or another's, ends them.
LEMMA JoinsEndWithTheLoop ==
    ASSUME TypeOK, NEW c \in Clients, cpc[c] = "join", cpc'[c] = "idle",
           NEW d \in Clients,
           \/ WaitForEmptyQueue(d) \/ AddWorkTimesOut(d) \/ ShutdownStep(d)
           \/ cpc[d] \in {"add", "blocked"} /\ RefuseWork(d)
           \/ CallWaitForEmptyQueue(d)
           \/ \E w \in Work, limit \in CallTimers : CallAddWork(d, w, limit)
           \/ \E f \in BOOLEAN, limit \in CallTimers : CallShutdown(d, f, limit)
    PROVE  EndLoop(c)
<1>1. CASE \/ WaitForEmptyQueue(d) \/ AddWorkTimesOut(d)
           \/ cpc[d] \in {"add", "blocked"} /\ RefuseWork(d)
  BY <1>1 DEF WaitForEmptyQueue, AddWorkTimesOut, RefuseWork, Return, TypeOK
<1>2. CASE \/ CallWaitForEmptyQueue(d)
           \/ \E w \in Work, limit \in CallTimers : CallAddWork(d, w, limit)
           \/ \E f \in BOOLEAN, limit \in CallTimers : CallShutdown(d, f, limit)
  BY <1>2 DEF CallAddWork, CallWaitForEmptyQueue, CallShutdown, TypeOK
<1>3. CASE ShutdownStep(d)
  <2>1. CASE CloseQueue(d) \/ DrainQueue(d) \/ DrainTimesOut(d)
    BY <2>1 DEF CloseQueue, DrainQueue, DrainTimesOut, Return, TypeOK
  <2>2. CASE NotifyWorkers(d) \/ NotifyAdders(d)
    BY <2>2 DEF NotifyWorkers, NotifyAdders, TypeOK
  <2>3. CASE \E t \in Workers :
                CooperativeCancel(d, t) \/ DefinitiveCancel(d, t) \/ JoinThread(d, t)
    BY <2>3 DEF CooperativeCancel, DefinitiveCancel, JoinThread, Return, TypeOK
  <2>4. CASE EndLoop(d)
    BY <2>4 DEF EndLoop, Return, TypeOK
  <2>5. QED  BY <1>3, <2>1, <2>2, <2>3, <2>4 DEF ShutdownStep
<1>4. QED  BY <1>1, <1>2, <1>3

\* No step of anything else takes a client out of its joins.
LEMMA OthersLeaveTheJoins ==
    ASSUME TypeOK, NEW c \in Clients, cpc[c] = "join",
           \/ \E t \in Workers : WorkerStep(t)
           \/ Destroy
           \/ \E x \in Workers \cup Clients : SpuriousWakeup(x)
           \/ UNCHANGED poolVars
    PROVE  cpc'[c] = "join"
  BY DEF WorkerStep, SleepForWork, QuitOnShutdown, TakeWork, BeginRun, FinishRun,
     CancelledInRun, ExitThread, Destroy, SpuriousWakeup, poolVars, TypeOK

\* At that point every thread has exited, so none holds work.
LEMMA LoopEndFinishes ==
    ASSUME TypeOK, WorkAccounted, CloserKeepsWord, NEW c \in Clients, cpc[c] = "join",
           EndLoop(c), finish[c], timer[c] = "infinite", NEW w \in Work
    PROVE  status[w] \notin {"queued", "running", "cut"}
<1>1. m_threads \subseteq seen
  BY DEF EndLoop
<1>2. \A t \in Workers : wpc[t] \in {"unstarted", "exited"}
  BY <1>1 DEF CloserKeepsWord
<1>3. Holders = {}
  BY <1>2 DEF Holders
<1>4. status[w] # "running"
  BY <1>3 DEF WorkAccounted
<1>5. m_queue = <<>> /\ status[w] # "cut"
  BY DEF CloserKeepsWord, CloserPcs
<1>6. status[w] # "queued"
  BY <1>5 DEF WorkAccounted
<1>7. QED  BY <1>4, <1>5, <1>6
=============================================================================
