--------------------------- MODULE FixedPoolProofs ---------------------------
(***************************************************************************)
(* Proofs about FixedPool, for any number of threads, clients and          *)
(* Runnables and any queue size: no wakeup is lost, the pool implements    *)
(* PoolService, a shutdown that finishes the work keeps its word, and the  *)
(* pool outlives its threads.                                              *)
(***************************************************************************)
EXTENDS FixedPool, CommonPoolProofs

(***************************************************************************)
(* No lost wakeup: each action preserves AwakeInv                          *)
(***************************************************************************)
\* The timers of a call are timers.
LEMMA CallTimersAreTimers == \A limit \in CallTimers : limit \in Timers
  BY PoolAssumption DEF Timers

\* A worker goes to sleep only on an empty queue that is not shut down, and what it takes
\* wakes nobody's work.
LEMMA WorkerStepAwake ==
    ASSUME AwakeInv, NEW t \in Workers, WorkerStep(t)
    PROVE  AwakeInv'
<1>1. SharedInv'
  BY WorkerStepShared DEF AwakeInv
<1>2. WorkersAwake'
  <2>1. CASE SleepForWork(t)
    BY <2>1 DEF WorkersAwake, SleepForWork, queueVars
  <2>2. CASE TakeWork(t)
    BY <2>2 DEF AwakeInv, WorkersAwake, TakeWork, OnNotEmpty
  <2>3. CASE QuitOnShutdown(t) \/ BeginRun(t) \/ ExitThread(t)
    BY <2>3 DEF AwakeInv, WorkersAwake, QuitOnShutdown, BeginRun, ExitThread, queueVars,
       OnNotEmpty
  <2>4. CASE FinishRun(t) \/ CancelledInRun(t)
    BY <2>4 DEF AwakeInv, WorkersAwake, FinishRun, CancelledInRun, queueVars, OnNotEmpty
  <2>5. QED  BY <2>1, <2>2, <2>3, <2>4 DEF WorkerStep
<1>3. QED  BY <1>1, <1>2 DEF AwakeInv

\* Whoever stops the pool is the one that will notify, and the notification leaves no
\* worker asleep.
LEMMA ShutdownStepAwake ==
    ASSUME AwakeInv, NEW c \in Clients, ShutdownStep(c)
    PROVE  AwakeInv'
<1>1. SharedInv' /\ TypeOK
  BY ShutdownStepShared DEF AwakeInv, SharedInv
<1>2. WorkersAwake'
  <2>1. CASE CloseQueue(c)
    BY <1>1, <2>1, PoolAssumption DEF AwakeInv, TypeOK, WorkersAwake, CloseQueue, Return,
       queueVars, OnNotEmpty
  <2>2. CASE DrainQueue(c)
    BY <1>1, <2>2, PoolAssumption DEF AwakeInv, TypeOK, WorkersAwake, DrainQueue, OnNotEmpty
  <2>3. CASE DrainTimesOut(c)
    BY <1>1, <2>3 DEF AwakeInv, TypeOK, WorkersAwake, DrainTimesOut
  <2>4. CASE NotifyWorkers(c)
    BY <2>4 DEF WorkersAwake, NotifyWorkers, OnNotEmpty
  <2>5. CASE NotifyAdders(c)
    BY <2>5 DEF AwakeInv, WorkersAwake, NotifyAdders, queueVars, OnNotEmpty
  <2>6. CASE EndLoop(c)
    BY <1>1, <2>6 DEF AwakeInv, TypeOK, WorkersAwake, EndLoop, Return, queueVars, OnNotEmpty
  <2>7. ASSUME NEW t \in Workers,
               CooperativeCancel(c, t) \/ DefinitiveCancel(c, t) \/ JoinThread(c, t)
        PROVE  WorkersAwake'
    BY <1>1, <2>7 DEF AwakeInv, TypeOK, WorkersAwake, CooperativeCancel, DefinitiveCancel,
       JoinThread, Return, queueVars, OnNotEmpty
  <2>8. QED  BY <2>1, <2>2, <2>3, <2>4, <2>5, <2>6, <2>7 DEF ShutdownStep
<1>3. QED  BY <1>1, <1>2 DEF AwakeInv

\* A call begins awake.
LEMMA CallAwake ==
    ASSUME AwakeInv, NEW c \in Clients, Call(c)
    PROVE  AwakeInv'
<1>1. SharedInv'
  <2>1. SharedInv
    BY DEF AwakeInv
  <2>2. QED
    BY <2>1, CallTimersAreTimers, CallAddWorkShared, CallWaitForEmptyQueueShared,
       CallShutdownShared DEF Call
<1>2. \A d \in Clients : cpc[d] = "notifyWorkers" => cpc'[d] = "notifyWorkers"
  BY DEF AwakeInv, SharedInv, TypeOK, Call, CallAddWork, CallWaitForEmptyQueue, CallShutdown
<1>3. UNCHANGED <<m_queue, m_shutdown, waiting>>
  BY DEF Call, CallAddWork, CallWaitForEmptyQueue, CallShutdown, queueVars
<1>4. WorkersAwake'
  BY <1>2, <1>3 DEF AwakeInv, WorkersAwake, OnNotEmpty
<1>5. QED  BY <1>1, <1>4 DEF AwakeInv

\* Waiting for an empty queue, giving up, the destructor and the spurious wakeups put no
\* worker to sleep and add no work.
LEMMA OtherStepAwake ==
    ASSUME AwakeInv,
           \/ \E c \in Clients : WaitForEmptyQueue(c) \/ AddWorkTimesOut(c)
           \/ Destroy
           \/ \E x \in Workers \cup Clients : SpuriousWakeup(x)
           \/ UNCHANGED poolVars
    PROVE  AwakeInv'
<1>1. SharedInv' /\ TypeOK
  BY WaitForEmptyQueueShared, AddWorkTimesOutShared, DestroyShared, SpuriousWakeupShared,
     StutterShared DEF AwakeInv, SharedInv
<1>2. WorkersAwake'
  <2>1. ASSUME NEW c \in Clients, WaitForEmptyQueue(c)
        PROVE  WorkersAwake'
    BY <1>1, <2>1, PoolAssumption DEF AwakeInv, TypeOK, WorkersAwake, WaitForEmptyQueue,
       Return, queueVars, OnNotEmpty
  <2>2. ASSUME NEW c \in Clients, AddWorkTimesOut(c)
        PROVE  WorkersAwake'
    BY <2>2 DEF AwakeInv, WorkersAwake, AddWorkTimesOut, Return, queueVars, OnNotEmpty
  <2>3. CASE Destroy
    BY <2>3 DEF AwakeInv, WorkersAwake, Destroy, queueVars, OnNotEmpty
  <2>4. ASSUME NEW x \in Workers \cup Clients, SpuriousWakeup(x)
        PROVE  WorkersAwake'
    BY <2>4 DEF AwakeInv, WorkersAwake, SpuriousWakeup, queueVars, OnNotEmpty
  <2>5. CASE UNCHANGED poolVars
    BY <2>5 DEF AwakeInv, WorkersAwake, poolVars, queueVars, OnNotEmpty
  <2>6. QED  BY <2>1, <2>2, <2>3, <2>4, <2>5
<1>3. QED  BY <1>1, <1>2 DEF AwakeInv

\* A started thread has not slept yet.
LEMMA StartThreadAwake ==
    ASSUME AwakeInv, NEW t \in Workers, StartThread(t)
    PROVE  AwakeInv'
<1>1. TypeOK'
  BY DEF AwakeInv, SharedInv, TypeOK, StartThread, queueVars, threadVars, callVars, WorkerPcs
<1>2. CallsFitPool'
  BY DEF AwakeInv, SharedInv, CallsFitPool, StartThread, queueVars, callVars
<1>3. ClientsAwake'
  BY DEF AwakeInv, SharedInv, ClientsAwake, StartThread, queueVars, threadVars, OnNotFull,
     OnEmpty
<1>4. WorkersAwake'
  BY DEF AwakeInv, SharedInv, WorkersAwake, StartThread, queueVars, OnNotEmpty
<1>5. QED  BY <1>1, <1>2, <1>3, <1>4 DEF AwakeInv, SharedInv

\* The owner turns to the shutdown before anybody calls.
LEMMA StartFailsAwake ==
    ASSUME AwakeInv, StartFails
    PROVE  AwakeInv'
<1>1. TypeOK'
  BY DEF AwakeInv, SharedInv, TypeOK, StartFails, queueVars, workerVars, ClientPcs, Timers
<1>2. CallsFitPool'
  BY DEF AwakeInv, SharedInv, CallsFitPool, StartFails, queueVars, AddPcs, CloserPcs
<1>3. ClientsAwake'
  BY DEF AwakeInv, SharedInv, ClientsAwake, StartFails, queueVars, OnNotFull, OnEmpty
<1>4. WorkersAwake'
  BY DEF AwakeInv, SharedInv, WorkersAwake, StartFails, queueVars, OnNotEmpty
<1>5. QED  BY <1>1, <1>2, <1>3, <1>4 DEF AwakeInv, SharedInv

\* The pool opens.
LEMMA ConstructedAwake ==
    ASSUME AwakeInv, Constructed
    PROVE  AwakeInv'
<1>1. TypeOK'
  BY DEF AwakeInv, SharedInv, TypeOK, Constructed, queueVars, workerVars, callVars, ClientPcs
<1>2. CallsFitPool'
  BY DEF AwakeInv, SharedInv, CallsFitPool, Constructed, queueVars, callVars, AddPcs, CloserPcs
<1>3. ClientsAwake'
  BY DEF AwakeInv, SharedInv, ClientsAwake, Constructed, queueVars, OnNotFull, OnEmpty
<1>4. WorkersAwake'
  BY DEF AwakeInv, SharedInv, WorkersAwake, Constructed, queueVars, OnNotEmpty
<1>5. QED  BY <1>1, <1>2, <1>3, <1>4 DEF AwakeInv, SharedInv

\* A client goes to sleep only on a full queue that is open.
LEMMA BlockOnFullQueueAwake ==
    ASSUME AwakeInv, NEW c \in Clients, BlockOnFullQueue(c)
    PROVE  AwakeInv'
<1>1. TypeOK'
  BY PoolAssumption DEF AwakeInv, SharedInv, TypeOK, BlockOnFullQueue, queueVars, threadVars,
     workerVars,
     callVars, ClientPcs, AddPcs
<1>2. CallsFitPool'
  BY DEF AwakeInv, SharedInv, CallsFitPool, BlockOnFullQueue, queueVars, callVars, AddPcs,
     CloserPcs
<1>3. ClientsAwake'
  BY DEF AwakeInv, SharedInv, ClientsAwake, BlockOnFullQueue, queueVars, threadVars, OnEmpty,
     QueueClosed
<1>4. WorkersAwake'
  BY PoolAssumption DEF AwakeInv, SharedInv, WorkersAwake, BlockOnFullQueue, queueVars,
     OnNotEmpty
<1>5. QED  BY <1>1, <1>2, <1>3, <1>4 DEF AwakeInv, SharedInv

\* The push that ends an empty queue wakes the workers; on a closed queue there is none.
LEMMA PushWorkAwake ==
    ASSUME AwakeInv, NEW c \in Clients, PushWork(c)
    PROVE  AwakeInv'
<1>1. TypeOK'
  BY DEF AwakeInv, SharedInv, CallsFitPool, TypeOK, PushWork, Return, workerVars, ClientPcs,
     AddPcs,
     Timers, Statuses
<1>2. CallsFitPool'
  BY DEF AwakeInv, SharedInv, CallsFitPool, TypeOK, PushWork, Return, AddPcs, CloserPcs
<1>3. ClientsAwake'
  BY DEF AwakeInv, SharedInv, ClientsAwake, PushWork, Return, OnNotFull, QueueIsFull, QueueClosed
<1>4. WorkersAwake'
  BY DEF AwakeInv, SharedInv, WorkersAwake, PushWork, Return, OnNotEmpty
<1>5. QED  BY <1>1, <1>2, <1>3, <1>4 DEF AwakeInv, SharedInv

\* A refused call leaves the queue alone.
LEMMA AddToClosedQueueAwake ==
    ASSUME AwakeInv, NEW c \in Clients, AddToClosedQueue(c)
    PROVE  AwakeInv'
<1>1. SharedInv'
  BY RefuseWorkShared DEF AwakeInv, AddToClosedQueue
<1>2. WorkersAwake'
  BY DEF AwakeInv, WorkersAwake, AddToClosedQueue, RefuseWork, Return, queueVars, OnNotEmpty
<1>3. QED  BY <1>1, <1>2 DEF AwakeInv

(***************************************************************************)
(* No lost wakeup: the theorems                                            *)
(***************************************************************************)
\* The initial states satisfy the invariant.
LEMMA InitAwake == Init => AwakeInv
<1>1. SUFFICES ASSUME Init  PROVE AwakeInv
  OBVIOUS
<1>2. TypeOK
  <2>1. m_queue \in Seq(Work) /\ m_workingThreads \in Nat /\ waiting = {}
    BY <1>1 DEF Init
  <2>2. cpc \in [Clients -> ClientPcs] /\ timer \in [Clients -> Timers]
    BY <1>1 DEF Init, ClientPcs, Timers
  <2>3. wpc \in [Workers -> WorkerPcs] /\ status \in [Work -> Statuses]
    BY <1>1 DEF Init, WorkerPcs, Statuses
  <2>4. QED  BY <1>1, <2>1, <2>2, <2>3 DEF Init, TypeOK
<1>3. CallsFitPool
  BY <1>1 DEF Init, CallsFitPool, AddPcs, CloserPcs
<1>4. ClientsAwake /\ WorkersAwake
  <2>1. OnNotEmpty = {} /\ OnNotFull = {} /\ OnEmpty = {}
    BY <1>1 DEF Init, OnNotEmpty, OnNotFull, OnEmpty
  <2>2. QED  BY <2>1 DEF ClientsAwake, WorkersAwake
<1>5. QED  BY <1>2, <1>3, <1>4 DEF AwakeInv, SharedInv

\* Every step of the pool preserves the invariant.
LEMMA NextAwake == AwakeInv /\ [Next]_poolVars => AwakeInv'
<1>1. SUFFICES ASSUME AwakeInv, [Next]_poolVars  PROVE AwakeInv'
  OBVIOUS
<1>2. CASE ConstructorStep
  BY <1>1, <1>2, StartThreadAwake, StartFailsAwake, ConstructedAwake DEF ConstructorStep
<1>3. ASSUME NEW t \in Workers, WorkerStep(t)  PROVE AwakeInv'
  BY <1>1, <1>3, WorkerStepAwake
<1>4. ASSUME NEW c \in Clients, Call(c) \/ ClientStep(c)  PROVE AwakeInv'
  BY <1>1, <1>4, CallAwake, BlockOnFullQueueAwake, AddToClosedQueueAwake, PushWorkAwake,
     ShutdownStepAwake, OtherStepAwake DEF ClientStep, AddWork
<1>5. CASE Destroy \/ (\E x \in Workers \cup Clients : SpuriousWakeup(x)) \/ UNCHANGED poolVars
  BY <1>1, <1>5, OtherStepAwake
<1>6. QED  BY <1>1, <1>2, <1>3, <1>4, <1>5 DEF Next

\* Type correctness of the fixed-size pool.
THEOREM TypeCorrect == Spec => []TypeOK
<1>1. AwakeInv => TypeOK
  BY DEF AwakeInv, SharedInv
<1>2. QED  BY <1>1, InitAwake, NextAwake, PTL DEF Spec

\* However many workers sleep, a push that ends an empty queue and the notification
\* of the shutdown are enough to leave none asleep that has something to do.
THEOREM WorkersStayAwake == Spec => []WorkersAwake
<1>1. AwakeInv => WorkersAwake
  BY DEF AwakeInv
<1>2. QED  BY <1>1, InitAwake, NextAwake, PTL DEF Spec

\* The notifications of getWorkFromQueue() and of shutdownThreads() leave no client
\* asleep whose wait is over.
THEOREM ClientsStayAwake == Spec => []ClientsAwake
<1>1. AwakeInv => ClientsAwake
  BY DEF AwakeInv, SharedInv
<1>2. QED  BY <1>1, InitAwake, NextAwake, PTL DEF Spec

(***************************************************************************)
(* The life of the pool: each action preserves the invariant               *)
(***************************************************************************)
\* A sleeping worker has not exited: every worker that started is in m_threads still.
LEMMA SleepForWorkLifetime ==
    ASSUME LifetimeInv, Deniers = {}, NEW t \in Workers, SleepForWork(t)
    PROVE  OneShutdown' /\ ThreadsJoined' /\ OnlyThreadLeft'
<1>1. OneShutdown'
  BY DEF LifetimeInv, OneShutdown, SleepForWork, queueVars, threadVars
<1>2. ThreadsJoined'
  BY DEF LifetimeInv, ThreadsJoined, SleepForWork, queueVars, threadVars, workerVars
<1>3. OnlyThreadLeft'
  BY DEF LifetimeInv, OnlyThreadLeft, SleepForWork, threadVars
<1>4. QED  BY <1>1, <1>2, <1>3

\* A worker that quits is not joined before it exits.
LEMMA QuitOnShutdownLifetime ==
    ASSUME LifetimeInv, Deniers = {}, NEW t \in Workers, QuitOnShutdown(t)
    PROVE  OneShutdown' /\ ThreadsJoined' /\ OnlyThreadLeft'
<1>1. OneShutdown'
  BY DEF LifetimeInv, OneShutdown, AwakeInv, SharedInv, CallsFitPool, QuitOnShutdown, threadVars
<1>2. ThreadsJoined'
  BY DEF LifetimeInv, ThreadsJoined, AwakeInv, SharedInv, CallsFitPool, QuitOnShutdown,
     threadVars
<1>3. OnlyThreadLeft'
  BY DEF LifetimeInv, OnlyThreadLeft, QuitOnShutdown, threadVars
<1>4. QED  BY <1>1, <1>2, <1>3

\* A worker that takes work has not exited.
LEMMA TakeWorkLifetime ==
    ASSUME LifetimeInv, Deniers = {}, NEW t \in Workers, TakeWork(t)
    PROVE  OneShutdown' /\ ThreadsJoined' /\ OnlyThreadLeft'
<1>1. OneShutdown'
  BY DEF LifetimeInv, OneShutdown, TakeWork
<1>2. ThreadsJoined'
  BY DEF LifetimeInv, ThreadsJoined, TakeWork
<1>3. OnlyThreadLeft'
  BY DEF LifetimeInv, OnlyThreadLeft, TakeWork
<1>4. QED  BY <1>1, <1>2, <1>3

\* A worker that begins a run has not exited.
LEMMA BeginRunLifetime ==
    ASSUME LifetimeInv, Deniers = {}, NEW t \in Workers, BeginRun(t)
    PROVE  OneShutdown' /\ ThreadsJoined' /\ OnlyThreadLeft'
<1>1. OneShutdown'
  BY DEF LifetimeInv, OneShutdown, BeginRun, queueVars, threadVars
<1>2. ThreadsJoined'
  BY DEF LifetimeInv, ThreadsJoined, BeginRun, queueVars, threadVars
<1>3. OnlyThreadLeft'
  BY DEF LifetimeInv, OnlyThreadLeft, BeginRun, threadVars
<1>4. QED  BY <1>1, <1>2, <1>3

\* A worker that ends a run has not exited.
LEMMA FinishRunLifetime ==
    ASSUME LifetimeInv, Deniers = {}, NEW t \in Workers, FinishRun(t)
    PROVE  OneShutdown' /\ ThreadsJoined' /\ OnlyThreadLeft'
<1>1. OneShutdown'
  BY DEF LifetimeInv, OneShutdown, FinishRun, queueVars, threadVars
<1>2. ThreadsJoined'
  BY DEF LifetimeInv, ThreadsJoined, AwakeInv, SharedInv, TypeOK, FinishRun, queueVars,
     threadVars
<1>3. OnlyThreadLeft'
  BY DEF LifetimeInv, OnlyThreadLeft, FinishRun, threadVars
<1>4. QED  BY <1>1, <1>2, <1>3

\* An exit helps the join.
LEMMA CancelledInRunLifetime ==
    ASSUME LifetimeInv, Deniers = {}, NEW t \in Workers, CancelledInRun(t)
    PROVE  OneShutdown' /\ ThreadsJoined' /\ OnlyThreadLeft'
<1>1. OneShutdown'
  BY DEF LifetimeInv, OneShutdown, CancelledInRun, queueVars, threadVars
<1>2. ThreadsJoined'
  BY DEF LifetimeInv, ThreadsJoined, CancelledInRun, queueVars, threadVars
<1>3. OnlyThreadLeft'
  BY DEF LifetimeInv, OnlyThreadLeft, CancelledInRun, threadVars
<1>4. QED  BY <1>1, <1>2, <1>3

\* An exit helps the join.
LEMMA ExitThreadLifetime ==
    ASSUME LifetimeInv, Deniers = {}, NEW t \in Workers, ExitThread(t)
    PROVE  OneShutdown' /\ ThreadsJoined' /\ OnlyThreadLeft'
<1>1. OneShutdown'
  BY DEF LifetimeInv, OneShutdown, ExitThread, queueVars, threadVars
<1>2. ThreadsJoined'
  BY DEF LifetimeInv, ThreadsJoined, ExitThread, queueVars, threadVars
<1>3. OnlyThreadLeft'
  BY DEF LifetimeInv, OnlyThreadLeft, ExitThread, threadVars
<1>4. QED  BY <1>1, <1>2, <1>3

\* A thread starts before the queue can be closed.
LEMMA StartThreadLifetime ==
    ASSUME LifetimeInv, Deniers = {}, NEW t \in Workers, StartThread(t)
    PROVE  OneShutdown' /\ ThreadsJoined' /\ OnlyThreadLeft'
<1>1. OneShutdown'
  BY DEF LifetimeInv, OneShutdown, StartThread, queueVars, threadVars
<1>2. ThreadsJoined'
  BY DEF LifetimeInv, ThreadsJoined, StartThread, queueVars, threadVars
<1>3. OnlyThreadLeft'
  BY DEF LifetimeInv, OneShutdown, OnlyThreadLeft, StartThread, threadVars
<1>4. QED  BY <1>1, <1>2, <1>3

\* The threads left out of m_threads never started.
LEMMA StartFailsLifetime ==
    ASSUME LifetimeInv, Deniers = {}, StartFails
    PROVE  OneShutdown' /\ ThreadsJoined' /\ OnlyThreadLeft'
<1>1. OneShutdown'
  BY DEF LifetimeInv, OneShutdown, AwakeInv, SharedInv, CallsFitPool, StartFails, queueVars
<1>2. ThreadsJoined'
  BY PoolAssumption DEF LifetimeInv, OneShutdown, ThreadsJoined, AwakeInv, SharedInv, TypeOK,
     StartFails,
     queueVars, workerVars
<1>3. OnlyThreadLeft'
  BY DEF LifetimeInv, OneShutdown, OnlyThreadLeft, StartFails
<1>4. QED  BY <1>1, <1>2, <1>3

\* The owner leaves the constructor with nothing closed.
LEMMA ConstructedLifetime ==
    ASSUME LifetimeInv, Deniers = {}, Constructed
    PROVE  OneShutdown' /\ ThreadsJoined' /\ OnlyThreadLeft'
<1>1. OneShutdown'
  BY DEF LifetimeInv, OneShutdown, AwakeInv, SharedInv, CallsFitPool, TypeOK, Constructed
<1>2. ThreadsJoined'
  BY PoolAssumption DEF LifetimeInv, OneShutdown, ThreadsJoined, Constructed, queueVars
<1>3. OnlyThreadLeft'
  BY DEF OnlyThreadLeft, Constructed
<1>4. QED  BY <1>1, <1>2, <1>3

\* Calls are made on an open pool only.
LEMMA CallWaitForEmptyQueueLifetime ==
    ASSUME LifetimeInv, Deniers = {}, NEW c \in Clients, CallWaitForEmptyQueue(c)
    PROVE  OneShutdown' /\ ThreadsJoined' /\ OnlyThreadLeft'
<1>1. OneShutdown'
  BY DEF LifetimeInv, OneShutdown, CallWaitForEmptyQueue, threadVars, CloserPcs
<1>2. ThreadsJoined'
  BY DEF LifetimeInv, ThreadsJoined, CallWaitForEmptyQueue, queueVars, threadVars, workerVars,
     CloserPcs
<1>3. OnlyThreadLeft'
  BY DEF OnlyThreadLeft, CallWaitForEmptyQueue, threadVars
<1>4. QED  BY <1>1, <1>2, <1>3

\* A pool that is closed when nobody is in a call has joined its threads.
LEMMA DestroyLifetime ==
    ASSUME LifetimeInv, Deniers = {}, Destroy
    PROVE  OneShutdown' /\ ThreadsJoined' /\ OnlyThreadLeft'
<1>1. OneShutdown'
  BY PoolAssumption DEF LifetimeInv, OneShutdown, AwakeInv, SharedInv, TypeOK, Destroy,
     queueVars,
     QueueClosed
<1>2. ThreadsJoined'
  BY DEF LifetimeInv, ThreadsJoined, AwakeInv, SharedInv, TypeOK, Destroy, queueVars, workerVars,
     CloserPcs
<1>3. OnlyThreadLeft'
  BY DEF LifetimeInv, ThreadsJoined, OnlyThreadLeft, AwakeInv, SharedInv, CallsFitPool, Destroy,
     workerVars, CloserPcs, QueueClosed
<1>4. QED  BY <1>1, <1>2, <1>3

\* Adding keeps off the shutdown.
LEMMA BlockOnFullQueueLifetime ==
    ASSUME LifetimeInv, Deniers = {}, NEW c \in Clients, BlockOnFullQueue(c)
    PROVE  OneShutdown' /\ ThreadsJoined' /\ OnlyThreadLeft'
<1>1. OneShutdown'
  BY DEF LifetimeInv, OneShutdown, BlockOnFullQueue, threadVars, CloserPcs
<1>2. ThreadsJoined'
  BY DEF LifetimeInv, ThreadsJoined, BlockOnFullQueue, queueVars, threadVars, workerVars,
     CloserPcs
<1>3. OnlyThreadLeft'
  BY DEF LifetimeInv, OneShutdown, OnlyThreadLeft, BlockOnFullQueue, threadVars
<1>4. QED  BY <1>1, <1>2, <1>3

\* Adding keeps off the shutdown.
LEMMA AddToClosedQueueLifetime ==
    ASSUME LifetimeInv, Deniers = {}, NEW c \in Clients, AddToClosedQueue(c)
    PROVE  OneShutdown' /\ ThreadsJoined' /\ OnlyThreadLeft'
<1>1. OneShutdown'
  BY DEF LifetimeInv, OneShutdown, AddToClosedQueue, RefuseWork, Return, CloserPcs
<1>2. ThreadsJoined'
  BY DEF LifetimeInv, ThreadsJoined, AddToClosedQueue, RefuseWork, Return, queueVars,
     workerVars, CloserPcs
<1>3. OnlyThreadLeft'
  BY DEF LifetimeInv, OneShutdown, OnlyThreadLeft, AddToClosedQueue, RefuseWork, Return,
     CloserPcs
<1>4. QED  BY <1>1, <1>2, <1>3

\* Adding keeps off the shutdown.
LEMMA PushWorkLifetime ==
    ASSUME LifetimeInv, Deniers = {}, NEW c \in Clients, PushWork(c)
    PROVE  OneShutdown' /\ ThreadsJoined' /\ OnlyThreadLeft'
<1>1. OneShutdown'
  BY DEF LifetimeInv, OneShutdown, PushWork, Return, CloserPcs
<1>2. ThreadsJoined'
  BY DEF LifetimeInv, ThreadsJoined, PushWork, Return, workerVars, CloserPcs
<1>3. OnlyThreadLeft'
  BY DEF LifetimeInv, OneShutdown, OnlyThreadLeft, PushWork, Return, CloserPcs
<1>4. QED  BY <1>1, <1>2, <1>3

\* Adding keeps off the shutdown.
LEMMA AddWorkTimesOutLifetime ==
    ASSUME LifetimeInv, Deniers = {}, NEW c \in Clients, AddWorkTimesOut(c)
    PROVE  OneShutdown' /\ ThreadsJoined' /\ OnlyThreadLeft'
<1>1. OneShutdown'
  BY DEF LifetimeInv, OneShutdown, AddWorkTimesOut, Return, CloserPcs
<1>2. ThreadsJoined'
  BY DEF LifetimeInv, ThreadsJoined, AddWorkTimesOut, Return, queueVars, workerVars, CloserPcs
<1>3. OnlyThreadLeft'
  BY DEF LifetimeInv, OneShutdown, OnlyThreadLeft, AddWorkTimesOut, Return, CloserPcs
<1>4. QED  BY <1>1, <1>2, <1>3

\* Waiting keeps off the shutdown.
LEMMA WaitForEmptyQueueLifetime ==
    ASSUME LifetimeInv, Deniers = {}, NEW c \in Clients, WaitForEmptyQueue(c)
    PROVE  OneShutdown' /\ ThreadsJoined' /\ OnlyThreadLeft'
<1>1. OneShutdown'
  BY DEF LifetimeInv, OneShutdown, AwakeInv, SharedInv, TypeOK, WaitForEmptyQueue, Return,
     CloserPcs
<1>2. ThreadsJoined'
  BY PoolAssumption DEF LifetimeInv, ThreadsJoined, AwakeInv, SharedInv, TypeOK,
     WaitForEmptyQueue, Return,
     queueVars, workerVars, CloserPcs
<1>3. OnlyThreadLeft'
  BY DEF LifetimeInv, OneShutdown, OnlyThreadLeft, WaitForEmptyQueue, Return, CloserPcs
<1>4. QED  BY <1>1, <1>2, <1>3

\* Only the client that finds the queue open goes past the close.
LEMMA CloseQueueLifetime ==
    ASSUME LifetimeInv, Deniers = {}, NEW c \in Clients, CloseQueue(c)
    PROVE  OneShutdown' /\ ThreadsJoined' /\ OnlyThreadLeft'
<1>1. OneShutdown'
  BY DEF LifetimeInv, OneShutdown, AwakeInv, SharedInv, CallsFitPool, TypeOK, CloseQueue, Return,
     CloserPcs, QueueClosed
<1>2. ThreadsJoined'
  BY PoolAssumption DEF LifetimeInv, ThreadsJoined, AwakeInv, SharedInv, TypeOK, CloseQueue,
     Return,
     queueVars, workerVars, CloserPcs
<1>3. OnlyThreadLeft'
  BY DEF LifetimeInv, OneShutdown, OnlyThreadLeft, AwakeInv, SharedInv, CallsFitPool, CloseQueue,
     Return,
     QueueClosed
<1>4. QED  BY <1>1, <1>2, <1>3

\* The drain stays with the client that closed.
LEMMA DrainQueueLifetime ==
    ASSUME LifetimeInv, Deniers = {}, NEW c \in Clients, DrainQueue(c)
    PROVE  OneShutdown' /\ ThreadsJoined' /\ OnlyThreadLeft'
<1>1. OneShutdown'
  BY DEF LifetimeInv, OneShutdown, AwakeInv, SharedInv, TypeOK, DrainQueue, threadVars, CloserPcs
<1>2. ThreadsJoined'
  BY PoolAssumption DEF LifetimeInv, ThreadsJoined, AwakeInv, SharedInv, TypeOK, DrainQueue,
     threadVars,
     workerVars, CloserPcs
<1>3. OnlyThreadLeft'
  BY DEF LifetimeInv, OneShutdown, OnlyThreadLeft, DrainQueue, threadVars
<1>4. QED  BY <1>1, <1>2, <1>3

\* The drain stays with the client that closed.
LEMMA DrainTimesOutLifetime ==
    ASSUME LifetimeInv, Deniers = {}, NEW c \in Clients, DrainTimesOut(c)
    PROVE  OneShutdown' /\ ThreadsJoined' /\ OnlyThreadLeft'
<1>1. OneShutdown'
  BY DEF LifetimeInv, OneShutdown, DrainTimesOut, threadVars, CloserPcs
<1>2. ThreadsJoined'
  BY DEF LifetimeInv, ThreadsJoined, DrainTimesOut, threadVars, workerVars, CloserPcs
<1>3. OnlyThreadLeft'
  BY DEF LifetimeInv, OneShutdown, OnlyThreadLeft, DrainTimesOut, threadVars
<1>4. QED  BY <1>1, <1>2, <1>3

\* The shutdown stays with the client that closed.
LEMMA NotifyWorkersLifetime ==
    ASSUME LifetimeInv, Deniers = {}, NEW c \in Clients, NotifyWorkers(c)
    PROVE  OneShutdown' /\ ThreadsJoined' /\ OnlyThreadLeft'
<1>1. OneShutdown'
  BY DEF LifetimeInv, OneShutdown, NotifyWorkers, threadVars, CloserPcs
<1>2. ThreadsJoined'
  BY DEF LifetimeInv, ThreadsJoined, NotifyWorkers, threadVars, workerVars, CloserPcs
<1>3. OnlyThreadLeft'
  BY DEF LifetimeInv, OneShutdown, OnlyThreadLeft, NotifyWorkers, threadVars
<1>4. QED  BY <1>1, <1>2, <1>3

\* The join begins with no thread passed.
LEMMA NotifyAddersLifetime ==
    ASSUME LifetimeInv, Deniers = {}, NEW c \in Clients, NotifyAdders(c)
    PROVE  OneShutdown' /\ ThreadsJoined' /\ OnlyThreadLeft'
<1>1. OneShutdown'
  BY DEF LifetimeInv, OneShutdown, NotifyAdders, threadVars, CloserPcs
<1>2. ThreadsJoined'
  BY DEF LifetimeInv, ThreadsJoined, NotifyAdders, threadVars, workerVars, CloserPcs
<1>3. OnlyThreadLeft'
  BY DEF LifetimeInv, OneShutdown, OnlyThreadLeft, NotifyAdders, threadVars
<1>4. QED  BY <1>1, <1>2, <1>3

\* The shutdown returns only from the join, with every thread passed and exited.
LEMMA EndLoopLifetime ==
    ASSUME LifetimeInv, Deniers = {}, NEW c \in Clients, EndLoop(c)
    PROVE  OneShutdown' /\ ThreadsJoined' /\ OnlyThreadLeft'
<1>1. OneShutdown'
  <2>1. CASE cpc[c] = "join"
    BY <2>1, ReturnType DEF LifetimeInv, OneShutdown, AwakeInv, SharedInv, EndLoop, Return,
       queueVars,
       CloserPcs
  <2>2. CASE cpc[c] # "join"
    <3>1. /\ cpc[c] \in CloserPcs /\ pool' = pool /\ m_queueClosed' = m_queueClosed
          /\ \/ cpc' = [cpc EXCEPT ![c] = "kill"]
             \/ cpc' = [cpc EXCEPT ![c] = "join"]
      BY <2>2 DEF EndLoop, queueVars, CloserPcs
    <3>2. /\ cpc'[c] \in {"kill", "join"} /\ {"kill", "join"} \subseteq CloserPcs
          /\ \A d \in Clients \ {c} : cpc'[d] = cpc[d]
      BY <3>1 DEF LifetimeInv, AwakeInv, SharedInv, TypeOK, CloserPcs
    <3>3. QED  BY <3>1, <3>2 DEF LifetimeInv, OneShutdown, CloserPcs
  <2>3. QED  BY <2>1, <2>2
<1>2. ThreadsJoined'
  BY PoolAssumption DEF LifetimeInv, ThreadsJoined, AwakeInv, SharedInv, TypeOK, EndLoop, Return,
     workerVars, CloserPcs
<1>3. OnlyThreadLeft'
  BY DEF LifetimeInv, ThreadsJoined, OnlyThreadLeft, EndLoop, workerVars
<1>4. QED  BY <1>1, <1>2, <1>3

\* Without a denial the shutdown stays in its loop.
LEMMA CooperativeCancelLifetime ==
    ASSUME LifetimeInv, Deniers = {}, NEW c \in Clients, NEW t \in Workers, CooperativeCancel(c,
           t)
    PROVE  OneShutdown' /\ ThreadsJoined' /\ OnlyThreadLeft'
<1>1. OneShutdown'
  BY DEF LifetimeInv, OneShutdown, CooperativeCancel
<1>2. ThreadsJoined'
  BY DEF LifetimeInv, OneShutdown, ThreadsJoined, CooperativeCancel, CloserPcs
<1>3. OnlyThreadLeft'
  BY DEF LifetimeInv, OnlyThreadLeft, CooperativeCancel
<1>4. QED  BY <1>1, <1>2, <1>3

\* The shutdown stays in its loop.
LEMMA DefinitiveCancelLifetime ==
    ASSUME LifetimeInv, Deniers = {}, NEW c \in Clients, NEW t \in Workers, DefinitiveCancel(c,
    t)
    PROVE  OneShutdown' /\ ThreadsJoined' /\ OnlyThreadLeft'
<1>1. OneShutdown'
  BY DEF LifetimeInv, OneShutdown, DefinitiveCancel, threadVars
<1>2. ThreadsJoined'
  BY DEF LifetimeInv, OneShutdown, ThreadsJoined, DefinitiveCancel, threadVars, CloserPcs
<1>3. OnlyThreadLeft'
  BY DEF LifetimeInv, OnlyThreadLeft, DefinitiveCancel, threadVars
<1>4. QED  BY <1>1, <1>2, <1>3

\* A thread is passed only when it has exited.
LEMMA JoinThreadLifetime ==
    ASSUME LifetimeInv, Deniers = {}, NEW c \in Clients, NEW t \in Workers, JoinThread(c, t)
    PROVE  OneShutdown' /\ ThreadsJoined' /\ OnlyThreadLeft'
<1>1. OneShutdown'
  BY DEF LifetimeInv, OneShutdown, JoinThread, threadVars
<1>2. ThreadsJoined'
  BY DEF LifetimeInv, ThreadsJoined, JoinThread, queueVars, threadVars, workerVars
<1>3. OnlyThreadLeft'
  BY DEF LifetimeInv, OneShutdown, OnlyThreadLeft, JoinThread, threadVars
<1>4. QED  BY <1>1, <1>2, <1>3

\* Calls are made on an open pool only.
LEMMA CallAddWorkLifetime ==
    ASSUME LifetimeInv, Deniers = {}, NEW c \in Clients, NEW w \in Work, NEW limit \in Timers,
           CallAddWork(c, w, limit)
    PROVE  OneShutdown' /\ ThreadsJoined' /\ OnlyThreadLeft'
<1>1. OneShutdown'
  BY DEF LifetimeInv, OneShutdown, CallAddWork, threadVars, CloserPcs
<1>2. ThreadsJoined'
  BY DEF LifetimeInv, ThreadsJoined, CallAddWork, queueVars, threadVars, workerVars, CloserPcs
<1>3. OnlyThreadLeft'
  BY DEF LifetimeInv, OnlyThreadLeft, CallAddWork, threadVars, workerVars
<1>4. QED  BY <1>1, <1>2, <1>3

\* Calls are made on an open pool only.
LEMMA CallShutdownLifetime ==
    ASSUME LifetimeInv, Deniers = {}, NEW c \in Clients, NEW finishWorkInQueue \in BOOLEAN,
           NEW limit \in Timers, CallShutdown(c, finishWorkInQueue, limit)
    PROVE  OneShutdown' /\ ThreadsJoined' /\ OnlyThreadLeft'
<1>1. OneShutdown'
  BY DEF LifetimeInv, OneShutdown, CallShutdown, threadVars, CloserPcs
<1>2. ThreadsJoined'
  BY DEF LifetimeInv, ThreadsJoined, CallShutdown, queueVars, threadVars, workerVars, CloserPcs
<1>3. OnlyThreadLeft'
  BY DEF OnlyThreadLeft, CallShutdown, threadVars
<1>4. QED  BY <1>1, <1>2, <1>3

\* A wakeup moves nobody.
LEMMA SpuriousWakeupLifetime ==
    ASSUME LifetimeInv, Deniers = {}, NEW x \in Workers \cup Clients, SpuriousWakeup(x)
    PROVE  OneShutdown' /\ ThreadsJoined' /\ OnlyThreadLeft'
<1>1. OneShutdown'
  BY DEF LifetimeInv, OneShutdown, SpuriousWakeup, queueVars, threadVars
<1>2. ThreadsJoined'
  BY DEF LifetimeInv, ThreadsJoined, SpuriousWakeup, queueVars, threadVars, workerVars
<1>3. OnlyThreadLeft'
  BY DEF LifetimeInv, OneShutdown, OnlyThreadLeft, AwakeInv, SharedInv, TypeOK, SpuriousWakeup,
     threadVars
<1>4. QED  BY <1>1, <1>2, <1>3

(***************************************************************************)
(* The life of the pool: the theorem                                       *)
(***************************************************************************)
\* The initial states satisfy the invariant.
LEMMA InitLifetime == Init => LifetimeInv
<1>1. SUFFICES ASSUME Init  PROVE LifetimeInv
  OBVIOUS
<1>2. OneShutdown
  BY <1>1, PoolAssumption DEF Init, OneShutdown, CloserPcs
<1>3. ThreadsJoined /\ OnlyThreadLeft
  BY <1>1 DEF Init, ThreadsJoined, OnlyThreadLeft
<1>4. QED  BY <1>1, <1>2, <1>3, InitAwake DEF LifetimeInv

\* Every step of a pool whose Runnables accept their cancellation preserves it.
LEMMA NextLifetime ==
    ASSUME Deniers = {}
    PROVE  LifetimeInv /\ [Next]_poolVars => LifetimeInv'
<1>1. SUFFICES ASSUME LifetimeInv, [Next]_poolVars
               PROVE  OneShutdown' /\ ThreadsJoined' /\ OnlyThreadLeft'
  BY NextAwake DEF LifetimeInv
<1>2. CASE ConstructorStep
  BY <1>1, <1>2, StartThreadLifetime, StartFailsLifetime, ConstructedLifetime
     DEF ConstructorStep
<1>3. ASSUME NEW t \in Workers, WorkerStep(t)
      PROVE  OneShutdown' /\ ThreadsJoined' /\ OnlyThreadLeft'
  BY <1>1, <1>3, SleepForWorkLifetime, QuitOnShutdownLifetime, TakeWorkLifetime,
     BeginRunLifetime, FinishRunLifetime, CancelledInRunLifetime, ExitThreadLifetime
     DEF WorkerStep
<1>4. ASSUME NEW c \in Clients, Call(c)
      PROVE  OneShutdown' /\ ThreadsJoined' /\ OnlyThreadLeft'
  <2>1. CallTimers \subseteq Timers
    BY PoolAssumption DEF Timers
  <2>2. QED
    BY <1>1, <1>4, <2>1, CallAddWorkLifetime, CallWaitForEmptyQueueLifetime,
       CallShutdownLifetime DEF Call
<1>5. ASSUME NEW c \in Clients, ClientStep(c)
      PROVE  OneShutdown' /\ ThreadsJoined' /\ OnlyThreadLeft'
  <2>1. CASE AddWork(c)
    BY <1>1, <2>1, BlockOnFullQueueLifetime, AddToClosedQueueLifetime, PushWorkLifetime,
       AddWorkTimesOutLifetime DEF AddWork
  <2>2. CASE WaitForEmptyQueue(c)
    BY <1>1, <2>2, WaitForEmptyQueueLifetime
  <2>3. CASE ShutdownStep(c)
    BY <1>1, <2>3, CloseQueueLifetime, DrainQueueLifetime, DrainTimesOutLifetime,
       NotifyWorkersLifetime, NotifyAddersLifetime, EndLoopLifetime, CooperativeCancelLifetime,
       DefinitiveCancelLifetime, JoinThreadLifetime DEF ShutdownStep
  <2>4. QED  BY <1>5, <2>1, <2>2, <2>3 DEF ClientStep
<1>6. CASE Destroy
  BY <1>1, <1>6, DestroyLifetime
<1>7. ASSUME NEW x \in Workers \cup Clients, SpuriousWakeup(x)
      PROVE  OneShutdown' /\ ThreadsJoined' /\ OnlyThreadLeft'
  BY <1>1, <1>7, SpuriousWakeupLifetime
<1>8. CASE UNCHANGED poolVars
  BY <1>1, <1>8 DEF LifetimeInv, OneShutdown, ThreadsJoined, OnlyThreadLeft, poolVars,
     queueVars, threadVars, workerVars
<1>9. QED  BY <1>1, <1>2, <1>3, <1>4, <1>5, <1>6, <1>7, <1>8 DEF Next

\* When no Runnable denies its cancellation, every thread has exited before the pool
\* is freed: also when the destructor finds the pool shut down and waits for
\* nothing, and when the constructor gives up half way.
THEOREM PoolOutlivesThreads ==
    ASSUME Deniers = {}
    PROVE  Spec => []OnlyThreadLeft
<1>1. LifetimeInv => OnlyThreadLeft
  BY DEF LifetimeInv
<1>2. LifetimeInv /\ [Next]_poolVars => LifetimeInv'
  BY NextLifetime
<1>3. QED  BY <1>1, <1>2, InitLifetime, PTL DEF Spec
(***************************************************************************)
(* PoolService and the word of shutdown(): the steps of the fixed pool     *)
(***************************************************************************)
\* The constructor and the steps of addWork() move no work but the one that is pushed.
LEMMA OwnStepAccounted ==
    ASSUME TypeOK, CallsFitPool, WorkAccounted,
           ConstructorStep \/ \E c \in Clients : AddWork(c)
    PROVE  WorkAccounted'
<1>1. CASE ConstructorStep
  <2>1. /\ UNCHANGED <<m_queue, m_shutdown, status, job, cancel, offer>>
        /\ Offerers' = Offerers /\ Holders' = Holders
    BY <1>1, PoolAssumption DEF ConstructorStep, StartFails, Constructed, StartThread, TypeOK,
       queueVars, workerVars, callVars, Offerers, Holders
  <2>2. QED  BY <2>1, AccountFrame
<1>2. ASSUME NEW c \in Clients, BlockOnFullQueue(c)  PROVE WorkAccounted'
  <2>1. Holders' = Holders /\ \A d \in Offerers' : d \in Offerers /\ offer'[d] = offer[d]
    BY <1>2 DEF BlockOnFullQueue, Offerers, Holders, workerVars, callVars, TypeOK
  <2>2. QED  BY <1>2, <2>1, AccountFrame DEF BlockOnFullQueue, queueVars, workerVars
<1>3. ASSUME NEW c \in Clients, AddToClosedQueue(c)  PROVE WorkAccounted'
  BY <1>3, RefusedAccounted DEF AddToClosedQueue, RefuseWork, Offerers
<1>4. ASSUME NEW c \in Clients, PushWork(c)  PROVE WorkAccounted'
  <2>1. c \in Offerers /\ Offerers' = Offerers \ {c} /\ Holders' = Holders
    BY <1>4 DEF PushWork, Return, Offerers, Holders, workerVars, TypeOK
  <2>2. \A d \in Offerers' : offer'[d] = offer[d]
    BY <1>4, <2>1 DEF PushWork, Return, Offerers, TypeOK
  <2>3. QED  BY <1>4, <2>1, <2>2, AppendAccounted DEF PushWork, workerVars
<1>5. ASSUME NEW c \in Clients, AddWorkTimesOut(c)  PROVE WorkAccounted'
  BY <1>5, AddWorkTimesOutAccounted
<1>6. QED  BY <1>1, <1>2, <1>3, <1>4, <1>5 DEF AddWork

\* A constructor that gives up cuts m_threads to the threads that started; addWork() leaves
\* the shutdown alone.
LEMMA OwnStepKeepsWord ==
    ASSUME TypeOK, CallsFitPool, CloserKeepsWord, WholeArray,
           ConstructorStep \/ \E c \in Clients : AddWork(c)
    PROVE  CloserKeepsWord'
<1>1. CASE StartFails
  <2>1. /\ m_threads' = {t \in Workers : wpc[t] # "unstarted"}
        /\ UNCHANGED <<m_queue, wpc, cancel, finish, status, seen>>
        /\ cpc'[Owner] = "shutdown"
        /\ \A c \in Clients \ {Owner} : cpc'[c] = cpc[c] /\ timer'[c] = timer[c]
    BY <1>1, PoolAssumption DEF StartFails, TypeOK, queueVars, workerVars
  <2>2. QED  BY <2>1, PoolAssumption DEF CloserKeepsWord, CloserPcs
<1>2. ASSUME NEW t \in Workers, StartThread(t)  PROVE CloserKeepsWord'
  <2>1. /\ UNCHANGED <<queueVars, threadVars, cancel, cpc, callVars, seen, status>>
        /\ m_threads = Workers
        /\ \A u \in Workers : wpc[u] = "exited" => wpc'[u] = "exited"
    BY <1>2 DEF StartThread, TypeOK, WholeArray
  <2>2. \A c \in Clients : cpc'[c] = "join" => \A u \in seen' : wpc'[u] = "exited"
    BY <2>1 DEF CloserKeepsWord, TypeOK
  <2>3. QED  BY <2>1, <2>2 DEF CloserKeepsWord, queueVars, threadVars, callVars
<1>3. CASE Constructed
  <2>1. \A c \in Clients : cpc'[c] \in CloserPcs
           => cpc'[c] = cpc[c] /\ timer'[c] = timer[c] /\ finish'[c] = finish[c]
    BY <1>3 DEF Constructed, TypeOK, CloserPcs, callVars
  <2>2. QED  BY <1>3, <2>1, CloserFrame DEF Constructed, queueVars, workerVars
<1>4. ASSUME NEW c \in Clients, AddToClosedQueue(c) \/ AddWorkTimesOut(c)
      PROVE  CloserKeepsWord'
  BY <1>4, OtherStepKeepsWord DEF AddToClosedQueue
<1>5. ASSUME NEW c \in Clients, BlockOnFullQueue(c)  PROVE CloserKeepsWord'
  <2>1. \A d \in Clients : cpc'[d] \in CloserPcs
           => cpc'[d] = cpc[d] /\ timer'[d] = timer[d] /\ finish'[d] = finish[d]
    BY <1>5 DEF BlockOnFullQueue, TypeOK, CloserPcs, callVars
  <2>2. QED
    BY <1>5, <2>1, CloserFrame DEF BlockOnFullQueue, queueVars, threadVars, workerVars
<1>6. ASSUME NEW c \in Clients, PushWork(c)  PROVE CloserKeepsWord'
  <2>1. \A d \in Clients : cpc[d] \notin CloserPcs
    BY <1>6 DEF PushWork, QueueClosed, CallsFitPool
  <2>2. \A d \in Clients : cpc'[d] \notin CloserPcs
    BY <1>6, <2>1 DEF PushWork, Return, TypeOK, CloserPcs
  <2>3. \A t \in Workers : wpc'[t] # "unstarted" => t \in m_threads'
    BY <1>6 DEF PushWork, workerVars, CloserKeepsWord
  <2>4. QED  BY <2>2, <2>3, OpenKeepsWord
<1>7. QED  BY <1>1, <1>2, <1>3, <1>4, <1>5, <1>6 DEF ConstructorStep, AddWork

\* Only the constructor that gives up takes a thread out of the array, and it is then no
\* longer at work.
LEMMA NextWholeArray ==
    ASSUME TypeOK, WholeArray, [Next]_poolVars
    PROVE  WholeArray'
<1>1. SUFFICES ASSUME cpc'[Owner] = "ctor"
               PROVE  cpc[Owner] = "ctor" /\ m_threads' = m_threads
  BY DEF WholeArray
<1>2. CASE ConstructorStep
  BY <1>1, <1>2, PoolAssumption DEF ConstructorStep, StartThread, StartFails, Constructed,
     threadVars, TypeOK
<1>3. ASSUME NEW t \in Workers, WorkerStep(t)
      PROVE  cpc[Owner] = "ctor" /\ m_threads' = m_threads
  BY <1>1, <1>3 DEF WorkerStep, SleepForWork, QuitOnShutdown, TakeWork, BeginRun, FinishRun,
     CancelledInRun, ExitThread, threadVars
<1>4. ASSUME NEW c \in Clients, Call(c)
      PROVE  cpc[Owner] = "ctor" /\ m_threads' = m_threads
  BY <1>1, <1>4, PoolAssumption DEF Call, CallAddWork, CallWaitForEmptyQueue, CallShutdown,
     threadVars, TypeOK
<1>5. ASSUME NEW c \in Clients, AddWork(c) \/ WaitForEmptyQueue(c)
      PROVE  cpc[Owner] = "ctor" /\ m_threads' = m_threads
  BY <1>1, <1>5, PoolAssumption DEF AddWork, BlockOnFullQueue, AddToClosedQueue, RefuseWork,
     PushWork, AddWorkTimesOut, WaitForEmptyQueue, Return, threadVars, TypeOK
<1>6. ASSUME NEW c \in Clients, ShutdownStep(c)
      PROVE  cpc[Owner] = "ctor" /\ m_threads' = m_threads
  <2>1. CASE CloseQueue(c) \/ DrainQueue(c) \/ DrainTimesOut(c)
    BY <1>1, <2>1, PoolAssumption DEF CloseQueue, DrainQueue, DrainTimesOut, Return,
       threadVars, TypeOK
  <2>2. CASE NotifyWorkers(c) \/ NotifyAdders(c) \/ EndLoop(c)
    BY <1>1, <2>2, PoolAssumption DEF NotifyWorkers, NotifyAdders, EndLoop, Return,
       threadVars, TypeOK
  <2>3. ASSUME NEW t \in Workers,
               CooperativeCancel(c, t) \/ DefinitiveCancel(c, t) \/ JoinThread(c, t)
        PROVE  cpc[Owner] = "ctor" /\ m_threads' = m_threads
    BY <1>1, <2>3, PoolAssumption DEF CooperativeCancel, DefinitiveCancel, JoinThread, Return,
       threadVars, TypeOK
  <2>4. QED  BY <1>6, <2>1, <2>2, <2>3 DEF ShutdownStep
<1>7. CASE Destroy \/ (\E x \in Workers \cup Clients : SpuriousWakeup(x)) \/ UNCHANGED poolVars
  BY <1>1, <1>7, PoolAssumption DEF Destroy, SpuriousWakeup, poolVars, threadVars, TypeOK
<1>8. QED  BY <1>2, <1>3, <1>4, <1>5, <1>6, <1>7 DEF Next, ClientStep

(***************************************************************************)
(* PoolService and the word of shutdown(): the theorems                    *)
(***************************************************************************)
\* The initial states satisfy the invariant.
LEMMA InitServes == Init => ServiceInv /\ Service!ServiceInit
<1>1. SUFFICES ASSUME Init  PROVE ServiceInv /\ Service!ServiceInit
  OBVIOUS
<1>2. WorkAccounted
  BY <1>1, PoolAssumption DEF Init, WorkAccounted, Offerers, Holders
<1>3. CloserKeepsWord /\ WholeArray
  BY <1>1, PoolAssumption DEF Init, CloserKeepsWord, CloserPcs, WholeArray
<1>4. Service!ServiceInit
  BY <1>1 DEF Init, Service!ServiceInit
<1>5. QED  BY <1>1, <1>2, <1>3, <1>4, InitAwake DEF ServiceInv

\* No step loses a Runnable or gives it to two, nor breaks the word of a shutdown.
LEMMA NextServiceInv == ServiceInv /\ [Next]_poolVars => ServiceInv'
<1>1. SUFFICES ASSUME ServiceInv, [Next]_poolVars  PROVE ServiceInv'
  OBVIOUS
<1>2. TypeOK /\ CallsFitPool /\ WorkAccounted /\ CloserKeepsWord /\ WholeArray /\ AwakeInv
  BY <1>1 DEF ServiceInv, AwakeInv, SharedInv
<1>3. AwakeInv' /\ WholeArray'
  BY <1>1, <1>2, NextAwake, NextWholeArray
<1>4. WorkAccounted' /\ CloserKeepsWord'
  <2>1. CASE ConstructorStep \/ \E c \in Clients : AddWork(c)
    BY <1>2, <2>1, OwnStepAccounted, OwnStepKeepsWord
  <2>2. ASSUME NEW t \in Workers, WorkerStep(t)
        PROVE  WorkAccounted' /\ CloserKeepsWord'
    BY <1>2, <2>2, WorkerStepAccounted, WorkerStepKeepsWord
  <2>3. ASSUME NEW c \in Clients, Call(c)
        PROVE  WorkAccounted' /\ CloserKeepsWord'
    BY <1>2, <2>3, CallTimersAreTimers, CallAddWorkAccounted, OtherStepAccounted,
       OtherStepKeepsWord DEF Call
  <2>4. ASSUME NEW c \in Clients, ShutdownStep(c)
        PROVE  WorkAccounted' /\ CloserKeepsWord'
    BY <1>2, <2>4, ShutdownStepAccounted, ShutdownStepKeepsWord
  <2>5. CASE \/ \E c \in Clients : WaitForEmptyQueue(c)
             \/ Destroy
             \/ \E x \in Workers \cup Clients : SpuriousWakeup(x)
             \/ UNCHANGED poolVars
    BY <1>2, <2>5, OtherStepAccounted, OtherStepKeepsWord
  <2>6. QED  BY <1>1, <2>1, <2>2, <2>3, <2>4, <2>5 DEF Next, ClientStep
<1>5. QED  BY <1>3, <1>4 DEF ServiceInv

\* Whatever a step of the pool is, it is one of the service or none.
LEMMA NextServes ==
    ASSUME ServiceInv, [Next]_poolVars
    PROVE  [Service!ServiceNext]_(Service!serviceVars)
<1>1. TypeOK /\ CallsFitPool /\ WorkAccounted
  BY DEF ServiceInv, AwakeInv, SharedInv
<1>2. ASSUME NEW c \in Clients, AddWork(c)
      PROVE  [Service!ServiceNext]_(Service!serviceVars)
  <2>1. CASE BlockOnFullQueue(c)
    BY <1>1, <2>1, ServiceStutters DEF BlockOnFullQueue
  <2>2. CASE PushWork(c)
    <3>1. \E w \in Work : Service!Accept(w)
      BY <1>1, <2>2, AppendAccepts DEF PushWork, Offerers
    <3>2. QED  BY <3>1 DEF Service!ServiceNext
  <2>3. CASE AddToClosedQueue(c) \/ AddWorkTimesOut(c)
    <3>1. \E w \in Work : Service!Refuse(w)
      BY <1>1, <2>3, RefusalRefuses DEF AddToClosedQueue, RefuseWork, AddWorkTimesOut, Offerers
    <3>2. QED  BY <3>1 DEF Service!ServiceNext
  <2>4. QED  BY <1>2, <2>1, <2>2, <2>3 DEF AddWork
<1>3. ASSUME NEW c \in Clients, Call(c)
      PROVE  [Service!ServiceNext]_(Service!serviceVars)
  BY <1>1, <1>3, CallServes DEF Call
<1>4. ASSUME NEW c \in Clients, ShutdownStep(c)
      PROVE  [Service!ServiceNext]_(Service!serviceVars)
  BY <1>1, <1>4, ShutdownClosesOrStops DEF Service!ServiceNext
<1>5. ASSUME NEW t \in Workers, WorkerStep(t)
      PROVE  [Service!ServiceNext]_(Service!serviceVars)
  BY <1>1, <1>5, WorkerStepServes
<1>6. CASE \/ ConstructorStep \/ Destroy
           \/ \E c \in Clients : WaitForEmptyQueue(c)
           \/ \E x \in Workers \cup Clients : SpuriousWakeup(x)
           \/ UNCHANGED poolVars
  <2>1. UNCHANGED queueVars /\ status' = status
    BY <1>6 DEF ConstructorStep, StartFails, Constructed, StartThread, Destroy,
       WaitForEmptyQueue, SpuriousWakeup, poolVars
  <2>2. QED  BY <1>1, <2>1, ServiceStutters
<1>7. QED  BY <1>2, <1>3, <1>4, <1>5, <1>6 DEF Next, ClientStep

\* The fixed pool keeps the promises of ThreadPool.hpp: it starts accepted work in the
\* order it was accepted, once, by no more workers than it has, accepts no
\* work beyond its bound or after the close, and starts nothing when it is stopped.
THEOREM PoolImplementsService == Spec => ImplementsService
  BY InitServes, NextServiceInv, NextServes, PTL
  DEF Spec, ImplementsService, Service!ServiceSpec

\* A step that ends the joins of a client is the end of its loop.
LEMMA JoinsEndInTheLoop ==
    ASSUME TypeOK, [Next]_poolVars, NEW c \in Clients, cpc[c] = "join", cpc'[c] = "idle"
    PROVE  EndLoop(c)
<1>1. CASE \/ \E t \in Workers : WorkerStep(t)
           \/ Destroy
           \/ \E x \in Workers \cup Clients : SpuriousWakeup(x)
           \/ UNCHANGED poolVars
  <2>1. cpc'[c] = "join"
    BY <1>1, OthersLeaveTheJoins
  <2>2. QED  BY <2>1
<1>2. CASE ConstructorStep
  BY <1>2 DEF ConstructorStep, StartFails, Constructed, StartThread, TypeOK
<1>3. ASSUME NEW d \in Clients, Call(d) \/ WaitForEmptyQueue(d) \/ ShutdownStep(d)
      PROVE  EndLoop(c)
  BY <1>3, JoinsEndWithTheLoop DEF Call
<1>4. ASSUME NEW d \in Clients, AddToClosedQueue(d) \/ AddWorkTimesOut(d)
      PROVE  EndLoop(c)
  BY <1>4, JoinsEndWithTheLoop DEF AddToClosedQueue
<1>5. ASSUME NEW d \in Clients, BlockOnFullQueue(d) \/ PushWork(d)
      PROVE  EndLoop(c)
  BY <1>5 DEF BlockOnFullQueue, PushWork, Return, TypeOK
<1>6. QED  BY <1>1, <1>2, <1>3, <1>4, <1>5 DEF Next, ClientStep, AddWork

\* The step that returns from such a shutdown leaves no accepted work behind.
LEMMA NextFinishes ==
    ASSUME ServiceInv, [Next]_poolVars
    PROVE  \A c \in Clients :
              cpc[c] = "join" /\ cpc'[c] = "idle" /\ finish[c] /\ timer[c] = "infinite"
                 => \A w \in Work : status[w] \notin {"queued", "running", "cut"}
  BY JoinsEndInTheLoop, LoopEndFinishes DEF ServiceInv, AwakeInv, SharedInv

\* shutdown(E_FINISH_WORK_IN_QUEUE) without a limit means what it says, in every
\* interleaving with clients that add, wait or shut down.
THEOREM ShutdownFinishes == Spec => FinishMeansFinished
<1>1. ServiceInv /\ [Next]_poolVars
         => [\A c \in Clients :
               cpc[c] = "join" /\ cpc'[c] = "idle" /\ finish[c] /\ timer[c] = "infinite"
                  => \A w \in Work : status[w] \notin {"queued", "running", "cut"}]_poolVars
  BY NextFinishes
<1>2. QED  BY <1>1, InitServes, NextServiceInv, PTL DEF Spec, FinishMeansFinished
=============================================================================
