-------------------------- MODULE DynamicPoolProofs --------------------------
(***************************************************************************)
(* Proofs about DynamicPool, for both kinds of dynamic pool, any number of *)
(* threads, clients and Runnables and any queue size: the count of busy    *)
(* workers is right, no wakeup of a client is lost, the pool implements    *)
(* PoolService, and a shutdown that finishes the work keeps its word.      *)
(***************************************************************************)
EXTENDS DynamicPool, CommonPoolProofs

Busy == {t \in Workers : wpc[t] \in {"gotWork", "run", "ranWork"}}

(***************************************************************************)
(* The busy workers and their count                                        *)
(***************************************************************************)
\* The busy workers are some of the workers.
LEMMA BusyIsFinite ==
    /\ IsFiniteSet(Busy) /\ Cardinality(Busy) \in Nat
    /\ Cardinality(Busy) <= Cardinality(Workers) /\ Cardinality(Workers) \in Nat
<1>1. Busy \in SUBSET Workers
  BY DEF Busy
<1>2. IsFiniteSet(Workers) /\ Cardinality(Workers) \in Nat
  BY PoolAssumption, FS_CardinalityType
<1>3. QED  BY <1>1, <1>2, FS_Subset, FS_CardinalityType

\* What ThreadsAreBounded says of the counter, in terms of Busy.
LEMMA BoundIsCount ==
    ThreadsAreBounded <=> /\ PoolType = "DYNAMIC_SIZE_NO_QUEUE"
                                => /\ m_workingThreads + Len(m_queue) <= Cardinality(Workers)
                                   /\ m_workingThreads >= Cardinality(Busy)
                          /\ \A t \in Workers : wpc[t] # "unstarted" => t \in m_threads
  BY DEF ThreadsAreBounded, Busy, m_maxThreads

\* Workers that stop being busy, and a queue that gets no longer, need no counting.
LEMMA BoundFrame ==
    ASSUME TypeOK, ThreadsAreBounded,
           m_workingThreads' = m_workingThreads, m_queue' = m_queue,
           \A t \in Workers : wpc'[t] = wpc[t] \/ wpc'[t] \notin {"gotWork", "run", "ranWork"}
                              \/ wpc[t] \in {"gotWork", "run", "ranWork"},
           \A t \in Workers : wpc'[t] # "unstarted" => t \in m_threads'
    PROVE  ThreadsAreBounded'
<1>1. Busy' \in SUBSET Busy
  BY DEF Busy
<1>2. Cardinality(Busy') <= Cardinality(Busy) /\ Cardinality(Busy') \in Nat
  BY <1>1, BusyIsFinite, FS_Subset, FS_CardinalityType
<1>3. m_workingThreads \in Nat /\ Cardinality(Busy) \in Nat
  BY BusyIsFinite DEF TypeOK
<1>4. PoolType = "DYNAMIC_SIZE_NO_QUEUE" => m_workingThreads >= Cardinality(Busy')
  BY <1>2, <1>3, BoundIsCount
<1>5. PoolType = "DYNAMIC_SIZE_NO_QUEUE"
         => m_workingThreads' + Len(m_queue') <= Cardinality(Workers)
  BY BoundIsCount
<1>6. QED  BY <1>4, <1>5 DEF ThreadsAreBounded, Busy, m_maxThreads

\* Work that leaves the queue is counted with the worker that took it.
LEMMA TakeWorkBound ==
    ASSUME TypeOK, ThreadsAreBounded, NEW t \in Workers, TakeWork(t)
    PROVE  ThreadsAreBounded'
<1>1. wpc[t] = "getWork" /\ wpc' = [wpc EXCEPT ![t] = "gotWork"] /\ m_threads' = m_threads
  BY DEF TakeWork
<1>2. Busy' = Busy \cup {t} /\ t \notin Busy
  BY <1>1 DEF TypeOK, Busy
<1>3. Cardinality(Busy') = Cardinality(Busy) + 1
  BY <1>2, BusyIsFinite, FS_AddElement
<1>4. Len(m_queue) \in Nat /\ Len(m_queue') = Len(m_queue) - 1
  BY DEF TypeOK, TakeWork
<1>5. PoolType = "DYNAMIC_SIZE_NO_QUEUE"
         => /\ m_workingThreads' = m_workingThreads + 1 /\ m_workingThreads \in Nat
            /\ m_workingThreads + Len(m_queue) <= Cardinality(Workers)
            /\ m_workingThreads >= Cardinality(Busy)
  BY BoundIsCount DEF TypeOK, TakeWork
<1>6. PoolType = "DYNAMIC_SIZE_NO_QUEUE"
         => /\ m_workingThreads' + Len(m_queue') <= Cardinality(Workers)
            /\ m_workingThreads' >= Cardinality(Busy')
  BY <1>3, <1>4, <1>5, BusyIsFinite
<1>7. \A u \in Workers : wpc'[u] # "unstarted" => u \in m_threads'
  BY <1>1 DEF TypeOK, ThreadsAreBounded
<1>8. QED  BY <1>6, <1>7 DEF ThreadsAreBounded, Busy, m_maxThreads

\* A worker that has run its work was counted.
LEMMA BusyWorkerIsCounted ==
    ASSUME TypeOK, ThreadsAreBounded, NEW t \in Workers, wpc[t] = "ranWork",
           PoolType = "DYNAMIC_SIZE_NO_QUEUE"
    PROVE  m_workingThreads - 1 \in Nat /\ m_workingThreads - 1 >= Cardinality(Busy \ {t})
<1>1. t \in Busy
  BY DEF Busy
<1>2. /\ Cardinality(Busy \ {t}) = Cardinality(Busy) - 1
      /\ IsFiniteSet(Busy \ {t}) /\ Cardinality(Busy \ {t}) \in Nat
  BY <1>1, BusyIsFinite, FS_RemoveElement, FS_CardinalityType
<1>3. m_workingThreads \in Nat /\ m_workingThreads >= Cardinality(Busy)
  BY BoundIsCount DEF TypeOK
<1>4. QED  BY <1>2, <1>3, BusyIsFinite

\* decrementWorkerCount() takes back what the pop counted.
LEMMA DecrementWorkerCountBound ==
    ASSUME TypeOK, ThreadsAreBounded, NEW t \in Workers, DecrementWorkerCount(t)
    PROVE  ThreadsAreBounded'
<1>1. wpc[t] = "ranWork" /\ wpc' = [wpc EXCEPT ![t] = "getWork"]
      /\ UNCHANGED <<m_queue, m_threads>>
  BY DEF DecrementWorkerCount, queueVars
<1>2. Busy' = Busy \ {t}
  BY <1>1 DEF TypeOK, Busy
<1>3. Len(m_queue) \in Nat
  BY DEF TypeOK
<1>4. PoolType = "DYNAMIC_SIZE_NO_QUEUE"
         => /\ m_workingThreads' = m_workingThreads - 1
            /\ m_workingThreads + Len(m_queue) <= Cardinality(Workers)
            /\ m_workingThreads - 1 \in Nat /\ m_workingThreads - 1 >= Cardinality(Busy')
  BY <1>1, <1>2, BoundIsCount, BusyWorkerIsCounted DEF DecrementWorkerCount
<1>5. PoolType = "DYNAMIC_SIZE_NO_QUEUE"
         => /\ m_workingThreads' + Len(m_queue') <= Cardinality(Workers)
            /\ m_workingThreads' >= Cardinality(Busy')
  BY <1>1, <1>3, <1>4, BusyIsFinite, DynamicAssumption DEF TypeOK
<1>6. \A u \in Workers : wpc'[u] # "unstarted" => u \in m_threads'
  BY <1>1 DEF TypeOK, ThreadsAreBounded
<1>7. QED  BY <1>5, <1>6 DEF ThreadsAreBounded, Busy, m_maxThreads

\* Work is pushed only while there is a thread for it, free or to be started.
LEMMA PushWorkBound ==
    ASSUME TypeOK, ThreadsAreBounded, NEW c \in Clients, PushWork(c)
    PROVE  ThreadsAreBounded'
<1>1. \A t \in Workers : wpc'[t] \in {wpc[t], "unstarted"}
  BY DEF PushWork, ReapDeadThreads, TypeOK
<1>2. Busy' \in SUBSET Busy
  BY <1>1 DEF Busy
<1>3. Cardinality(Busy') <= Cardinality(Busy) /\ Cardinality(Busy') \in Nat
  BY <1>2, BusyIsFinite, FS_Subset, FS_CardinalityType
<1>4. /\ Len(m_queue) \in Nat /\ Len(m_queue') = Len(m_queue) + 1
      /\ m_workingThreads' = m_workingThreads /\ m_workingThreads \in Nat
  BY DEF TypeOK, PushWork
<1>5. PoolType = "DYNAMIC_SIZE_NO_QUEUE"
         => /\ ~(Cardinality(Workers) <= Len(m_queue) + m_workingThreads)
            /\ m_workingThreads >= Cardinality(Busy)
  BY BoundIsCount DEF PushWork, QueueIsFull
<1>6. PoolType = "DYNAMIC_SIZE_NO_QUEUE"
         => /\ m_workingThreads' + Len(m_queue') <= Cardinality(Workers)
            /\ m_workingThreads' >= Cardinality(Busy')
  BY <1>3, <1>4, <1>5, BusyIsFinite
<1>7. \A t \in Workers : wpc'[t] # "unstarted" => t \in m_threads'
  BY DEF TypeOK, ThreadsAreBounded, PushWork, ReapDeadThreads, Dead
<1>8. QED  BY <1>6, <1>7 DEF ThreadsAreBounded, Busy, m_maxThreads
(***************************************************************************)
(* The steps of the dynamic pools' own                                     *)
(***************************************************************************)
\* While nothing is shut down, the threads found dead are those that have exited.
LEMMA ReapedThreads ==
    ASSUME TypeOK, WorkAccounted, ThreadsAreBounded, ~m_shutdown, NEW c \in Clients,
           ReapDeadThreads(c)
    PROVE  /\ wpc' \in [Workers -> WorkerPcs] /\ m_threads' \subseteq Workers
           /\ \A t \in Workers : \/ wpc'[t] = wpc[t]
                                 \/ wpc[t] \in {"unstarted", "exited"} /\ wpc'[t] = "unstarted"
           /\ \A t \in Workers : wpc'[t] # "unstarted" => t \in m_threads'
<1>1. \A t \in Workers : cancel[t] = "none"
  BY DEF TypeOK, WorkAccounted
<1>2. \A t \in Dead : wpc[t] \in {"unstarted", "exited"}
  BY <1>1 DEF Dead, IsRunning, TypeOK
<1>3. CASE cpc[c] = "add"
  BY <1>2, <1>3 DEF ReapDeadThreads, TypeOK, ThreadsAreBounded, WorkerPcs
<1>4. CASE cpc[c] # "add"
  BY <1>4 DEF ReapDeadThreads, TypeOK, ThreadsAreBounded
<1>5. QED  BY <1>3, <1>4

\* A worker whose wait is over goes, and leaves the queue to the others.
LEMMA WaitForWorkTimesOutShared ==
    ASSUME SharedInv, NEW t \in Workers, WaitForWorkTimesOut(t)
    PROVE  SharedInv'
<1>1. TypeOK'
  BY DEF SharedInv, TypeOK, WaitForWorkTimesOut, queueVars, threadVars, callVars, WorkerPcs
<1>2. CallsFitPool'
  BY DEF SharedInv, CallsFitPool, WaitForWorkTimesOut, queueVars, callVars
<1>3. ClientsAwake'
  BY DEF SharedInv, ClientsAwake, WaitForWorkTimesOut, queueVars, threadVars, OnNotFull, OnEmpty
<1>4. QED  BY <1>1, <1>2, <1>3 DEF SharedInv

\* A worker that is free again tells whoever waits for it.
LEMMA DecrementWorkerCountShared ==
    ASSUME SharedInv, ThreadsAreBounded, NEW t \in Workers, DecrementWorkerCount(t)
    PROVE  SharedInv'
<1>1. TypeOK'
  <2>1. m_workingThreads' \in Nat /\ waiting' \subseteq waiting
    BY BusyWorkerIsCounted DEF SharedInv, TypeOK, DecrementWorkerCount
  <2>2. QED
    BY <2>1 DEF SharedInv, TypeOK, DecrementWorkerCount, queueVars, callVars, WorkerPcs
<1>2. CallsFitPool'
  BY DEF SharedInv, CallsFitPool, DecrementWorkerCount, queueVars, callVars
<1>3. ClientsAwake'
  BY DEF SharedInv, ClientsAwake, DecrementWorkerCount, queueVars, OnNotFull, OnEmpty
<1>4. QED  BY <1>1, <1>2, <1>3 DEF SharedInv

\* A closed queue refuses.
LEMMA AddToClosedQueueShared ==
    ASSUME SharedInv, NEW c \in Clients, AddToClosedQueue(c)
    PROVE  SharedInv'
  BY RefuseWorkShared DEF AddToClosedQueue

\* A client goes to sleep only on a full queue.
LEMMA BlockOnFullQueueShared ==
    ASSUME PoolInv, NEW c \in Clients, BlockOnFullQueue(c)
    PROVE  SharedInv'
<1>1. TypeOK /\ CallsFitPool /\ ~m_shutdown
  BY DEF PoolInv, SharedInv, BlockOnFullQueue, QueueClosed
<1>2. /\ wpc' \in [Workers -> WorkerPcs] /\ m_threads' \subseteq Workers
      /\ \A t \in Workers : \/ wpc'[t] = wpc[t]
                            \/ wpc[t] \in {"unstarted", "exited"} /\ wpc'[t] = "unstarted"
  BY <1>1, ReapedThreads DEF PoolInv, BlockOnFullQueue
<1>3. TypeOK'
  <2>1. /\ \A t \in Workers : t \in waiting' => wpc'[t] = "getWork"
        /\ \A t \in Workers : job'[t] # NoWork <=> wpc'[t] \in {"gotWork", "run", "ranWork"}
    BY <1>1, <1>2, PoolAssumption DEF TypeOK, BlockOnFullQueue
  <2>2. cpc' \in [Clients -> ClientPcs] /\ waiting' \subseteq Workers \cup Clients
    BY <1>1 DEF TypeOK, BlockOnFullQueue, ClientPcs, AddPcs
  <2>3. \A d \in Clients : d \in waiting' => cpc'[d] \in {"blocked", "empty", "drain"}
    BY <1>1 DEF TypeOK, BlockOnFullQueue
  <2>4. QED
    BY <1>1, <1>2, <2>1, <2>2, <2>3 DEF TypeOK, BlockOnFullQueue, queueVars, callVars
<1>4. CallsFitPool'
  BY <1>1 DEF CallsFitPool, TypeOK, BlockOnFullQueue, queueVars, callVars, AddPcs, CloserPcs
<1>5. ClientsAwake'
  <2>1. QueueIsFull(m_queue, m_workingThreads)' /\ ~m_shutdown'
    BY <1>1 DEF BlockOnFullQueue, queueVars, QueueIsFull
  <2>2. OnEmpty' \subseteq OnEmpty
    BY DEF BlockOnFullQueue, OnEmpty, TypeOK
  <2>3. QED
    BY <2>1, <2>2 DEF PoolInv, SharedInv, ClientsAwake, BlockOnFullQueue, queueVars
<1>6. QED  BY <1>3, <1>4, <1>5 DEF SharedInv

\* Work in the queue keeps nobody awake who waits for an empty one.
LEMMA PushWorkShared ==
    ASSUME PoolInv, NEW c \in Clients, PushWork(c)
    PROVE  SharedInv'
<1>1. TypeOK /\ CallsFitPool /\ ~m_shutdown /\ offer[c] \in Work
  BY DEF PoolInv, SharedInv, PushWork, QueueClosed, CallsFitPool, AddPcs
<1>2. /\ wpc' \in [Workers -> WorkerPcs] /\ m_threads' \subseteq Workers
      /\ \A t \in Workers : \/ wpc'[t] = wpc[t]
                            \/ wpc[t] \in {"unstarted", "exited"} /\ wpc'[t] = "unstarted"
  BY <1>1, ReapedThreads DEF PoolInv, PushWork
<1>3. TypeOK'
  <2>1. /\ \A t \in Workers : t \in waiting' => wpc'[t] = "getWork"
        /\ \A t \in Workers : job'[t] # NoWork <=> wpc'[t] \in {"gotWork", "run", "ranWork"}
    BY <1>1, <1>2 DEF TypeOK, PushWork
  <2>2. /\ cpc' \in [Clients -> ClientPcs] /\ waiting' \subseteq Workers \cup Clients
        /\ m_queue' \in Seq(Work)
        /\ status' \in [Work -> Statuses]
    BY <1>1 DEF TypeOK, PushWork, ClientPcs, AddPcs, Statuses
  <2>3. \A d \in Clients : d \in waiting' => cpc'[d] \in {"blocked", "empty", "drain"}
    BY <1>1 DEF TypeOK, PushWork
  <2>4. QED
    BY <1>1, <1>2, <2>1, <2>2, <2>3 DEF TypeOK, PushWork, callVars
<1>4. CallsFitPool'
  BY <1>1 DEF CallsFitPool, TypeOK, PushWork, callVars, AddPcs, CloserPcs
<1>5. ClientsAwake'
  <2>1. ~QueueIsFull(m_queue, m_workingThreads)
    BY DEF PushWork
  <2>2. \A d \in Clients : cpc[d] \notin CloserPcs
    BY <1>1 DEF CallsFitPool, PushWork, QueueClosed
  <2>3. OnNotFull = {}
    BY <2>1, <2>2 DEF PoolInv, SharedInv, ClientsAwake, CloserPcs
  <2>4. OnNotFull' = {}
    BY <1>1, <2>3 DEF PushWork, OnNotFull, TypeOK
  <2>5. m_queue' # <<>>
    BY <1>1 DEF PushWork, TypeOK
  <2>6. QED  BY <2>4, <2>5 DEF ClientsAwake
<1>6. QED  BY <1>3, <1>4, <1>5 DEF SharedInv

\* The notification of addWork() wakes a worker at most.
LEMMA NotifyOneWorkerShared ==
    ASSUME SharedInv, NEW c \in Clients, NotifyOneWorker(c)
    PROVE  SharedInv'
<1>1. /\ waiting' \subseteq waiting /\ \A d \in Clients : d \in waiting' <=> d \in waiting
      /\ cpc' = [cpc EXCEPT ![c] = "relock"] /\ cpc[c] = "notifyOne"
  BY PoolAssumption DEF NotifyOneWorker, OnNotEmpty
<1>2. TypeOK'
  BY <1>1 DEF SharedInv, TypeOK, NotifyOneWorker, queueVars, threadVars, workerVars, callVars,
     ClientPcs, AddPcs
<1>3. CallsFitPool'
  BY <1>1 DEF SharedInv, TypeOK, CallsFitPool, NotifyOneWorker, queueVars, callVars, AddPcs,
     CloserPcs
<1>4. ClientsAwake'
  BY <1>1 DEF SharedInv, TypeOK, ClientsAwake, NotifyOneWorker, queueVars, threadVars, OnNotFull,
     OnEmpty
<1>5. QED  BY <1>2, <1>3, <1>4 DEF SharedInv

\* addWork() returns with its work in the queue.
LEMMA NoNewThreadShared ==
    ASSUME SharedInv, NEW c \in Clients, NoNewThread(c)
    PROVE  SharedInv'
<1>1. TypeOK'
  BY ReturnType DEF SharedInv, TypeOK, NoNewThread, queueVars, workerVars
<1>2. CallsFitPool'
  BY DEF SharedInv, CallsFitPool, TypeOK, NoNewThread, Return, queueVars, AddPcs, CloserPcs
<1>3. ClientsAwake'
  BY DEF SharedInv, TypeOK, ClientsAwake, NoNewThread, Return, queueVars, OnNotFull, OnEmpty
<1>4. QED  BY <1>1, <1>2, <1>3 DEF SharedInv

\* What addWork() does to the threads when it may start one.
LEMMA StartedThread ==
    ASSUME TypeOK, ThreadsAreBounded, NEW c \in Clients, StartNewThread(c)
    PROVE  /\ wpc' \in [Workers -> WorkerPcs] /\ m_threads' \subseteq Workers
           /\ \A t \in Workers : \/ wpc'[t] = wpc[t]
                                 \/ /\ wpc[t] = "unstarted" /\ wpc'[t] = "getWork"
                                    /\ t \notin waiting
           /\ \A t \in Workers : wpc'[t] # "unstarted" => t \in m_threads'
<1>1. CASE UNCHANGED <<m_threads, wpc>>
  BY <1>1 DEF TypeOK, ThreadsAreBounded
<1>2. ASSUME NEW t \in Workers \ m_threads, m_threads' = m_threads \cup {t},
             wpc' = [wpc EXCEPT ![t] = "getWork"]
      PROVE  /\ wpc' \in [Workers -> WorkerPcs] /\ m_threads' \subseteq Workers
             /\ \A u \in Workers : \/ wpc'[u] = wpc[u]
                                   \/ /\ wpc[u] = "unstarted" /\ wpc'[u] = "getWork"
                                      /\ u \notin waiting
             /\ \A u \in Workers : wpc'[u] # "unstarted" => u \in m_threads'
  BY <1>2 DEF TypeOK, ThreadsAreBounded, WorkerPcs
<1>3. QED  BY <1>1, <1>2 DEF StartNewThread

\* A new thread wakes nobody and nobody waits for it.
LEMMA StartNewThreadShared ==
    ASSUME SharedInv, ThreadsAreBounded, NEW c \in Clients, StartNewThread(c)
    PROVE  SharedInv'
<1>0. TypeOK
  BY DEF SharedInv
<1>1. TypeOK'
  <2>1. /\ \A t \in Workers : t \in waiting' => wpc'[t] = "getWork"
        /\ \A t \in Workers : job'[t] # NoWork <=> wpc'[t] \in {"gotWork", "run", "ranWork"}
    BY <1>0, StartedThread DEF TypeOK, StartNewThread
  <2>2. \A d \in Clients : d \in waiting' => cpc'[d] \in {"blocked", "empty", "drain"}
    BY <1>0, ReturnType DEF TypeOK, StartNewThread
  <2>3. QED
    BY <1>0, <2>1, <2>2, ReturnType, StartedThread DEF TypeOK, StartNewThread, queueVars
<1>2. CallsFitPool'
  BY DEF SharedInv, CallsFitPool, TypeOK, StartNewThread, Return, queueVars, AddPcs, CloserPcs
<1>3. ClientsAwake'
  BY DEF SharedInv, TypeOK, ClientsAwake, StartNewThread, Return, queueVars, OnNotFull, OnEmpty
<1>4. QED  BY <1>1, <1>2, <1>3 DEF SharedInv
(***************************************************************************)
(* No Runnable is lost or doubled by the dynamic pools' own steps          *)
(***************************************************************************)
\* A worker between two Runnables holds none.
LEMMA OwnWorkerStepAccounted ==
    ASSUME TypeOK, WorkAccounted, NEW t \in Workers,
           WaitForWorkTimesOut(t) \/ DecrementWorkerCount(t)
    PROVE  WorkAccounted'
<1>1. /\ m_queue' = m_queue /\ status' = status /\ m_shutdown' = m_shutdown
      /\ cancel' = cancel /\ cpc' = cpc /\ offer' = offer
  BY DEF WaitForWorkTimesOut, DecrementWorkerCount, queueVars, callVars
<1>2. Holders' = Holders /\ \A u \in Holders : job'[u] = job[u]
  <2>1. CASE WaitForWorkTimesOut(t)
    BY <2>1 DEF WaitForWorkTimesOut, Holders, TypeOK
  <2>2. CASE DecrementWorkerCount(t)
    BY <2>2 DEF DecrementWorkerCount, Holders, TypeOK
  <2>3. QED  BY <2>1, <2>2
<1>3. Offerers' = Offerers
  BY <1>1 DEF Offerers
<1>4. QED  BY <1>1, <1>2, <1>3, AccountFrame

\* The push moves the work of its client into the queue; the other steps of addWork()
\* move none, and a thread that is joined or started holds none.
LEMMA OwnAddWorkAccounted ==
    ASSUME PoolInv, NEW c \in Clients, AddWork(c)
    PROVE  WorkAccounted'
<1>1. TypeOK /\ CallsFitPool /\ WorkAccounted /\ ThreadsAreBounded
  BY DEF PoolInv, SharedInv
<1>2. CASE AddToClosedQueue(c)
  BY <1>1, <1>2, RefusedAccounted DEF AddToClosedQueue, RefuseWork, Offerers
<1>3. CASE BlockOnFullQueue(c)
  <2>1. Holders' = Holders
    BY <1>1, <1>3, ReapedThreads DEF BlockOnFullQueue, QueueClosed, Holders
  <2>2. \A d \in Offerers' : d \in Offerers /\ offer'[d] = offer[d]
    BY <1>1, <1>3 DEF BlockOnFullQueue, Offerers, callVars, TypeOK
  <2>3. QED  BY <1>1, <1>3, <2>1, <2>2, AccountFrame DEF BlockOnFullQueue, queueVars
<1>4. CASE PushWork(c)
  <2>1. Holders' = Holders
    BY <1>1, <1>4, ReapedThreads DEF PushWork, QueueClosed, Holders
  <2>2. c \in Offerers /\ Offerers' = Offerers \ {c} /\ offer' = offer
    BY <1>1, <1>4 DEF PushWork, Offerers, callVars, TypeOK
  <2>3. QED  BY <1>1, <1>4, <2>1, <2>2, AppendAccounted DEF PushWork
<1>5. CASE AddWorkTimesOut(c)
  BY <1>1, <1>5, AddWorkTimesOutAccounted
<1>6. CASE NotifyOneWorker(c)
  <2>1. Holders' = Holders /\ Offerers' = Offerers
    BY <1>1, <1>6 DEF NotifyOneWorker, Holders, Offerers, workerVars, TypeOK
  <2>2. QED
    BY <1>1, <1>6, <2>1, AccountFrame DEF NotifyOneWorker, queueVars, workerVars, callVars
<1>7. CASE NoNewThread(c) \/ StartNewThread(c)
  <2>1. Holders' = Holders
    BY <1>1, <1>7, StartedThread DEF NoNewThread, Holders, workerVars
  <2>2. \A d \in Offerers' : d \in Offerers /\ offer'[d] = offer[d]
    BY <1>1, <1>7 DEF NoNewThread, StartNewThread, Return, Offerers, TypeOK
  <2>3. QED
    BY <1>1, <1>7, <2>1, <2>2, AccountFrame DEF NoNewThread, StartNewThread, queueVars,
       workerVars
<1>8. QED  BY <1>2, <1>3, <1>4, <1>5, <1>6, <1>7 DEF AddWork

(***************************************************************************)
(* Who shuts down keeps its word, whatever the dynamic pools do            *)
(***************************************************************************)
\* A worker leaves, or looks for work again.
LEMMA OwnWorkerStepKeepsWord ==
    ASSUME TypeOK, CloserKeepsWord, NEW t \in Workers,
           WaitForWorkTimesOut(t) \/ DecrementWorkerCount(t)
    PROVE  CloserKeepsWord'
<1>1. /\ cancel' = cancel /\ m_threads' = m_threads /\ seen' = seen /\ m_queue' = m_queue
      /\ UNCHANGED <<cpc, callVars, status>>
  BY DEF WaitForWorkTimesOut, DecrementWorkerCount, queueVars, threadVars
<1>2. \A u \in Workers : /\ wpc[u] = "exited" => wpc'[u] = "exited"
                         /\ wpc'[u] # "unstarted" => wpc[u] # "unstarted"
  BY DEF WaitForWorkTimesOut, DecrementWorkerCount, TypeOK
<1>3. QED  BY <1>1, <1>2, CloserFrame DEF callVars

\* addWork() takes threads out of m_threads only while nobody shuts down; the thread that
\* it starts has not been passed by the joins.
LEMMA OwnAddWorkKeepsWord ==
    ASSUME PoolInv, NEW c \in Clients, AddWork(c)
    PROVE  CloserKeepsWord'
<1>1. TypeOK /\ CallsFitPool /\ WorkAccounted /\ ThreadsAreBounded /\ CloserKeepsWord
  BY DEF PoolInv, SharedInv
<1>2. CASE AddToClosedQueue(c)
  BY <1>1, <1>2, OtherStepKeepsWord DEF AddToClosedQueue
<1>3. CASE BlockOnFullQueue(c) \/ PushWork(c)
  <2>1. ~m_shutdown /\ ~m_queueClosed /\ ReapDeadThreads(c)
    BY <1>3 DEF BlockOnFullQueue, PushWork, QueueClosed
  <2>2. \A d \in Clients : cpc[d] \notin CloserPcs
    BY <1>1, <2>1 DEF CallsFitPool
  <2>3. \A d \in Clients : cpc'[d] \notin CloserPcs
    BY <1>1, <1>3, <2>2 DEF BlockOnFullQueue, PushWork, TypeOK, CloserPcs
  <2>4. QED  BY <1>1, <2>1, <2>3, ReapedThreads, OpenKeepsWord
<1>4. CASE AddWorkTimesOut(c)
  BY <1>1, <1>4, OtherStepKeepsWord
<1>5. CASE NotifyOneWorker(c)
  BY <1>1, <1>5, CloserFrame DEF NotifyOneWorker, queueVars, threadVars, workerVars, callVars,
     CloserPcs, TypeOK
<1>6. CASE NoNewThread(c)
  BY <1>1, <1>6, CloserFrame DEF NoNewThread, Return, queueVars, workerVars, CloserPcs, TypeOK
<1>7. CASE StartNewThread(c)
  <2>1. /\ UNCHANGED <<m_queue, cancel, seen, status>>
        /\ \A d \in Clients : cpc'[d] \in CloserPcs
              => cpc'[d] = cpc[d] /\ timer'[d] = timer[d] /\ finish'[d] = finish[d]
    BY <1>1, <1>7 DEF StartNewThread, Return, queueVars, CloserPcs, TypeOK
  <2>2. \A t \in Workers : wpc[t] = "exited" => wpc'[t] = "exited"
    BY <1>1, <1>7, StartedThread
  <2>3. \A t \in Workers : wpc'[t] # "unstarted" => t \in m_threads'
    BY <1>1, <1>7, StartedThread
  <2>4. \A d \in Clients : cpc'[d] = "join" => \A t \in seen' : wpc'[t] = "exited"
    BY <1>1, <2>1, <2>2 DEF CloserKeepsWord, CloserPcs, TypeOK
  <2>5. QED
    BY <1>1, <2>1, <2>3, <2>4 DEF CloserKeepsWord, CloserPcs
<1>8. QED  BY <1>2, <1>3, <1>4, <1>5, <1>6, <1>7 DEF AddWork

(***************************************************************************)
(* The threads stay bounded                                                *)
(***************************************************************************)
\* Workers become busy by taking work only.
LEMMA WorkerStepBound ==
    ASSUME TypeOK, ThreadsAreBounded, NEW t \in Workers, DynamicWorkerStep(t)
    PROVE  ThreadsAreBounded'
<1>1. CASE TakeWork(t)
  BY <1>1, TakeWorkBound
<1>2. CASE DecrementWorkerCount(t)
  BY <1>2, DecrementWorkerCountBound
<1>3. CASE SleepForWork(t) \/ QuitOnShutdown(t) \/ ExitThread(t) \/ WaitForWorkTimesOut(t)
  BY <1>3, BoundFrame DEF SleepForWork, QuitOnShutdown, ExitThread, WaitForWorkTimesOut,
     queueVars, threadVars, workerVars, TypeOK, ThreadsAreBounded
<1>4. CASE BeginRun(t) \/ FinishRun(t) \/ CancelledInRun(t)
  <2>1. /\ UNCHANGED <<m_workingThreads, m_queue, m_threads>>
        /\ wpc[t] \in {"gotWork", "run"}
        /\ \A u \in Workers \ {t} : wpc'[u] = wpc[u]
    BY <1>4 DEF BeginRun, FinishRun, CancelledInRun, queueVars, threadVars, TypeOK
  <2>2. QED  BY <2>1, BoundFrame DEF ThreadsAreBounded
<1>5. QED  BY <1>1, <1>2, <1>3, <1>4 DEF DynamicWorkerStep, WorkerStep

\* addWork() pushes only if there is a thread for the work.
LEMMA AddWorkBound ==
    ASSUME PoolInv, NEW c \in Clients, AddWork(c)
    PROVE  ThreadsAreBounded'
<1>1. TypeOK /\ WorkAccounted /\ ThreadsAreBounded
  BY DEF PoolInv, SharedInv
<1>2. CASE PushWork(c)
  BY <1>1, <1>2, PushWorkBound
<1>3. CASE BlockOnFullQueue(c)
  BY <1>1, <1>3, ReapedThreads, BoundFrame DEF BlockOnFullQueue, QueueClosed, queueVars
<1>4. CASE StartNewThread(c)
  BY <1>1, <1>4, StartedThread, BoundFrame DEF StartNewThread, queueVars
<1>5. CASE AddToClosedQueue(c) \/ AddWorkTimesOut(c) \/ NotifyOneWorker(c) \/ NoNewThread(c)
  BY <1>1, <1>5, BoundFrame DEF AddToClosedQueue, RefuseWork, AddWorkTimesOut, NotifyOneWorker,
     NoNewThread, queueVars, threadVars, workerVars, ThreadsAreBounded
<1>6. QED  BY <1>2, <1>3, <1>4, <1>5 DEF AddWork

\* Nothing else changes who is busy.
LEMMA OtherStepBound ==
    ASSUME TypeOK, ThreadsAreBounded,
           \/ \E c \in Clients : Call(c) \/ WaitForEmptyQueue(c) \/ ShutdownStep(c)
           \/ Destroy
           \/ \E x \in Workers \cup Clients : SpuriousWakeup(x)
           \/ UNCHANGED poolVars
    PROVE  ThreadsAreBounded'
<1>1. UNCHANGED <<m_workingThreads, m_queue, m_threads, wpc>>
  <2>1. ASSUME NEW c \in Clients, Call(c)
        PROVE  UNCHANGED <<m_workingThreads, m_queue, m_threads, wpc>>
    BY <2>1 DEF Call, CallAddWork, CallWaitForEmptyQueue, CallShutdown, queueVars, threadVars,
       workerVars
  <2>2. ASSUME NEW c \in Clients, WaitForEmptyQueue(c)
        PROVE  UNCHANGED <<m_workingThreads, m_queue, m_threads, wpc>>
    BY <2>2 DEF WaitForEmptyQueue, queueVars, workerVars
  <2>3. ASSUME NEW c \in Clients, ShutdownStep(c)
        PROVE  UNCHANGED <<m_workingThreads, m_queue, m_threads, wpc>>
    BY <2>3 DEF ShutdownStep, CloseQueue, DrainQueue, DrainTimesOut, NotifyWorkers,
       NotifyAdders, EndLoop, CooperativeCancel, DefinitiveCancel, JoinThread, queueVars,
       threadVars, workerVars
  <2>4. CASE Destroy
    BY <2>4 DEF Destroy, queueVars, workerVars
  <2>5. ASSUME NEW x \in Workers \cup Clients, SpuriousWakeup(x)
        PROVE  UNCHANGED <<m_workingThreads, m_queue, m_threads, wpc>>
    BY <2>5 DEF SpuriousWakeup, queueVars, threadVars, workerVars
  <2>6. CASE UNCHANGED poolVars
    BY <2>6 DEF poolVars, queueVars, threadVars, workerVars
  <2>7. QED  BY <2>1, <2>2, <2>3, <2>4, <2>5, <2>6
<1>2. QED  BY <1>1, BoundFrame DEF ThreadsAreBounded
(***************************************************************************)
(* The inductive invariant                                                 *)
(***************************************************************************)
\* The timers of a call are timers.
LEMMA CallTimersAreTimers == \A limit \in CallTimers : limit \in Timers
  BY PoolAssumption DEF Timers

\* A new pool, without a thread.
LEMMA InitInv ==
    ASSUME Init
    PROVE  PoolInv
<1>1. TypeOK
  <2>1. m_queue \in Seq(Work) /\ m_workingThreads \in Nat /\ waiting = {}
    BY DEF Init
  <2>2. cpc \in [Clients -> ClientPcs] /\ timer \in [Clients -> Timers]
    BY DEF Init, ClientPcs, Timers
  <2>3. wpc \in [Workers -> WorkerPcs] /\ status \in [Work -> Statuses]
    BY DEF Init, WorkerPcs, Statuses
  <2>4. QED  BY <2>1, <2>2, <2>3 DEF Init, TypeOK
<1>2. CallsFitPool /\ ClientsAwake
  BY DEF Init, CallsFitPool, ClientsAwake, OnNotFull, OnEmpty, AddPcs, CloserPcs
<1>3. WorkAccounted /\ CloserKeepsWord
  <2>1. Len(m_queue) = 0 /\ 1..Len(m_queue) = {} /\ Offerers = {} /\ Holders = {}
    BY DEF Init, Offerers, Holders
  <2>2. WorkAccounted
    BY <2>1, PoolAssumption DEF Init, WorkAccounted
  <2>3. CloserKeepsWord
    BY DEF Init, CloserKeepsWord, CloserPcs
  <2>4. QED  BY <2>2, <2>3
<1>4. ThreadsAreBounded
  <2>1. Busy = {} /\ Cardinality(Busy) = 0 /\ Len(m_queue) = 0
    BY FS_EmptySet DEF Init, Busy
  <2>2. Cardinality(Workers) \in Nat
    BY BusyIsFinite
  <2>3. QED  BY <2>1, <2>2, BoundIsCount DEF Init
<1>5. QED  BY <1>1, <1>2, <1>3, <1>4 DEF PoolInv, SharedInv

\* Every step of a worker preserves the invariant.
LEMMA WorkerInv ==
    ASSUME PoolInv, NEW t \in Workers, DynamicWorkerStep(t)
    PROVE  PoolInv'
<1>1. /\ TypeOK /\ CallsFitPool /\ SharedInv
      /\ WorkAccounted /\ CloserKeepsWord /\ ThreadsAreBounded
  BY DEF PoolInv, SharedInv
<1>2. SharedInv'
  BY <1>1, WorkerStepShared, WaitForWorkTimesOutShared, DecrementWorkerCountShared
  DEF DynamicWorkerStep
<1>3. WorkAccounted'
  BY <1>1, WorkerStepAccounted, OwnWorkerStepAccounted DEF DynamicWorkerStep
<1>4. CloserKeepsWord'
  BY <1>1, WorkerStepKeepsWord, OwnWorkerStepKeepsWord DEF DynamicWorkerStep
<1>5. QED  BY <1>1, <1>2, <1>3, <1>4, WorkerStepBound DEF PoolInv

\* Every step of addWork() preserves the invariant.
LEMMA AddWorkInv ==
    ASSUME PoolInv, NEW c \in Clients, AddWork(c)
    PROVE  PoolInv'
<1>1. SharedInv /\ ThreadsAreBounded
  BY DEF PoolInv
<1>2. SharedInv'
  BY <1>1, AddToClosedQueueShared, BlockOnFullQueueShared, PushWorkShared, AddWorkTimesOutShared,
     NotifyOneWorkerShared, NoNewThreadShared, StartNewThreadShared DEF AddWork
<1>3. QED
  BY <1>2, OwnAddWorkAccounted, OwnAddWorkKeepsWord, AddWorkBound DEF PoolInv

\* So does every other step of a client.
LEMMA ClientInv ==
    ASSUME PoolInv, NEW c \in Clients, Call(c) \/ WaitForEmptyQueue(c) \/ ShutdownStep(c)
    PROVE  PoolInv'
<1>1. /\ TypeOK /\ CallsFitPool /\ SharedInv
      /\ WorkAccounted /\ CloserKeepsWord /\ ThreadsAreBounded
  BY DEF PoolInv, SharedInv
<1>2. CASE Call(c)
  <2>1. SharedInv'
    BY <1>1, <1>2, CallTimersAreTimers, CallAddWorkShared, CallWaitForEmptyQueueShared,
       CallShutdownShared DEF Call
  <2>2. WorkAccounted'
    BY <1>1, <1>2, CallTimersAreTimers, CallAddWorkAccounted, OtherStepAccounted DEF Call
  <2>3. CloserKeepsWord'
    BY <1>1, <1>2, OtherStepKeepsWord DEF Call
  <2>4. QED  BY <1>1, <1>2, <2>1, <2>2, <2>3, OtherStepBound DEF PoolInv
<1>3. CASE WaitForEmptyQueue(c)
  BY <1>1, <1>3, WaitForEmptyQueueShared, OtherStepAccounted, OtherStepKeepsWord,
     OtherStepBound DEF PoolInv
<1>4. CASE ShutdownStep(c)
  BY <1>1, <1>4, ShutdownStepShared, ShutdownStepAccounted, ShutdownStepKeepsWord,
     OtherStepBound DEF PoolInv
<1>5. QED  BY <1>2, <1>3, <1>4

\* The invariant is inductive.
LEMMA NextInv ==
    ASSUME PoolInv, [Next]_poolVars
    PROVE  PoolInv'
<1>1. /\ TypeOK /\ CallsFitPool /\ SharedInv
      /\ WorkAccounted /\ CloserKeepsWord /\ ThreadsAreBounded
  BY DEF PoolInv, SharedInv
<1>2. CASE Destroy \/ (\E x \in Workers \cup Clients : SpuriousWakeup(x)) \/ UNCHANGED poolVars
  BY <1>1, <1>2, DestroyShared, SpuriousWakeupShared, StutterShared, OtherStepAccounted,
     OtherStepKeepsWord, OtherStepBound DEF PoolInv
<1>3. ASSUME NEW t \in Workers, DynamicWorkerStep(t)
      PROVE  PoolInv'
  BY <1>3, WorkerInv
<1>4. ASSUME NEW c \in Clients, Call(c) \/ ClientStep(c)
      PROVE  PoolInv'
  BY <1>4, ClientInv, AddWorkInv DEF ClientStep
<1>5. QED  BY <1>2, <1>3, <1>4 DEF Next

\* In every state that a dynamic pool of either kind can reach, every variable has its
\* type, no wakeup of a client is lost, no accepted Runnable is lost or held twice, and
\* the count of busy workers is right.
THEOREM DynamicPoolInvariant == Spec => []PoolInv
<1>1. Init => PoolInv
  BY InitInv
<1>2. PoolInv /\ [Next]_poolVars => PoolInv'
  BY NextInv
<1>3. QED  BY <1>1, <1>2, PTL DEF Spec

(***************************************************************************)
(* The dynamic pools implement PoolService                                 *)
(***************************************************************************)
\* Every step is one of PoolService's, or changes nothing a user can see.
LEMMA NextServes ==
    ASSUME PoolInv, [Next]_poolVars
    PROVE  [Service!ServiceNext]_(Service!serviceVars)
<1>1. TypeOK /\ CallsFitPool /\ WorkAccounted
  BY DEF PoolInv, SharedInv
<1>2. ASSUME NEW t \in Workers, DynamicWorkerStep(t)
      PROVE  [Service!ServiceNext]_(Service!serviceVars)
  <2>1. CASE WorkerStep(t)
    BY <1>1, <2>1, WorkerStepServes
  <2>2. CASE WaitForWorkTimesOut(t) \/ DecrementWorkerCount(t)
    BY <1>1, <2>2, ServiceStutters DEF WaitForWorkTimesOut, DecrementWorkerCount
  <2>3. QED  BY <1>2, <2>1, <2>2 DEF DynamicWorkerStep
<1>3. ASSUME NEW c \in Clients, AddWork(c)
      PROVE  [Service!ServiceNext]_(Service!serviceVars)
  <2>1. CASE PushWork(c)
    <3>1. \E w \in Work : Service!Accept(w)
      BY <1>1, <2>1, AppendAccepts DEF PushWork, Offerers
    <3>2. QED  BY <3>1 DEF Service!ServiceNext
  <2>2. CASE AddToClosedQueue(c) \/ AddWorkTimesOut(c)
    <3>1. \E w \in Work : Service!Refuse(w)
      BY <1>1, <2>2, RefusalRefuses DEF AddToClosedQueue, RefuseWork, AddWorkTimesOut, Offerers
    <3>2. QED  BY <3>1 DEF Service!ServiceNext
  <2>3. CASE BlockOnFullQueue(c) \/ NotifyOneWorker(c) \/ NoNewThread(c) \/ StartNewThread(c)
    BY <1>1, <2>3, ServiceStutters DEF BlockOnFullQueue, NotifyOneWorker, NoNewThread,
       StartNewThread
  <2>4. QED  BY <1>3, <2>1, <2>2, <2>3 DEF AddWork
<1>4. ASSUME NEW c \in Clients, Call(c) \/ WaitForEmptyQueue(c) \/ ShutdownStep(c)
      PROVE  [Service!ServiceNext]_(Service!serviceVars)
  <2>1. CASE Call(c)
    BY <1>1, <2>1, CallServes DEF Call
  <2>2. CASE WaitForEmptyQueue(c)
    BY <1>1, <2>2, ServiceStutters DEF WaitForEmptyQueue
  <2>3. CASE ShutdownStep(c)
    BY <1>1, <2>3, ShutdownClosesOrStops DEF Service!ServiceNext
  <2>4. QED  BY <1>4, <2>1, <2>2, <2>3
<1>5. CASE Destroy \/ (\E x \in Workers \cup Clients : SpuriousWakeup(x)) \/ UNCHANGED poolVars
  BY <1>1, <1>5, ServiceStutters DEF Destroy, SpuriousWakeup, poolVars
<1>6. QED  BY <1>2, <1>3, <1>4, <1>5 DEF Next, ClientStep

\* A new pool has accepted nothing.
LEMMA InitServes ==
    ASSUME Init
    PROVE  Service!ServiceInit
  BY DEF Init, Service!ServiceInit

\* Both kinds of dynamic pool do what ThreadPool.hpp promises and nothing else: every
\* accepted Runnable is started once, in order, by at most numThreads threads.
THEOREM DynamicPoolImplementsService == Spec => ImplementsService
<1>1. Init => Service!ServiceInit
  BY InitServes
<1>2. PoolInv /\ [Next]_poolVars => [Service!ServiceNext]_(Service!serviceVars)
  BY NextServes
<1>3. QED
  BY <1>1, <1>2, DynamicPoolInvariant, PTL DEF Spec, ImplementsService, Service!ServiceSpec

(***************************************************************************)
(* shutdown(E_FINISH_WORK_IN_QUEUE) of a dynamic pool                      *)
(***************************************************************************)
\* The joins of a shutdown end with the loop over m_threads only.
LEMMA OwnStepsLeaveTheJoins ==
    ASSUME TypeOK, NEW c \in Clients, cpc[c] = "join",
           \/ \E t \in Workers : DynamicWorkerStep(t)
           \/ \E d \in Clients : AddWork(d) /\ ~AddToClosedQueue(d) /\ ~AddWorkTimesOut(d)
    PROVE  cpc'[c] = "join"
<1>1. ASSUME NEW t \in Workers, DynamicWorkerStep(t)
      PROVE  cpc'[c] = "join"
  BY <1>1, OthersLeaveTheJoins DEF DynamicWorkerStep, WaitForWorkTimesOut, DecrementWorkerCount
<1>2. ASSUME NEW d \in Clients, AddWork(d), ~AddToClosedQueue(d), ~AddWorkTimesOut(d)
      PROVE  cpc'[c] = "join"
  BY <1>2 DEF AddWork, BlockOnFullQueue, PushWork, NotifyOneWorker, NoNewThread, StartNewThread,
     Return, TypeOK
<1>3. QED  BY <1>1, <1>2

\* A step that ends the joins of a client is the end of its loop.
LEMMA JoinsEndInTheLoop ==
    ASSUME PoolInv, [Next]_poolVars, NEW c \in Clients, cpc[c] = "join", cpc'[c] = "idle"
    PROVE  EndLoop(c)
<1>1. TypeOK
  BY DEF PoolInv, SharedInv
<1>2. CASE \/ \E t \in Workers : DynamicWorkerStep(t)
           \/ Destroy
           \/ \E x \in Workers \cup Clients : SpuriousWakeup(x)
           \/ UNCHANGED poolVars
  <2>1. cpc'[c] = "join"
    BY <1>1, <1>2, OwnStepsLeaveTheJoins, OthersLeaveTheJoins
  <2>2. QED  BY <2>1
<1>3. ASSUME NEW d \in Clients, Call(d) \/ ClientStep(d)
      PROVE  EndLoop(c)
  <2>1. CASE Call(d) \/ WaitForEmptyQueue(d) \/ ShutdownStep(d)
    BY <1>1, <2>1, JoinsEndWithTheLoop DEF Call
  <2>2. CASE AddToClosedQueue(d) \/ AddWorkTimesOut(d)
    BY <1>1, <2>2, JoinsEndWithTheLoop DEF AddToClosedQueue
  <2>3. CASE AddWork(d) /\ ~AddToClosedQueue(d) /\ ~AddWorkTimesOut(d)
    BY <1>1, <2>3, OwnStepsLeaveTheJoins
  <2>4. QED  BY <1>3, <2>1, <2>2, <2>3 DEF ClientStep
<1>4. QED  BY <1>2, <1>3 DEF Next

\* The step that returns from such a shutdown leaves no accepted work behind.
LEMMA NextFinishes ==
    ASSUME PoolInv, [Next]_poolVars
    PROVE  \A c \in Clients :
              cpc[c] = "join" /\ cpc'[c] = "idle" /\ finish[c] /\ timer[c] = "infinite"
                 => \A w \in Work : status[w] \notin {"queued", "running", "cut"}
  BY JoinsEndInTheLoop, LoopEndFinishes DEF PoolInv, SharedInv

\* shutdown(E_FINISH_WORK_IN_QUEUE) without a limit returns only after all the accepted
\* work was run to its end, although addWork() may still start a thread meanwhile.
THEOREM DynamicShutdownFinishes == Spec => FinishMeansFinished
<1>1. PoolInv /\ [Next]_poolVars
        => [\A c \in Clients :
              cpc[c] = "join" /\ cpc'[c] = "idle" /\ finish[c] /\ timer[c] = "infinite"
                 => \A w \in Work : status[w] \notin {"queued", "running", "cut"}]_poolVars
  BY NextFinishes
<1>2. QED  BY <1>1, DynamicPoolInvariant, PTL DEF Spec, FinishMeansFinished
=============================================================================
