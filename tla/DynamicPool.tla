----------------------------- MODULE DynamicPool -----------------------------
(***************************************************************************)
(* DynamicSizePoolImpl and DynamicSizeNoQueuePoolImpl of                   *)
(* src/blocxx/ThreadPool.cpp: addWork() starts threads up to m_maxThreads, *)
(* which is Cardinality(Workers), and a worker that finds no work for one  *)
(* second exits.  A worker's identity is free again once addWork() has     *)
(* joined the thread and taken it out of m_threads.                        *)
(***************************************************************************)
EXTENDS CommonPool

CONSTANT StartCanFail   \* whether the system may refuse to start a thread

ASSUME DynamicAssumption ==
    /\ StartCanFail \in BOOLEAN
    /\ PoolType \in {"DYNAMIC_SIZE", "DYNAMIC_SIZE_NO_QUEUE"}

m_maxThreads == Cardinality(Workers)

Init ==
    /\ m_queue = <<>> /\ m_queueClosed = FALSE /\ m_shutdown = FALSE
    /\ m_threads = {} /\ m_workingThreads = 0
    /\ pool = "open"
    /\ waiting = {}
    /\ wpc = [t \in Workers |-> "unstarted"]
    /\ job = [t \in Workers |-> NoWork]
    /\ cancel = [t \in Workers |-> "none"]
    /\ cpc = [c \in Clients |-> "idle"]
    /\ offer = [c \in Clients |-> NoWork]
    /\ finish = [c \in Clients |-> FALSE]
    /\ timer = [c \in Clients |-> "infinite"]
    /\ seen = {}
    /\ status = [w \in Work |-> "new"]

(***************************************************************************)
(* Workers                                                                 *)
(***************************************************************************)
\* The wait of one second expires: getWorkFromQueue() returns no work without
\* looking at the queue again.
WaitForWorkTimesOut(t) ==
    /\ wpc[t] = "getWork" /\ t \in waiting
    /\ waiting' = waiting \ {t}
    /\ wpc' = [wpc EXCEPT ![t] = "leaving"]
    /\ UNCHANGED <<queueVars, threadVars, job, cancel, cpc, callVars, seen, status>>

\* Variant: m_currentRunnable keeps the work.
DecrementWorkerCount_KeepsWork(t) ==
    /\ wpc[t] = "ranWork"
    /\ wpc' = [wpc EXCEPT ![t] = "getWork"]
    /\ IF PoolType = "DYNAMIC_SIZE_NO_QUEUE"
       THEN /\ m_workingThreads' = m_workingThreads - 1
            /\ waiting' = waiting \ OnNotFull
       ELSE UNCHANGED <<m_workingThreads, waiting>>
    /\ UNCHANGED <<queueVars, m_threads, pool, job, cancel, cpc, callVars, seen, status>>

\* Variant: nobody is told that a worker is free again.
DecrementWorkerCount_Silently(t) ==
    /\ wpc[t] = "ranWork"
    /\ wpc' = [wpc EXCEPT ![t] = "getWork"]
    /\ job' = [job EXCEPT ![t] = NoWork]
    /\ m_workingThreads' = IF PoolType = "DYNAMIC_SIZE_NO_QUEUE"
                           THEN m_workingThreads - 1 ELSE m_workingThreads
    /\ UNCHANGED <<queueVars, m_threads, pool, waiting, cancel, cpc, callVars, seen, status>>

\* decrementWorkerCount() after the run, and m_currentRunnable = 0.
DecrementWorkerCount(t) ==
    /\ wpc[t] = "ranWork"
    /\ wpc' = [wpc EXCEPT ![t] = "getWork"]
    /\ job' = [job EXCEPT ![t] = NoWork]
    /\ IF PoolType = "DYNAMIC_SIZE_NO_QUEUE"
       THEN /\ m_workingThreads' = m_workingThreads - 1
            /\ waiting' = waiting \ OnNotFull
       ELSE UNCHANGED <<m_workingThreads, waiting>>
    /\ UNCHANGED <<queueVars, m_threads, pool, cancel, cpc, callVars, seen, status>>

(***************************************************************************)
(* addWork()                                                               *)
(***************************************************************************)
\* The threads found dead on entry are joined and removed; the check for a
\* closed queue comes first.
Dead == {t \in m_threads : ~IsRunning(t)}

\* Variant: a dead thread leaves m_threads without being joined.
ReapDeadThreads_Unjoined(c) ==
    /\ m_threads' = IF cpc[c] = "add" THEN m_threads \ Dead ELSE m_threads
    /\ UNCHANGED wpc

ReapDeadThreads(c) ==
    IF cpc[c] = "add"
    THEN /\ m_threads' = m_threads \ Dead
         /\ wpc' = [t \in Workers |-> IF t \in Dead THEN "unstarted" ELSE wpc[t]]
    ELSE UNCHANGED <<m_threads, wpc>>

AddToClosedQueue(c) ==
    /\ cpc[c] \in {"add", "blocked"} /\ c \notin waiting
    /\ QueueClosed
    /\ RefuseWork(c)

BlockOnFullQueue(c) ==
    /\ cpc[c] \in {"add", "blocked"} /\ c \notin waiting
    /\ QueueIsFull(m_queue, m_workingThreads) /\ ~QueueClosed
    /\ ReapDeadThreads(c)
    /\ cpc' = [cpc EXCEPT ![c] = "blocked"]
    /\ waiting' = waiting \cup {c}
    /\ UNCHANGED <<queueVars, m_workingThreads, pool, job, cancel, callVars, seen, status>>

\* Variant: the queue is not checked for the close after the wait.
PushWork_OnClosed(c) ==
    /\ cpc[c] \in {"add", "blocked"} /\ c \notin waiting
    /\ ~QueueIsFull(m_queue, m_workingThreads)
    /\ ReapDeadThreads(c)
    /\ m_queue' = Append(m_queue, offer[c])
    /\ status' = [status EXCEPT ![offer[c]] = "queued"]
    /\ cpc' = [cpc EXCEPT ![c] = "notifyOne"]
    /\ UNCHANGED <<m_queueClosed, m_shutdown, m_workingThreads, pool, waiting, job, cancel,
                   callVars, seen>>

PushWork(c) ==
    /\ cpc[c] \in {"add", "blocked"} /\ c \notin waiting
    /\ ~QueueIsFull(m_queue, m_workingThreads) /\ ~QueueClosed
    /\ ReapDeadThreads(c)
    /\ m_queue' = Append(m_queue, offer[c])
    /\ status' = [status EXCEPT ![offer[c]] = "queued"]
    /\ cpc' = [cpc EXCEPT ![c] = "notifyOne"]
    /\ UNCHANGED <<m_queueClosed, m_shutdown, m_workingThreads, pool, waiting, job, cancel,
                   callVars, seen>>

\* After l.release(): one sleeping worker is woken, if there is any.
NotifyOneWorker(c) ==
    /\ cpc[c] = "notifyOne"
    /\ IF OnNotEmpty = {}
       THEN UNCHANGED waiting
       ELSE \E t \in OnNotEmpty : waiting' = waiting \ {t}
    /\ cpc' = [cpc EXCEPT ![c] = "relock"]
    /\ UNCHANGED <<queueVars, threadVars, workerVars, callVars, seen, status>>

\* Variant: a thread that is still in m_threads is trusted to take the work.
NoNewThread_TrustsThreads(c) ==
    /\ cpc[c] = "relock"
    /\ m_queue = <<>> \/ m_threads # {}
    /\ Return(c)
    /\ UNCHANGED <<queueVars, m_threads, m_workingThreads, waiting, workerVars, seen, status>>

\* After l.lock(): nothing left to do for a new thread, or no room for one.
NoNewThread(c) ==
    /\ cpc[c] = "relock"
    /\ m_queue = <<>> \/ Cardinality(m_threads) >= m_maxThreads
    /\ Return(c)
    /\ UNCHANGED <<queueVars, m_threads, m_workingThreads, waiting, workerVars, seen, status>>

\* start() may throw: the thread is taken out of m_threads again and addWork()
\* throws, but the work stays in the queue.
StartNewThread(c) ==
    /\ cpc[c] = "relock"
    /\ m_queue # <<>> /\ Cardinality(m_threads) < m_maxThreads
    /\ \/ \E t \in Workers \ m_threads :
             /\ m_threads' = m_threads \cup {t}
             /\ wpc' = [wpc EXCEPT ![t] = "getWork"]
       \/ StartCanFail /\ UNCHANGED <<m_threads, wpc>>
    /\ Return(c)
    /\ UNCHANGED <<queueVars, m_workingThreads, waiting, job, cancel, seen, status>>

AddWork(c) ==
    \/ AddToClosedQueue(c) \/ BlockOnFullQueue(c) \/ PushWork(c) \/ AddWorkTimesOut(c)
    \/ NotifyOneWorker(c) \/ NoNewThread(c) \/ StartNewThread(c)

(***************************************************************************)
(* The specification                                                       *)
(***************************************************************************)
Call(c) ==
    \/ \E w \in Work, limit \in CallTimers \ {"definitive"} : CallAddWork(c, w, limit)
    \/ CallWaitForEmptyQueue(c)
    \/ \E finishWorkInQueue \in BOOLEAN, limit \in CallTimers :
            CallShutdown(c, finishWorkInQueue, limit)

DynamicWorkerStep(t) == WorkerStep(t) \/ WaitForWorkTimesOut(t) \/ DecrementWorkerCount(t)

ClientStep(c) == AddWork(c) \/ WaitForEmptyQueue(c) \/ ShutdownStep(c)

Next ==
    \/ \E t \in Workers : DynamicWorkerStep(t)
    \/ \E c \in Clients : Call(c) \/ ClientStep(c)
    \/ Destroy
    \/ \E x \in Workers \cup Clients : SpuriousWakeup(x)

Spec == Init /\ [][Next]_poolVars

\* The scheduler runs every runnable thread, every wait of one second ends, and
\* every Runnable returns.
FairSpec ==
    /\ Spec
    /\ \A t \in Workers : WF_poolVars(DynamicWorkerStep(t))
    /\ \A c \in Clients : WF_poolVars(ClientStep(c))

(***************************************************************************)
(* Properties of the dynamic pools                                         *)
(***************************************************************************)
\* ThreadPool.hpp's promises of DYNAMIC_SIZE_NO_QUEUE, that the busy threads and
\* the queue together never exceed numThreads, and of both kinds, that the
\* threads do not: the counter behind queueIsFull() moves in other critical
\* sections than the queue, the subtraction in it must not wrap, and a thread
\* that runs is always one that shutdownThreads() can find.
ThreadsAreBounded ==
    /\ PoolType = "DYNAMIC_SIZE_NO_QUEUE"
          => /\ m_workingThreads + Len(m_queue) <= m_maxThreads
             /\ m_workingThreads >=
                    Cardinality({t \in Workers : wpc[t] \in {"gotWork", "run", "ranWork"}})
    /\ \A t \in Workers : wpc[t] # "unstarted" => t \in m_threads

\* The inductive invariant: the counter is right because every busy worker was counted
\* when it took its work, and a thread is only taken out of m_threads while nothing
\* has been cancelled.
PoolInv == SharedInv /\ WorkAccounted /\ CloserKeepsWord /\ ThreadsAreBounded

\* "Can't touch m_threads until *after* we check for the queue being closed,
\* shutdown requires that m_threads not change after the queue is closed"
\* (addWork()): shutdownThreads() iterates over the array without a lock.
ThreadsFixedOnceShutDown == [][m_shutdown => m_threads' = m_threads]_poolVars

\* "In practice it works all the time" (addWork()): whoever wins the race of
\* addWork() with a worker whose wait for work ends, the work is started.
AcceptedWorkIsStarted ==
    \A w \in Work : status[w] = "queued" ~> (status[w] # "queued" \/ m_shutdown)
=============================================================================
