------------------------------ MODULE FixedPool ------------------------------
(***************************************************************************)
(* FixedSizePoolImpl of src/blocxx/ThreadPool.cpp: all the threads are     *)
(* started by the constructor and live until the pool is shut down.        *)
(***************************************************************************)
EXTENDS CommonPool

ASSUME FixedAssumption == PoolType = "FIXED_SIZE"

Init ==
    /\ m_queue = <<>> /\ m_queueClosed = FALSE /\ m_shutdown = FALSE
    /\ m_threads = Workers /\ m_workingThreads = 0
    /\ pool = "constructing"
    /\ waiting = {}
    /\ wpc = [t \in Workers |-> "unstarted"]
    /\ job = [t \in Workers |-> NoWork]
    /\ cancel = [t \in Workers |-> "none"]
    /\ cpc = [c \in Clients |-> IF c = Owner THEN "ctor" ELSE "idle"]
    /\ offer = [c \in Clients |-> NoWork]
    /\ finish = [c \in Clients |-> FALSE]
    /\ timer = [c \in Clients |-> "infinite"]
    /\ seen = {}
    /\ status = [w \in Work |-> "new"]

\* The constructor starts the threads one by one.
StartThread(t) ==
    /\ cpc[Owner] = "ctor" /\ wpc[t] = "unstarted"
    /\ wpc' = [wpc EXCEPT ![t] = "getWork"]
    /\ UNCHANGED <<queueVars, threadVars, waiting, job, cancel, cpc, callVars, seen, status>>

\* start() throws: m_threads is cut to the threads that run, which are shut
\* down before the constructor rethrows.
StartFails ==
    /\ cpc[Owner] = "ctor"
    /\ \E t \in Workers : wpc[t] = "unstarted"
    /\ m_threads' = {t \in Workers : wpc[t] # "unstarted"}
    /\ cpc' = [cpc EXCEPT ![Owner] = "shutdown"]
    /\ timer' = [timer EXCEPT ![Owner] = "definitive"]
    /\ UNCHANGED <<queueVars, m_workingThreads, pool, waiting, workerVars, offer, finish,
                   seen, status>>

Constructed ==
    /\ cpc[Owner] = "ctor"
    /\ \A t \in Workers : wpc[t] # "unstarted"
    /\ cpc' = [cpc EXCEPT ![Owner] = "idle"]
    /\ pool' = "open"
    /\ UNCHANGED <<queueVars, m_threads, m_workingThreads, waiting, workerVars, callVars,
                   seen, status>>

\* addWork(): a full queue is waited for, a closed one refuses, and work that
\* ends an empty queue wakes every sleeping worker.
BlockOnFullQueue(c) ==
    /\ cpc[c] \in {"add", "blocked"} /\ c \notin waiting
    /\ QueueIsFull(m_queue, m_workingThreads) /\ ~QueueClosed
    /\ cpc' = [cpc EXCEPT ![c] = "blocked"]
    /\ waiting' = waiting \cup {c}
    /\ UNCHANGED <<queueVars, threadVars, workerVars, callVars, seen, status>>

AddToClosedQueue(c) ==
    /\ cpc[c] \in {"add", "blocked"} /\ c \notin waiting
    /\ QueueClosed
    /\ RefuseWork(c)

\* Variant: the queue is not checked for the close after the wait.
PushWork_OnClosed(c) ==
    /\ cpc[c] \in {"add", "blocked"} /\ c \notin waiting
    /\ ~QueueIsFull(m_queue, m_workingThreads)
    /\ m_queue' = Append(m_queue, offer[c])
    /\ status' = [status EXCEPT ![offer[c]] = "queued"]
    /\ waiting' = IF Len(m_queue') = 1 THEN waiting \ OnNotEmpty ELSE waiting
    /\ Return(c)
    /\ UNCHANGED <<m_queueClosed, m_shutdown, m_threads, m_workingThreads, workerVars, seen>>

\* Variant: the size is taken before the push.
PushWork_StaleSize(c) ==
    /\ cpc[c] \in {"add", "blocked"} /\ c \notin waiting
    /\ ~QueueIsFull(m_queue, m_workingThreads) /\ ~QueueClosed
    /\ m_queue' = Append(m_queue, offer[c])
    /\ status' = [status EXCEPT ![offer[c]] = "queued"]
    /\ waiting' = IF Len(m_queue) = 1 THEN waiting \ OnNotEmpty ELSE waiting
    /\ Return(c)
    /\ UNCHANGED <<m_queueClosed, m_shutdown, m_threads, m_workingThreads, workerVars, seen>>

PushWork(c) ==
    /\ cpc[c] \in {"add", "blocked"} /\ c \notin waiting
    /\ ~QueueIsFull(m_queue, m_workingThreads) /\ ~QueueClosed
    /\ m_queue' = Append(m_queue, offer[c])
    /\ status' = [status EXCEPT ![offer[c]] = "queued"]
    /\ waiting' = IF Len(m_queue') = 1 THEN waiting \ OnNotEmpty ELSE waiting
    /\ Return(c)
    /\ UNCHANGED <<m_queueClosed, m_shutdown, m_threads, m_workingThreads, workerVars, seen>>

AddWork(c) == BlockOnFullQueue(c) \/ AddToClosedQueue(c) \/ PushWork(c) \/ AddWorkTimesOut(c)

ConstructorStep == StartFails \/ Constructed \/ \E t \in Workers : StartThread(t)

Call(c) ==
    \/ \E w \in Work, limit \in CallTimers \ {"definitive"} : CallAddWork(c, w, limit)
    \/ CallWaitForEmptyQueue(c)
    \/ \E finishWorkInQueue \in BOOLEAN, limit \in CallTimers :
            CallShutdown(c, finishWorkInQueue, limit)

\* The steps of a call in progress.
ClientStep(c) == AddWork(c) \/ WaitForEmptyQueue(c) \/ ShutdownStep(c)

Next ==
    \/ ConstructorStep
    \/ \E t \in Workers : WorkerStep(t)
    \/ \E c \in Clients : Call(c) \/ ClientStep(c)
    \/ Destroy
    \/ \E x \in Workers \cup Clients : SpuriousWakeup(x)

Spec == Init /\ [][Next]_poolVars

\* The scheduler runs every runnable thread, and every Runnable returns.
FairSpec ==
    /\ Spec
    /\ WF_poolVars(ConstructorStep)
    /\ \A t \in Workers : WF_poolVars(WorkerStep(t))
    /\ \A c \in Clients : WF_poolVars(ClientStep(c))

\* addWork() notifies m_queueNotEmpty only when it ends an empty queue, and
\* shutdownThreads() some time after m_shutdown is set: still no worker sleeps
\* while there is work, or past the notification of a shutdown.
WorkersAwake ==
    OnNotEmpty # {} => \/ m_queue = <<>> /\ ~m_shutdown
                       \/ \E c \in Clients : cpc[c] = "notifyWorkers"

(***************************************************************************)
(* The inductive invariant                                                 *)
(***************************************************************************)
\* No wakeup of a client or of a worker is lost.
AwakeInv == SharedInv /\ WorkersAwake

\* One client at most shuts the pool down; the constructor and the destructor are
\* alone with the object.
OneShutdown ==
    /\ \A c, d \in Clients : cpc[c] \in CloserPcs /\ cpc[d] \in CloserPcs => c = d
    /\ pool # "open" => \A c \in Clients \ {Owner} : cpc[c] = "idle"
    /\ pool = "constructing" => cpc[Owner] \in {"ctor", "shutdown"} \cup CloserPcs
    /\ pool = "destroying" => cpc[Owner] \in {"shutdown"} \cup CloserPcs
    /\ pool = "destroyed" => cpc[Owner] = "idle"
    /\ pool \in {"constructing", "destroying"} /\ cpc[Owner] \in {"ctor", "shutdown"}
          => ~m_queueClosed
    /\ \A c \in Clients : cpc[c] = "ctor" => c = Owner /\ pool = "constructing"

\* A closed queue means a shutdown under way or every thread joined.
ThreadsJoined ==
    /\ cpc[Owner] = "ctor" => m_threads = Workers
    /\ \A t \in Workers : wpc[t] # "unstarted" => t \in m_threads
    /\ \A c \in Clients : cpc[c] = "join" => \A t \in seen : wpc[t] = "exited"
    /\ m_queueClosed => \/ \E c \in Clients : cpc[c] \in CloserPcs
                        \/ \A t \in m_threads : wpc[t] = "exited"

\* The constructor starts the threads of the whole array.
WholeArray == cpc[Owner] = "ctor" => m_threads = Workers

\* The pool is an implementation of PoolService, and finishing means finished.
ServiceInv == AwakeInv /\ WorkAccounted /\ CloserKeepsWord /\ WholeArray

\* When no Runnable denies its cancellation, the pool outlives its threads.
LifetimeInv == AwakeInv /\ OneShutdown /\ ThreadsJoined /\ OnlyThreadLeft
=============================================================================
