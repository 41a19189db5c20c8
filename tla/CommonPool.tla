----------------------------- MODULE CommonPool -----------------------------
(***************************************************************************)
(* CommonPoolImpl of src/blocxx/ThreadPool.cpp: the work queue, the three  *)
(* condition variables, the worker loop, waitForEmptyQueue() and           *)
(* shutdown().  FixedPool and DynamicPool add the addWork() of each kind   *)
(* of pool.                                                                *)
(*                                                                         *)
(* Every section of code that holds m_queueLock is one action, and a wait  *)
(* on a condition variable ends it: the thread joins "waiting" and is      *)
(* taken out of it by a notification, a timeout or a spurious wakeup,      *)
(* after which it competes for the lock again.                             *)
(***************************************************************************)
EXTENDS Naturals, Sequences, FiniteSets

CONSTANTS
    Workers,        \* identities of the pool's threads
    Clients,        \* threads that call the pool
    Owner,          \* the client that constructs and destroys the pool
    Work,           \* the Runnables ever offered, each of them once
    NoWork,         \* the null RunnableRef
    MaxQueueSize,   \* m_maxQueueSize; 0 is UNLIMITED_QUEUE_SIZE
    PoolType,       \* ThreadPool::PoolType
    CallTimers,     \* the timeouts that callers pass, see Timers
    Deniers         \* Runnables whose doCooperativeCancel() throws CancellationDeniedException

ASSUME PoolAssumption ==
    /\ IsFiniteSet(Workers)
    /\ Workers \cap Clients = {}
    /\ Owner \in Clients
    /\ NoWork \notin Work
    /\ MaxQueueSize \in Nat
    /\ PoolType \in {"FIXED_SIZE", "DYNAMIC_SIZE", "DYNAMIC_SIZE_NO_QUEUE"}
    /\ CallTimers \subseteq {"infinite", "finite", "definitive"}
    /\ Deniers \subseteq Work

VARIABLES
    m_queue,            \* sequence of accepted work
    m_queueClosed,      \* set when a shutdown begins
    m_shutdown,         \* set when the workers must stop
    m_threads,          \* the threads in the array m_threads
    m_workingThreads,   \* DYNAMIC_SIZE_NO_QUEUE's count of busy workers
    pool,               \* lifetime of the object
    waiting,            \* threads blocked in a condition variable
    wpc,                \* where each worker is
    job,                \* the local variable "work" of run()
    cancel,             \* m_cancelRequested and pthread_cancel() of each worker
    cpc,                \* where each client is
    offer,              \* the argument "work" of addWork()
    finish,             \* the argument "finishWorkInQueue" of shutdown()
    timer,              \* the timeout arguments
    seen,               \* threads passed by the current loop of shutdownThreads()
    status              \* history: what became of each Runnable

queueVars  == <<m_queue, m_queueClosed, m_shutdown>>
threadVars == <<m_threads, m_workingThreads, pool>>
workerVars == <<wpc, job, cancel>>
callVars   == <<offer, finish, timer>>
poolVars   == <<queueVars, threadVars, waiting, workerVars, cpc, callVars, seen, status>>

WorkerPcs == {"unstarted", "getWork", "gotWork", "run", "ranWork", "leaving", "exited"}

\* Where a client is: in no call, in addWork(), in waitForEmptyQueue(), in shutdown().
AddPcs    == {"add", "blocked", "notifyOne", "relock"}
CloserPcs == {"drain", "notifyWorkers", "notifyAdders", "coop", "kill", "join"}
ClientPcs == {"idle", "ctor", "empty", "shutdown"} \cup AddPcs \cup CloserPcs

\* "infinite"; "finite"; for shutdown() also "definitive": both timeouts are finite.
Timers   == {"infinite", "finite", "definitive"}
Statuses == {"new", "offered", "queued", "running", "done", "refused", "cut"}

(***************************************************************************)
(* Shared helpers                                                          *)
(***************************************************************************)
\* Variant: "<" for "<=" in the override, one work too many.
QueueIsFull_OffByOne(q, k) ==
    IF PoolType = "DYNAMIC_SIZE_NO_QUEUE"
    THEN Cardinality(Workers) < Len(q) + k
    ELSE MaxQueueSize > 0 /\ Len(q) = MaxQueueSize

\* CommonPoolImpl::queueIsFull() and its override in DynamicSizeNoQueuePoolImpl,
\* of a queue q and a count of busy workers k.
QueueIsFull(q, k) ==
    IF PoolType = "DYNAMIC_SIZE_NO_QUEUE"
    THEN Cardinality(Workers) <= Len(q) + k
    ELSE MaxQueueSize > 0 /\ Len(q) = MaxQueueSize

QueueClosed == m_shutdown \/ m_queueClosed

\* The wait sets of the condition variables.
OnNotEmpty == waiting \cap Workers
OnNotFull  == {c \in Clients : c \in waiting /\ cpc[c] = "blocked"}
OnEmpty    == {c \in Clients : c \in waiting /\ cpc[c] \in {"empty", "drain"}}

\* Thread::isRunning(): cancel_internal() clears the flag of a thread that still runs.
IsRunning(t) == wpc[t] \notin {"unstarted", "exited"} /\ cancel[t] # "killed"

\* m_currentRunnable of worker t: assigned after the work left the queue.
CurrentRunnable(t) == IF wpc[t] \in {"run", "ranWork"} THEN job[t] ELSE NoWork

\* Client c leaves the pool. A shutdown made by the constructor or the
\* destructor is the end of the object.
Return(c) ==
    /\ cpc' = [cpc EXCEPT ![c] = "idle"]
    /\ offer' = [offer EXCEPT ![c] = NoWork]
    /\ finish' = [finish EXCEPT ![c] = FALSE]
    /\ timer' = [timer EXCEPT ![c] = "infinite"]
    /\ pool' = IF pool \in {"constructing", "destroying"} THEN "destroyed" ELSE pool

(***************************************************************************)
(* Workers: getWorkFromQueue() and run()                                   *)
(***************************************************************************)
SleepForWork(t) ==
    /\ wpc[t] = "getWork" /\ t \notin waiting
    /\ m_queue = <<>> /\ ~m_shutdown
    /\ waiting' = waiting \cup {t}
    /\ UNCHANGED <<queueVars, threadVars, workerVars, cpc, callVars, seen, status>>

QuitOnShutdown(t) ==
    /\ wpc[t] = "getWork" /\ t \notin waiting
    /\ m_shutdown
    /\ wpc' = [wpc EXCEPT ![t] = "leaving"]
    /\ UNCHANGED <<queueVars, threadVars, waiting, job, cancel, cpc, callVars, seen, status>>

\* Variant: the notification of m_queueNotFull is forgotten.
TakeWork_ForgetsAdders(t) ==
    /\ wpc[t] = "getWork" /\ t \notin waiting
    /\ m_queue # <<>> /\ ~m_shutdown
    /\ m_queue' = Tail(m_queue)
    /\ job' = [job EXCEPT ![t] = Head(m_queue)]
    /\ status' = [status EXCEPT ![Head(m_queue)] = "running"]
    /\ wpc' = [wpc EXCEPT ![t] = "gotWork"]
    /\ m_workingThreads' = IF PoolType = "DYNAMIC_SIZE_NO_QUEUE"
                           THEN m_workingThreads + 1 ELSE m_workingThreads
    /\ waiting' = IF m_queue' = <<>> THEN waiting \ OnEmpty ELSE waiting
    /\ UNCHANGED <<m_queueClosed, m_shutdown, m_threads, pool, cancel, cpc, callVars, seen>>

\* Pops the oldest work, counts the worker as busy, and notifies whoever
\* waits for space or for an empty queue.
TakeWork(t) ==
    /\ wpc[t] = "getWork" /\ t \notin waiting
    /\ m_queue # <<>> /\ ~m_shutdown
    /\ m_queue' = Tail(m_queue)
    /\ job' = [job EXCEPT ![t] = Head(m_queue)]
    /\ status' = [status EXCEPT ![Head(m_queue)] = "running"]
    /\ wpc' = [wpc EXCEPT ![t] = "gotWork"]
    /\ m_workingThreads' = IF PoolType = "DYNAMIC_SIZE_NO_QUEUE"
                           THEN m_workingThreads + 1 ELSE m_workingThreads
    /\ waiting' = waiting
                    \ ((IF QueueIsFull(m_queue', m_workingThreads') THEN {} ELSE OnNotFull)
                       \cup (IF m_queue' = <<>> THEN OnEmpty ELSE {}))
    /\ UNCHANGED <<m_queueClosed, m_shutdown, m_threads, pool, cancel, cpc, callVars, seen>>

\* m_currentRunnable = work, under m_guard: from here on a cancel reaches the work.
BeginRun(t) ==
    /\ wpc[t] = "gotWork"
    /\ wpc' = [wpc EXCEPT ![t] = "run"]
    /\ UNCHANGED <<queueVars, threadVars, waiting, job, cancel, cpc, callVars, seen, status>>

\* Variant: the worker keeps its reference to the work it has run.
FinishRun_KeepsWork(t) ==
    /\ wpc[t] = "run"
    /\ status' = [status EXCEPT ![job[t]] = "done"]
    /\ wpc' = [wpc EXCEPT ![t] = IF PoolType = "FIXED_SIZE" THEN "getWork" ELSE "ranWork"]
    /\ UNCHANGED <<queueVars, threadVars, waiting, job, cancel, cpc, callVars, seen>>

\* work->run() returned, or threw something runRunnable() swallows.
FinishRun(t) ==
    /\ wpc[t] = "run"
    /\ status' = [status EXCEPT ![job[t]] = "done"]
    /\ IF PoolType = "FIXED_SIZE"
       THEN /\ wpc' = [wpc EXCEPT ![t] = "getWork"]
            /\ job' = [job EXCEPT ![t] = NoWork]
       ELSE /\ wpc' = [wpc EXCEPT ![t] = "ranWork"]
            /\ UNCHANGED job
    /\ UNCHANGED <<queueVars, threadVars, waiting, cancel, cpc, callVars, seen>>

\* A requested cancellation surfaces inside work->run(): testCancel() throws
\* ThreadCancelledException, which leaves run() without decrementWorkerCount(),
\* or pthread_cancel() ends the thread at a cancellation point.
CancelledInRun(t) ==
    /\ wpc[t] = "run" /\ cancel[t] # "none"
    /\ status' = [status EXCEPT ![job[t]] = "cut"]
    /\ wpc' = [wpc EXCEPT ![t] = IF cancel[t] = "killed" THEN "exited" ELSE "leaving"]
    /\ job' = [job EXCEPT ![t] = NoWork]
    /\ UNCHANGED <<queueVars, threadVars, waiting, cancel, cpc, callVars, seen>>

\* doneRunning() and the end of the thread.
ExitThread(t) ==
    /\ wpc[t] = "leaving"
    /\ wpc' = [wpc EXCEPT ![t] = "exited"]
    /\ UNCHANGED <<queueVars, threadVars, waiting, job, cancel, cpc, callVars, seen, status>>

WorkerStep(t) ==
    \/ SleepForWork(t) \/ QuitOnShutdown(t) \/ TakeWork(t)
    \/ BeginRun(t) \/ FinishRun(t) \/ CancelledInRun(t) \/ ExitThread(t)

(***************************************************************************)
(* Clients: the calls                                                      *)
(***************************************************************************)
CallAddWork(c, w, limit) ==
    /\ pool = "open" /\ cpc[c] = "idle"
    /\ status[w] = "new"
    /\ cpc' = [cpc EXCEPT ![c] = "add"]
    /\ offer' = [offer EXCEPT ![c] = w]
    /\ timer' = [timer EXCEPT ![c] = limit]
    /\ status' = [status EXCEPT ![w] = "offered"]
    /\ UNCHANGED <<queueVars, threadVars, waiting, workerVars, finish, seen>>

CallWaitForEmptyQueue(c) ==
    /\ pool = "open" /\ cpc[c] = "idle"
    /\ cpc' = [cpc EXCEPT ![c] = "empty"]
    /\ UNCHANGED <<queueVars, threadVars, waiting, workerVars, callVars, seen, status>>

CallShutdown(c, finishWorkInQueue, limit) ==
    /\ pool = "open" /\ cpc[c] = "idle"
    /\ cpc' = [cpc EXCEPT ![c] = "shutdown"]
    /\ finish' = [finish EXCEPT ![c] = finishWorkInQueue]
    /\ timer' = [timer EXCEPT ![c] = limit]
    /\ UNCHANGED <<queueVars, threadVars, waiting, workerVars, offer, seen, status>>

\* The last reference goes away: the destructor shuts down a pool nobody closed.
Destroy ==
    /\ pool = "open" /\ \A c \in Clients : cpc[c] = "idle"
    /\ IF QueueClosed
       THEN /\ pool' = "destroyed"
            /\ UNCHANGED <<cpc, timer>>
       ELSE /\ pool' = "destroying"
            /\ cpc' = [cpc EXCEPT ![Owner] = "shutdown"]
            /\ timer' = [timer EXCEPT ![Owner] = "definitive"]
    /\ UNCHANGED <<queueVars, m_threads, m_workingThreads, waiting, workerVars,
                   offer, finish, seen, status>>

(***************************************************************************)
(* addWork(): the parts both kinds of pool share                           *)
(***************************************************************************)
\* addWork() returns false.
RefuseWork(c) ==
    /\ status' = [status EXCEPT ![offer[c]] = "refused"]
    /\ Return(c)
    /\ UNCHANGED <<queueVars, m_threads, m_workingThreads, waiting, workerVars, seen>>

\* timedWait() on m_queueNotFull expires: false, whatever the queue is by now.
AddWorkTimesOut(c) ==
    /\ cpc[c] = "blocked" /\ c \in waiting /\ timer[c] # "infinite"
    /\ waiting' = waiting \ {c}
    /\ status' = [status EXCEPT ![offer[c]] = "refused"]
    /\ Return(c)
    /\ UNCHANGED <<queueVars, m_threads, m_workingThreads, workerVars, seen>>

(***************************************************************************)
(* waitForEmptyQueue()                                                     *)
(***************************************************************************)
WaitForEmptyQueue(c) ==
    /\ cpc[c] = "empty" /\ c \notin waiting
    /\ IF m_queue # <<>>
       THEN /\ waiting' = waiting \cup {c}
            /\ UNCHANGED <<cpc, callVars, pool>>
       ELSE /\ Return(c)
            /\ UNCHANGED waiting
    /\ UNCHANGED <<queueVars, m_threads, m_workingThreads, workerVars, seen, status>>

(***************************************************************************)
(* shutdownThreads()                                                       *)
(***************************************************************************)
\* finishOffWorkInQueue(), up to its first wait.
CloseQueue(c) ==
    /\ cpc[c] = "shutdown"
    /\ IF QueueClosed
       THEN /\ Return(c)
            /\ UNCHANGED <<queueVars, waiting>>
       ELSE /\ m_queueClosed' = TRUE
            /\ IF finish[c] /\ m_queue # <<>>
               THEN /\ cpc' = [cpc EXCEPT ![c] = "drain"]
                    /\ waiting' = waiting \cup {c}
                    /\ UNCHANGED m_shutdown
               ELSE /\ cpc' = [cpc EXCEPT ![c] = "notifyWorkers"]
                    /\ m_shutdown' = TRUE
                    /\ UNCHANGED waiting
            /\ UNCHANGED <<m_queue, callVars, pool>>
    /\ UNCHANGED <<m_threads, m_workingThreads, workerVars, seen, status>>

\* Variant: "if" for "while", the queue is not looked at again.
DrainQueue_WithoutLoop(c) ==
    /\ cpc[c] = "drain" /\ c \notin waiting
    /\ cpc' = [cpc EXCEPT ![c] = "notifyWorkers"]
    /\ m_shutdown' = TRUE
    /\ UNCHANGED <<m_queue, m_queueClosed, threadVars, waiting, workerVars, callVars, seen,
                   status>>

\* The loop of finishOffWorkInQueue() after a wakeup.
DrainQueue(c) ==
    /\ cpc[c] = "drain" /\ c \notin waiting
    /\ IF m_queue # <<>>
       THEN /\ waiting' = waiting \cup {c}
            /\ UNCHANGED <<cpc, m_shutdown>>
       ELSE /\ cpc' = [cpc EXCEPT ![c] = "notifyWorkers"]
            /\ m_shutdown' = TRUE
            /\ UNCHANGED waiting
    /\ UNCHANGED <<m_queue, m_queueClosed, threadVars, workerVars, callVars, seen, status>>

\* The wait for an empty queue expires: the work left is discarded.
DrainTimesOut(c) ==
    /\ cpc[c] = "drain" /\ c \in waiting /\ timer[c] # "infinite"
    /\ waiting' = waiting \ {c}
    /\ cpc' = [cpc EXCEPT ![c] = "notifyWorkers"]
    /\ m_shutdown' = TRUE
    /\ UNCHANGED <<m_queue, m_queueClosed, threadVars, workerVars, callVars, seen, status>>

NotifyWorkers(c) ==
    /\ cpc[c] = "notifyWorkers"
    /\ waiting' = waiting \ OnNotEmpty
    /\ cpc' = [cpc EXCEPT ![c] = "notifyAdders"]
    /\ UNCHANGED <<queueVars, threadVars, workerVars, callVars, seen, status>>

\* Variant: m_queueNotFull.notifyAll() is forgotten.
NotifyAdders_Forgotten(c) ==
    /\ cpc[c] = "notifyAdders"
    /\ cpc' = [cpc EXCEPT ![c] = IF timer[c] = "infinite" THEN "join" ELSE "coop"]
    /\ seen' = {}
    /\ UNCHANGED <<queueVars, threadVars, waiting, workerVars, callVars, status>>

NotifyAdders(c) ==
    /\ cpc[c] = "notifyAdders"
    /\ waiting' = waiting \ OnNotFull
    /\ cpc' = [cpc EXCEPT ![c] = IF timer[c] = "infinite" THEN "join" ELSE "coop"]
    /\ seen' = {}
    /\ UNCHANGED <<queueVars, threadVars, workerVars, callVars, status>>

\* m_threads[i]->cooperativeCancel(). The loop before it calls doShutdown() on the
\* Runnables, a callback that changes nothing here. A Runnable that denies the cancellation
\* throws out of shutdownThreads(), which has no handler here.
CooperativeCancel(c, t) ==
    /\ cpc[c] = "coop" /\ t \in m_threads \ seen
    /\ IF IsRunning(t) /\ CurrentRunnable(t) \in Deniers
       THEN /\ Return(c)
            /\ UNCHANGED <<cancel, seen>>
       ELSE /\ cancel' = [cancel EXCEPT ![t] = IF IsRunning(t) THEN "requested" ELSE @]
            /\ seen' = seen \cup {t}
            /\ UNCHANGED <<cpc, callVars, pool>>
    /\ UNCHANGED <<queueVars, m_threads, m_workingThreads, waiting, wpc, job, status>>

\* m_threads[i]->definitiveCancel(): the thread has exited, or it denies (the
\* exception is caught here), or the timeout expires and it is killed.
DefinitiveCancel(c, t) ==
    /\ cpc[c] = "kill" /\ t \in m_threads \ seen
    /\ seen' = seen \cup {t}
    /\ cancel' = [cancel EXCEPT ![t] = IF IsRunning(t) /\ CurrentRunnable(t) \notin Deniers
                                       THEN "killed" ELSE @]
    /\ UNCHANGED <<queueVars, threadVars, waiting, wpc, job, cpc, callVars, status>>

\* Variant: a thread that has not exited is not waited for.
JoinThread_NoWait(c, t) ==
    /\ cpc[c] = "join" /\ t \in m_threads \ seen
    /\ seen' = seen \cup {t}
    /\ UNCHANGED <<queueVars, threadVars, waiting, workerVars, cpc, callVars, status>>

\* m_threads[i]->join()
JoinThread(c, t) ==
    /\ cpc[c] = "join" /\ t \in m_threads \ seen
    /\ wpc[t] = "exited"
    /\ seen' = seen \cup {t}
    /\ UNCHANGED <<queueVars, threadVars, waiting, workerVars, cpc, callVars, status>>

\* The end of a loop over m_threads.
EndLoop(c) ==
    /\ cpc[c] \in {"coop", "kill", "join"} /\ m_threads \subseteq seen
    /\ seen' = {}
    /\ IF cpc[c] = "join"
       THEN Return(c)
       ELSE /\ cpc' = [cpc EXCEPT ![c] =
                          IF @ = "coop" /\ timer[c] = "definitive" THEN "kill" ELSE "join"]
            /\ UNCHANGED <<callVars, pool>>
    /\ UNCHANGED <<queueVars, m_threads, m_workingThreads, waiting, workerVars, status>>

ShutdownStep(c) ==
    \/ CloseQueue(c) \/ DrainQueue(c) \/ DrainTimesOut(c)
    \/ NotifyWorkers(c) \/ NotifyAdders(c) \/ EndLoop(c)
    \/ \E t \in Workers : CooperativeCancel(c, t) \/ DefinitiveCancel(c, t) \/ JoinThread(c, t)

\* pthread_cond_wait() may return without a notification.
SpuriousWakeup(x) ==
    /\ x \in waiting
    /\ waiting' = waiting \ {x}
    /\ UNCHANGED <<queueVars, threadVars, workerVars, cpc, callVars, seen, status>>

(***************************************************************************)
(* Invariants                                                              *)
(***************************************************************************)
\* Every variable keeps its type, only threads at a wait are waiting, and a worker
\* has work exactly from taking it to the end of the run.
TypeOK ==
    /\ m_queue \in Seq(Work) /\ m_queueClosed \in BOOLEAN /\ m_shutdown \in BOOLEAN
    /\ m_threads \subseteq Workers /\ m_workingThreads \in Nat
    /\ pool \in {"constructing", "open", "destroying", "destroyed"}
    /\ waiting \subseteq Workers \cup Clients
    /\ wpc \in [Workers -> WorkerPcs]
    /\ job \in [Workers -> Work \cup {NoWork}]
    /\ cancel \in [Workers -> {"none", "requested", "killed"}]
    /\ cpc \in [Clients -> ClientPcs]
    /\ offer \in [Clients -> Work \cup {NoWork}]
    /\ finish \in [Clients -> BOOLEAN]
    /\ timer \in [Clients -> Timers]
    /\ seen \subseteq Workers
    /\ status \in [Work -> Statuses]
    /\ \A t \in Workers : t \in waiting => wpc[t] = "getWork"
    /\ \A c \in Clients : c \in waiting => cpc[c] \in {"blocked", "empty", "drain"}
    /\ \A t \in Workers : job[t] # NoWork <=> wpc[t] \in {"gotWork", "run", "ranWork"}

\* No wakeup of a client is lost: none sleeps on m_queueNotFull or m_queueEmpty
\* once what it waits for has come true, except while the shutdown that ended
\* the wait for space is still to notify. getWorkFromQueue() and
\* decrementWorkerCount() notify under conditions of their own, and closing the
\* queue notifies nobody.
ClientsAwake ==
    /\ OnNotFull # {} => \/ QueueIsFull(m_queue, m_workingThreads) /\ ~m_shutdown
                         \/ \E c \in Clients : cpc[c] \in {"notifyWorkers", "notifyAdders"}
    /\ OnEmpty # {} => m_queue # <<>>

\* The destructor takes no lock "because we're the only thread left": when the
\* pool is gone no worker can still reach into it, although the destructor of a
\* closed pool waits for nothing.
OnlyThreadLeft == pool = "destroyed" => \A t \in Workers : wpc[t] \in {"unstarted", "exited"}

(***************************************************************************)
(* The inductive invariant: the parts every kind of pool shares            *)
(***************************************************************************)
\* Who is shutting down has closed the queue, and past the drain has stopped the
\* pool; who adds has something to add.
CallsFitPool ==
    /\ m_shutdown => m_queueClosed
    /\ \A c \in Clients :
          /\ cpc[c] \in CloserPcs => m_queueClosed
          /\ cpc[c] \in CloserPcs \ {"drain"} => m_shutdown
          /\ cpc[c] \in AddPcs => offer[c] \in Work

\* No wakeup of a client is lost because whoever may sleep through it is excluded by
\* the state of the shutdown.
SharedInv == TypeOK /\ CallsFitPool /\ ClientsAwake

\* The clients whose work is not accepted yet, and the workers whose work has not ended.
Offerers == {c \in Clients : cpc[c] \in {"add", "blocked"}}
Holders  == {t \in Workers : wpc[t] \in {"gotWork", "run"}}

\* Every accepted Runnable is in one place: the work that is "queued" is in m_queue,
\* once; what is "running" is held by one worker; what a client offers nobody else has.
\* Nothing is cancelled before the shutdown.
WorkAccounted ==
    /\ \A i, j \in 1..Len(m_queue) : m_queue[i] = m_queue[j] => i = j
    /\ \A i \in 1..Len(m_queue) : status[m_queue[i]] = "queued"
    /\ \A w \in Work : status[w] = "queued" => \E i \in 1..Len(m_queue) : m_queue[i] = w
    /\ \A c \in Offerers : status[offer[c]] = "offered"
    /\ \A c, d \in Offerers : offer[c] = offer[d] => c = d
    /\ \A t \in Holders : status[job[t]] = "running"
    /\ \A t, u \in Holders : job[t] = job[u] => t = u
    /\ \A w \in Work : status[w] = "running" => \E t \in Holders : job[t] = w
    /\ \A w \in Work : status[w] = "cut" => m_shutdown
    /\ \A t \in Workers : cancel[t] # "none" => m_shutdown
    /\ PoolType # "DYNAMIC_SIZE_NO_QUEUE" /\ MaxQueueSize > 0 => Len(m_queue) <= MaxQueueSize

\* The one client that closed the queue, if it waits without a limit, cancels nobody, and
\* if it also finishes the work it has left no work in the queue; at the joins it
\* passes only threads that have exited.
CloserKeepsWord ==
    /\ \A c, d \in Clients : cpc[c] \in CloserPcs /\ cpc[d] \in CloserPcs => c = d
    /\ \A c \in Clients : cpc[c] \in {"coop", "kill"} => timer[c] # "infinite"
    /\ \A c \in Clients : cpc[c] \in CloserPcs /\ timer[c] = "infinite"
          => /\ \A t \in Workers : cancel[t] = "none"
             /\ \A w \in Work : status[w] # "cut"
             /\ finish[c] /\ cpc[c] # "drain" => m_queue = <<>>
    /\ \A c \in Clients : cpc[c] = "join" => \A t \in seen : wpc[t] = "exited"
    /\ \A t \in Workers : wpc[t] # "unstarted" => t \in m_threads

(***************************************************************************)
(* Action properties                                                       *)
(***************************************************************************)
\* shutdown(E_FINISH_WORK_IN_QUEUE) with an infinite timeout returns to the
\* client that closed the queue only after all the accepted work was run to its
\* end, whoever else adds work, waits or shuts down meanwhile.
FinishMeansFinished ==
    [][\A c \in Clients :
         cpc[c] = "join" /\ cpc'[c] = "idle" /\ finish[c] /\ timer[c] = "infinite"
            => \A w \in Work : status[w] \notin {"queued", "running", "cut"}]_poolVars

(***************************************************************************)
(* Refinement and liveness                                                 *)
(***************************************************************************)
Service == INSTANCE PoolService WITH
    NumThreads <- Cardinality(Workers),
    Bound      <- IF PoolType = "DYNAMIC_SIZE_NO_QUEUE" THEN Cardinality(Workers)
                                                         ELSE MaxQueueSize,
    fate       <- [w \in Work |-> IF status[w] = "offered" THEN "new" ELSE status[w]],
    line       <- m_queue,
    closed     <- m_queueClosed,
    stopped    <- m_shutdown

\* The pool does what ThreadPool.hpp promises and nothing else.
ImplementsService == Service!ServiceSpec

\* No addWork() blocks for ever and every shutdown() returns, although the
\* workers that make room or exit are woken by other threads.
CallsReturn ==
    \A c \in Clients : cpc[c] \in {"blocked", "shutdown"} ~> cpc[c] = "idle"

\* "Wait for the queue to empty out" (ThreadPool.hpp): every waitForEmptyQueue()
\* returns once the pool has worked off or discarded its queue.
WaitForEmptyQueueReturns == \A c \in Clients : cpc[c] = "empty" ~> cpc[c] = "idle"
=============================================================================
