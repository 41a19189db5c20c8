------------------------------ MODULE MCThreads ------------------------------
(***************************************************************************)
(* Threads and what synchronises them, model-checked together: in each     *)
(* behaviour one component, the subject, moves and the others keep their   *)
(* initial state.  The read/write lock comes with the names of its own     *)
(* module.                                                                 *)
(***************************************************************************)
EXTENDS RWLock, TLC

CONSTANTS ThreadSet, MaxQueueSize, MaxCalls, Limits, CounterTimeouts, InitCount, MaxSignals,
          MaxObjects, Callers, Worker

VARIABLES
    subject,
    count, m_shutdown, m_pushesBlocked, m_popsBlocked, qpc, qAsleep, qPatient,  \* Queue
    m_curSubBarrier, m_waitingCount, at, sleeping, generation, calls, joined,   \* Barrier
    m_maxThreads, m_runCount, cpc, dozing, expiry,                              \* Counter
    m_curCount, spc, parked, late, signals, taken,                              \* Sem
    flag, m_p, pending, holder, gpc, got, created, deleted,                     \* Lazy, Global
    m_id, m_isRunning, m_joined, m_cancelRequested, m_cancelled, tpc, ending,   \* Thread
    opc, ctl, blocked, stateLate, returned, killed, notified,
    m_work, m_signal, m_err, alive, wpc, newWork, fpc, outcome, answer          \* Fix

Queue   == INSTANCE MTQueue WITH Pushers <- ThreadSet, Poppers <- ThreadSet,
                                 pc <- qpc, asleep <- qAsleep, patient <- qPatient
Barrier == INSTANCE ThreadBarrier WITH Threads <- ThreadSet,
                                       Threshold <- Cardinality(ThreadSet)
Counter == INSTANCE ThreadCounter WITH Threads <- ThreadSet
Sem     == INSTANCE Semaphore WITH Threads <- ThreadSet
Lazy    == INSTANCE LazyGlobal WITH Threads <- ThreadSet, Class <- "LazyGlobal",
                                    StoresInOrder <- TRUE
Global  == INSTANCE LazyGlobal WITH Threads <- ThreadSet, Class <- "GlobalPtr",
                                    StoresInOrder <- TRUE
Thr     == INSTANCE Thread WITH Controllers <- Callers, late <- stateLate
Fix     == INSTANCE WaitpidThreadFix WITH cpc <- fpc

queueVars     == <<count, m_shutdown, m_pushesBlocked, m_popsBlocked, qpc, qAsleep, qPatient>>
barrierVars   == <<m_curSubBarrier, m_waitingCount, at, sleeping, generation, calls, joined>>
counterVars   == <<m_maxThreads, m_runCount, cpc, dozing, expiry>>
semaphoreVars == <<m_curCount, spc, parked, late, signals, taken>>
onceVars      == <<flag, m_p, pending, holder, gpc, got, created, deleted>>
threadVars    == <<m_id, m_isRunning, m_joined, m_cancelRequested, m_cancelled, tpc, ending,
                   opc, ctl, blocked, stateLate, returned, killed, notified>>
fixVars       == <<m_work, m_signal, m_err, alive, wpc, newWork, fpc, outcome, answer>>

allVars == <<subject, vars, queueVars, barrierVars, counterVars, semaphoreVars, onceVars,
             threadVars, fixVars>>

MCInit ==
    /\ subject \in {"lock", "queue", "barrier", "counter", "semaphore", "lazy", "global",
                    "thread", "fix"}
    /\ Init /\ Queue!Init /\ Barrier!Init /\ Counter!Init /\ Sem!Init /\ Lazy!Init
    /\ Thr!Init /\ Fix!Init
    /\ subject # "counter" => m_maxThreads = CHOOSE limit \in Limits : TRUE

\* All but the subject x stand still.
Only(x) ==
    /\ subject = x /\ UNCHANGED subject
    /\ IF x = "lock" THEN TRUE ELSE UNCHANGED vars
    /\ IF x = "queue" THEN TRUE ELSE UNCHANGED queueVars
    /\ IF x = "barrier" THEN TRUE ELSE UNCHANGED barrierVars
    /\ IF x = "counter" THEN TRUE ELSE UNCHANGED counterVars
    /\ IF x = "semaphore" THEN TRUE ELSE UNCHANGED semaphoreVars
    /\ IF x \in {"lazy", "global"} THEN TRUE ELSE UNCHANGED onceVars
    /\ IF x = "thread" THEN TRUE ELSE UNCHANGED threadVars
    /\ IF x = "fix" THEN TRUE ELSE UNCHANGED fixVars

MCNext ==
    \/ Only("lock") /\ Next
    \/ Only("queue") /\ Queue!Next
    \/ Only("barrier") /\ Barrier!Next
    \/ Only("counter") /\ Counter!Next
    \/ Only("semaphore") /\ Sem!Next
    \/ Only("lazy") /\ Lazy!Next
    \/ Only("global") /\ Global!Next
    \/ Only("thread") /\ Thr!Next
    \/ Only("fix") /\ Fix!Next

\* The fairness that each component states for itself.
MCFairness ==
    /\ \A i \in Ids : /\ WF_vars(subject = "lock" /\ Proceed(i))
                      /\ WF_vars(subject = "lock" /\ Release(i))
    /\ \A t \in ThreadSet :
          /\ WF_queueVars(subject = "queue" /\ qpc[t] # "idle" /\ Queue!Step(t))
          /\ WF_barrierVars(subject = "barrier" /\ Barrier!Call(t))
          /\ WF_barrierVars(subject = "barrier" /\ Barrier!Proceed(t))
          /\ WF_counterVars(subject = "counter" /\ Counter!Proceed(t))
          /\ WF_semaphoreVars(subject = "semaphore" /\ Sem!Proceed(t))
          /\ WF_semaphoreVars(subject = "semaphore" /\ Sem!TimerExpires(t))
          /\ WF_onceVars(subject = "lazy" /\ Lazy!GetStep(t))
          /\ WF_onceVars(subject = "global" /\ Global!GetStep(t))
    /\ WF_onceVars(subject = "lazy" /\ Lazy!StoreBecomesVisible)
    /\ WF_onceVars(subject = "global" /\ Global!StoreBecomesVisible)
    /\ WF_threadVars(subject = "thread" /\ Thr!OwnerProceeds)
    /\ WF_threadVars(subject = "thread" /\ Thr!RunnerProceeds)
    /\ WF_fixVars(subject = "fix" /\ Fix!WorkerProceeds)
    /\ \A c \in Callers :
          /\ WF_threadVars(subject = "thread" /\ Thr!Proceeds(c))
          /\ WF_threadVars(subject = "thread" /\ Thr!TimeExpires(c))
          /\ WF_fixVars(subject = "fix" /\ Fix!CallerProceeds(c))

MCSpec == MCInit /\ [][MCNext]_allVars /\ MCFairness

(***************************************************************************)
(* The properties of the components, under names of their own; those of    *)
(* the lock have theirs already                                            *)
(***************************************************************************)
\* Every variable keeps its type; the queue's counters of blocked calls are exact.
ComponentTypesOK ==
    /\ TypeOK
    /\ Queue!TypeOK /\ Barrier!TypeOK /\ Counter!TypeOK /\ Sem!TypeOK
    /\ Lazy!TypeOK /\ Global!TypeOK /\ Thr!TypeOK /\ Fix!TypeOK

\* "When this many items are in the queue, calls to pushBack() will block"
\* (MTQueue.hpp): also when several blocked pushers wake for one free place.
QueueWithinBound == Queue!QueueWithinBound

\* ThreadBarrier: the SubBarrier in use counts the generation under way exactly; a
\* thread whose generation is complete is awake and finds its SubBarrier reset, however
\* far ahead the faster threads are; no wait() returns before its generation is complete.
BarrierKeepsGenerationsApart == Barrier!BarrierKeepsGenerationsApart

\* ThreadCounter: the count is that of the threads admitted, timeouts included; each is
\* admitted below the limit of that moment; nobody is blocked when what he waits for
\* holds.
CounterAdmitsRightly == Counter!CounterAdmitsRightly

\* Semaphore: nothing is taken that was not signalled, no signal is lost to a timeout,
\* and no thread is blocked while there is something for it to take.
SignalsAreConserved == Sem!SignalsAreConserved

\* LazyGlobal and GlobalPtr: never more than one live object, however many threads race
\* for the first get() and however often the factory throws; and get() returns that
\* object, where stores are seen in order.
OneLiveObject == Lazy!OneObject /\ Lazy!GetsTheObject

\* Thread: run() finds the thread's identifier stored; however it ends, the callback is
\* called once; when the destructor has joined, nobody touches the object any more and
\* m_isRunning is false; and no controller sleeps through the end of the thread or its
\* forced cancellation by another controller.
ThreadEndsOnce ==
    /\ Thr!IdIsStored /\ Thr!NotifiedOnce /\ Thr!GoneForGood
    /\ Thr!NobodySleepsThroughTheEnd

\* WaitpidThreadFix: every caller gets the result, or the exception, of its own work;
\* the plain pointers of the queue and of the worker point to items that exist, those of
\* cancelled callers apart.
AnswersAreTheirs == Fix!AnswersAreTheirs /\ Fix!ItemsExist

\* Every call returns: of the lock and of the counter once no new calls are made; of a
\* queue that is shut down; wait() of a barrier if all threads keep calling; timedWait()
\* of the semaphore; get(), or it throws; start() of a Thread, unless the new thread
\* cannot begin, its cancellations and its timedWait(), whatever the thread does; and
\* what WaitpidThreadFix is asked, as long as there is a worker.
CallsOfThreadsReturn ==
    /\ AcquiresReturn /\ Queue!ShutdownReleases
    /\ Barrier!WaitsReturn /\ Counter!CounterCallsEnd /\ Sem!TimedWaitsReturn
    /\ Lazy!GetsReturn
    /\ Thr!StartEnds /\ Thr!ControllersReturn /\ Fix!CallersAreAnswered
=============================================================================
