------------------------------- MODULE Thread -------------------------------
(***************************************************************************)
(* The life of one Thread object of src/blocxx/Thread.cpp: its owner, who  *)
(* starts and destroys it; the thread it stands for, in threadRunner(); and*)
(* the controllers, other threads that hold a reference to it and cancel   *)
(* it or wait for it.                                                      *)
(*                                                                         *)
(* Every stretch of code that holds m_stateGuard is one action, and so is  *)
(* every access to a flag outside it.  The two sides of the ThreadBarrier  *)
(* of start() just wait for each other (ThreadBarrier models how).         *)
(***************************************************************************)
EXTENDS Naturals, FiniteSets

CONSTANT Controllers    \* the threads that hold a reference to the object

VARIABLES
    m_id,               \* has pthread_create() stored the identifier?
    m_isRunning, m_joined, m_cancelRequested, m_cancelled,
    tpc,                \* where the thread is in threadRunner()
    ending,             \* how run() ended
    opc,                \* what the owner does
    ctl,                \* the call in which each controller is
    blocked,            \* controllers asleep in m_stateCond
    late,               \* controllers whose timedWait() on it has timed out
    returned,           \* what each controller's last call returned
    killed,             \* has pthread_cancel() been called?
    notified            \* history: calls of notifyThreadDone()

flags == <<m_isRunning, m_joined, m_cancelRequested, m_cancelled>>
threadVars == <<m_id, flags, tpc, ending, opc, ctl, blocked, late, returned, killed, notified>>

Init ==
    /\ m_id = FALSE
    /\ m_isRunning = FALSE /\ m_joined = FALSE
    /\ m_cancelRequested = FALSE /\ m_cancelled = FALSE
    /\ tpc = "none" /\ ending = "none"
    /\ opc = "new"
    /\ ctl = [c \in Controllers |-> "idle"]
    /\ blocked = {} /\ late = {}
    /\ returned = [c \in Controllers |-> "nothing"]
    /\ killed = FALSE
    /\ notified = 0

-----------------------------------------------------------------------------
\* The owner.

\* start(): createThread() gives the new thread life before it returns,
StartCreates ==
    /\ opc = "new" /\ ~m_isRunning /\ ~m_id
    /\ tpc' = "begins"
    /\ opc' = "creating"
    /\ UNCHANGED <<m_id, flags, ending, ctl, blocked, late, returned, killed, notified>>

\* (or it fails, and ThreadException leaves the object as it was)
StartFails ==
    /\ opc = "new" /\ ~m_isRunning /\ ~m_id
    /\ opc' = "gone"
    /\ UNCHANGED <<m_id, flags, tpc, ending, ctl, blocked, late, returned, killed, notified>>

\* stores m_id, and start() waits at the barrier,
StartStoresId ==
    /\ opc = "creating"
    /\ m_id' = TRUE
    /\ opc' = "barrier"
    /\ UNCHANGED <<flags, tpc, ending, ctl, blocked, late, returned, killed, notified>>

\* Variant: it is not told of a thread that has left the barrier already.
StartReturns_TooLate ==
    /\ opc = "barrier" /\ tpc = "barrier"
    /\ opc' = "started"
    /\ UNCHANGED <<m_id, flags, tpc, ending, ctl, blocked, late, returned, killed, notified>>

\* until the thread has come there, too.
StartReturns ==
    /\ opc = "barrier" /\ tpc \notin {"begins", "ended early"}
    /\ opc' = "started"
    /\ UNCHANGED <<m_id, flags, tpc, ending, ctl, blocked, late, returned, killed, notified>>

\* The destructor, when no controller is in a call any more: join().
Destruct ==
    /\ opc = "started" /\ tpc = "ended"
    /\ \A c \in Controllers : ctl[c] = "idle"
    /\ m_joined' = TRUE
    /\ opc' = "gone"
    /\ UNCHANGED <<m_id, m_isRunning, m_cancelRequested, m_cancelled>>
    /\ UNCHANGED <<tpc, ending, ctl, blocked, late, returned, killed, notified>>

-----------------------------------------------------------------------------
\* The thread.

\* saveThreadInTLS(), and m_isRunning is set before the barrier,
RunnerBegins ==
    /\ tpc = "begins"
    /\ m_isRunning' = TRUE
    /\ tpc' = "barrier"
    /\ UNCHANGED <<m_id, m_joined, m_cancelRequested, m_cancelled>>
    /\ UNCHANGED <<ending, opc, ctl, blocked, late, returned, killed, notified>>

\* but if it throws, the thread ends without having come to the barrier.
RunnerCannotBegin ==
    /\ tpc = "begins"
    /\ tpc' = "ended early"
    /\ UNCHANGED <<m_id, flags, ending, opc, ctl, blocked, late, returned, killed, notified>>

\* Variant: the barrier lets the first one through.
RunnerPassesBarrier_Alone ==
    /\ tpc = "barrier"
    /\ tpc' = "runs"
    /\ UNCHANGED <<m_id, flags, ending, opc, ctl, blocked, late, returned, killed, notified>>

RunnerPassesBarrier ==
    /\ tpc = "barrier" /\ opc # "creating"
    /\ tpc' = "runs"
    /\ UNCHANGED <<m_id, flags, ending, opc, ctl, blocked, late, returned, killed, notified>>

\* run() returns or throws, or testCancel() in it finds m_cancelRequested set.
RunEnds ==
    /\ tpc = "runs"
    /\ ending' \in {"returned", "threw"} \cup (IF m_cancelRequested THEN {"cancelled"} ELSE {})
    /\ tpc' = "done"
    /\ UNCHANGED <<m_id, flags, opc, ctl, blocked, late, returned, killed, notified>>

\* run() reaches a cancellation point: where pthread_cancel() unwinds the stack,
\* catch (...) sees it, otherwise the thread ends there and then.
RunIsKilled ==
    /\ tpc = "runs" /\ killed
    /\ \/ ending' = "unwound" /\ tpc' = "done"
       \/ ending' = "killed" /\ tpc' = "ended"
    /\ UNCHANGED <<m_id, flags, opc, ctl, blocked, late, returned, killed, notified>>

\* Variant: nobody is told.
ClearIsRunning_Silently ==
    /\ tpc = "done"
    /\ m_isRunning' = FALSE
    /\ tpc' = "callback"
    /\ UNCHANGED <<m_id, m_joined, m_cancelRequested, m_cancelled>>
    /\ UNCHANGED <<ending, opc, ctl, blocked, late, returned, killed, notified>>

\* doneRunning() under m_stateGuard,
ClearIsRunning ==
    /\ tpc = "done"
    /\ m_isRunning' = FALSE
    /\ blocked' = {}
    /\ tpc' = "callback"
    /\ UNCHANGED <<m_id, m_joined, m_cancelRequested, m_cancelled>>
    /\ UNCHANGED <<ending, opc, ctl, late, returned, killed, notified>>

\* Variant: the handlers do not rethrow, and doneRunning() is called once more.
NotifyDone_Twice ==
    /\ tpc = "callback"
    /\ notified' = notified + 1
    /\ IF ending \in {"threw", "unwound"} THEN tpc' = "done" /\ ending' = "returned"
                                         ELSE tpc' = "ended" /\ UNCHANGED ending
    /\ UNCHANGED <<m_id, flags, opc, ctl, blocked, late, returned, killed>>

\* and the callback, after which the object is not touched any more.
NotifyDone ==
    /\ tpc = "callback"
    /\ notified' = notified + 1
    /\ tpc' = "ended"
    /\ UNCHANGED <<m_id, flags, ending, opc, ctl, blocked, late, returned, killed>>

-----------------------------------------------------------------------------
\* The controllers.

\* cooperativeCancel() and definitiveCancel() look at m_isRunning first.
AskToCancel(c, call) ==
    /\ opc = "started" /\ ctl[c] = "idle"
    /\ IF m_isRunning
       THEN ctl' = [ctl EXCEPT ![c] = call] /\ UNCHANGED returned
       ELSE /\ returned' = [returned EXCEPT ![c] =
                               IF call = "definitive" THEN "true" ELSE "nothing"]
            /\ UNCHANGED ctl
    /\ UNCHANGED <<m_id, flags, tpc, ending, opc, blocked, late, killed, notified>>

\* doCooperativeCancel() throws CancellationDeniedException.
DenyCancel(c) ==
    /\ ctl[c] \in {"cooperative", "definitive"}
    /\ ctl' = [ctl EXCEPT ![c] = "idle"]
    /\ returned' = [returned EXCEPT ![c] = "nothing"]
    /\ UNCHANGED <<m_id, flags, tpc, ending, opc, blocked, late, killed, notified>>

RequestCancel(c) ==
    /\ ctl[c] \in {"cooperative", "definitive"}
    /\ m_cancelRequested' = TRUE
    /\ ctl' = [ctl EXCEPT ![c] = IF @ = "cooperative" THEN "idle" ELSE "awaits end"]
    /\ UNCHANGED <<m_id, m_isRunning, m_joined, m_cancelled>>
    /\ UNCHANGED <<tpc, ending, opc, blocked, late, returned, killed, notified>>

\* timedWait(), and shutdown() with a timeout.
CallTimedWait(c) ==
    /\ opc = "started" /\ ctl[c] = "idle"
    /\ ctl' = [ctl EXCEPT ![c] = "timedWait"]
    /\ UNCHANGED <<m_id, flags, tpc, ending, opc, blocked, late, returned, killed, notified>>

\* The conditions of the two loops on m_stateCond.
MustWait(c) ==
    \/ ctl[c] = "timedWait" /\ m_isRunning
    \/ ctl[c] = "awaits end" /\ m_isRunning /\ ~m_cancelled

BlockOnState(c) ==
    /\ MustWait(c) /\ c \notin blocked \cup late
    /\ blocked' = blocked \cup {c}
    /\ UNCHANGED <<m_id, flags, tpc, ending, opc, ctl, late, returned, killed, notified>>

WaitSucceeds(c) ==
    /\ ctl[c] \in {"timedWait", "awaits end"} /\ c \notin blocked \cup late /\ ~MustWait(c)
    /\ ctl' = [ctl EXCEPT ![c] = "idle"]
    /\ returned' = [returned EXCEPT ![c] = "true"]
    /\ UNCHANGED <<m_id, flags, tpc, ending, opc, blocked, late, killed, notified>>

\* Variant: the timeout is relative and begins anew whenever the controller is woken.
TimeExpires_Relative(c) ==
    /\ c \in blocked
    /\ blocked' = blocked \ {c} /\ late' = late \cup {c}
    /\ UNCHANGED <<m_id, flags, tpc, ending, opc, ctl, returned, killed, notified>>

\* The time is over; other threads may get m_stateGuard before this one does.  The
\* moment is absolute, so it passes however often the controller is woken.
TimeExpires(c) ==
    /\ c \in blocked \/ (MustWait(c) /\ c \notin late)
    /\ blocked' = blocked \ {c} /\ late' = late \cup {c}
    /\ UNCHANGED <<m_id, flags, tpc, ending, opc, ctl, returned, killed, notified>>

WakeSpuriously(c) ==
    /\ c \in blocked
    /\ blocked' = blocked \ {c}
    /\ UNCHANGED <<m_id, flags, tpc, ending, opc, ctl, late, returned, killed, notified>>

\* A late controller leaves its call with this result.
GivesUp(c, result) ==
    /\ c \in late
    /\ late' = late \ {c}
    /\ ctl' = [ctl EXCEPT ![c] = "idle"]
    /\ returned' = [returned EXCEPT ![c] = result]

WaitTimesOut(c) ==
    /\ ctl[c] = "timedWait"
    /\ GivesUp(c, "false")
    /\ UNCHANGED <<m_id, flags, tpc, ending, opc, blocked, killed, notified>>

\* Variant: cancel_internal(true) leaves the flags to doneRunning(), which a
\* thread that is killed without unwinding never calls.
KillAfterTimeout_KeepsFlags(c) ==
    /\ ctl[c] = "awaits end"
    /\ GivesUp(c, "false")
    /\ killed' = TRUE
    /\ UNCHANGED <<m_id, flags, tpc, ending, opc, blocked, notified>>

\* definitiveCancel() after its timeout, still with m_stateGuard: unless it turns
\* out that the thread has ended, cancel_internal(true).
KillAfterTimeout(c) ==
    /\ ctl[c] = "awaits end"
    /\ GivesUp(c, "false")
    /\ IF m_isRunning /\ ~m_cancelled
       THEN /\ killed' = TRUE
            /\ m_cancelled' = TRUE /\ m_isRunning' = FALSE
            /\ blocked' = {}
       ELSE UNCHANGED <<killed, m_cancelled, m_isRunning, blocked>>
    /\ UNCHANGED <<m_id, m_joined, m_cancelRequested, tpc, ending, opc, notified>>

\* doDefinitiveCancel() throws CancellationDeniedException instead.
DenyKill(c) ==
    /\ ctl[c] = "awaits end"
    /\ GivesUp(c, "nothing")
    /\ UNCHANGED <<m_id, flags, tpc, ending, opc, blocked, killed, notified>>

\* cancel(): ThreadImpl::cancel() first,
CancelKills(c) ==
    /\ opc = "started" /\ ctl[c] = "idle"
    /\ killed' = TRUE
    /\ ctl' = [ctl EXCEPT ![c] = "cancel"]
    /\ returned' = [returned EXCEPT ![c] = "nothing"]
    /\ UNCHANGED <<m_id, flags, tpc, ending, opc, blocked, late, notified>>

\* and then the flags, under m_stateGuard.
CancelSetsFlags(c) ==
    /\ ctl[c] = "cancel"
    /\ m_cancelled' = TRUE /\ m_isRunning' = FALSE
    /\ blocked' = {}
    /\ ctl' = [ctl EXCEPT ![c] = "idle"]
    /\ UNCHANGED <<m_id, m_joined, m_cancelRequested>>
    /\ UNCHANGED <<tpc, ending, opc, late, returned, killed, notified>>

-----------------------------------------------------------------------------
OwnerProceeds == StartStoresId \/ StartReturns \/ Destruct
RunnerProceeds == RunnerBegins \/ RunnerCannotBegin \/ RunnerPassesBarrier
                  \/ ClearIsRunning \/ NotifyDone
RunStops == RunEnds \/ RunIsKilled
Proceeds(c) == DenyCancel(c) \/ RequestCancel(c) \/ BlockOnState(c) \/ WaitSucceeds(c)
               \/ TimeExpires(c) \/ WaitTimesOut(c) \/ KillAfterTimeout(c) \/ DenyKill(c)
               \/ CancelSetsFlags(c)

Next ==
    \/ StartCreates \/ StartFails \/ OwnerProceeds
    \/ RunnerProceeds \/ RunStops
    \/ \E c \in Controllers :
          \/ \E call \in {"cooperative", "definitive"} : AskToCancel(c, call)
          \/ CallTimedWait(c) \/ CancelKills(c) \/ Proceeds(c)
          \/ WakeSpuriously(c)

Spec == Init /\ [][Next]_threadVars

\* Threads that can go on do, and timers expire; run() may go on for ever.
FairSpec ==
    /\ Spec
    /\ WF_threadVars(OwnerProceeds) /\ WF_threadVars(RunnerProceeds)
    /\ \A c \in Controllers : WF_threadVars(Proceeds(c)) /\ WF_threadVars(TimeExpires(c))

TypeOK ==
    /\ {m_id, m_isRunning, m_joined, m_cancelRequested, m_cancelled, killed} \subseteq BOOLEAN
    /\ tpc \in {"none", "begins", "barrier", "runs", "done", "callback", "ended", "ended early"}
    /\ ending \in {"none", "returned", "threw", "cancelled", "unwound", "killed"}
    /\ opc \in {"new", "creating", "barrier", "started", "gone"}
    /\ ctl \in [Controllers ->
                  {"idle", "cooperative", "definitive", "timedWait", "awaits end", "cancel"}]
    /\ blocked \cup late \subseteq {c \in Controllers : ctl[c] \in {"timedWait", "awaits end"}}
    /\ returned \in [Controllers -> {"nothing", "true", "false"}]
    /\ notified \in Nat

\* The callback is called once, however run() ended: exceptions, cooperative
\* cancellation and the unwinding of pthread_cancel() take different ways
\* through the nested handlers.  Only a thread that is killed where it stands
\* leaves it out.
NotifiedOnce ==
    /\ notified <= 1
    /\ tpc = "ended" => notified = 1 \/ ending = "killed"

\* run() finds the thread's identifier stored, although the thread may come to
\* life before pthread_create() has returned.
IdIsStored == tpc = "runs" => m_id

\* When the destructor has joined, nobody touches the object any more, and its
\* assertion holds: m_isRunning is false, also after a forced cancellation.
GoneForGood == opc = "gone" => tpc \in {"none", "ended"} /\ ~m_isRunning

\* No controller sleeps through the end of the thread, or through the forced
\* cancellation by another controller.
NobodySleepsThroughTheEnd == \A c \in blocked : MustWait(c)

\* start() returns, which depends on the new thread's coming to the barrier: it does
\* not if pthread_setspecific() fails in that thread.
StartEnds ==
    opc \in {"creating", "barrier"} ~> opc \in {"started", "gone"} \/ tpc = "ended early"

\* Every call of a controller returns, whatever the thread does.
ControllersReturn == \A c \in Controllers : ctl[c] # "idle" ~> ctl[c] = "idle"
=============================================================================
