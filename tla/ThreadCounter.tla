--------------------------- MODULE ThreadCounter ---------------------------
(***************************************************************************)
(* ThreadCounter of src/blocxx/ThreadCounter.cpp: admits at most           *)
(* m_maxThreads threads at a time, and lets a caller wait for all of them. *)
(* Both kinds of callers wait on m_runCountCondition.                      *)
(*                                                                         *)
(* Every stretch of a call that holds m_runCountGuard is one action.  A    *)
(* timeout is "relative" (counted anew by every timedWait(), as the code   *)
(* passes the caller's Timeout on), "absolute", or "infinite".             *)
(***************************************************************************)
EXTENDS Integers, FiniteSets

CONSTANTS
    Threads,        \* the threads that call the counter
    Limits,         \* the values that setMax() and the constructor are given
    CounterTimeouts \* the timeouts that callers pass

VARIABLES
    m_maxThreads,
    m_runCount,
    cpc,            \* the call in which each thread is; "admitted" between inc and dec
    dozing,         \* threads blocked in m_runCountCondition
    expiry          \* the timeout of each call; "passed" when an absolute one is over

counterVars == <<m_maxThreads, m_runCount, cpc, dozing, expiry>>

Init ==
    /\ m_maxThreads \in Limits
    /\ m_runCount = 0
    /\ cpc = [t \in Threads |-> "idle"]
    /\ dozing = {}
    /\ expiry = [t \in Threads |-> "infinite"]

\* Variant: the place that a thread is about to take counts as taken.
MustWait_OffByOne(t) ==
    \/ cpc[t] = "inc" /\ m_runCount + 1 >= m_maxThreads
    \/ cpc[t] = "waitForAll" /\ m_runCount > 0

\* What a call waits for.
MustWait(t) ==
    \/ cpc[t] = "inc" /\ m_runCount >= m_maxThreads
    \/ cpc[t] = "waitForAll" /\ m_runCount > 0

CallIncThreadCount(t, timeout) ==
    /\ cpc[t] = "idle"
    /\ cpc' = [cpc EXCEPT ![t] = "inc"]
    /\ expiry' = [expiry EXCEPT ![t] = timeout]
    /\ UNCHANGED <<m_maxThreads, m_runCount, dozing>>

CallWaitForAll(t, timeout) ==
    /\ cpc[t] = "idle"
    /\ cpc' = [cpc EXCEPT ![t] = "waitForAll"]
    /\ expiry' = [expiry EXCEPT ![t] = timeout]
    /\ UNCHANGED <<m_maxThreads, m_runCount, dozing>>

\* Both loops: timedWait() with the timeout of the call, which blocks unless the
\* moment has passed.
DozeOff(t) ==
    /\ MustWait(t) /\ t \notin dozing /\ expiry[t] # "passed"
    /\ dozing' = dozing \cup {t}
    /\ UNCHANGED <<m_maxThreads, m_runCount, cpc, expiry>>

\* Variant: "if" for "while", a woken thread is admitted whatever the count.
Admit_WithoutLoop(t) ==
    /\ cpc[t] = "inc" /\ t \notin dozing
    /\ m_runCount' = m_runCount + 1
    /\ cpc' = [cpc EXCEPT ![t] = "admitted"]
    /\ UNCHANGED <<m_maxThreads, dozing, expiry>>

Admit(t) ==
    /\ cpc[t] = "inc" /\ t \notin dozing /\ ~MustWait(t)
    /\ m_runCount' = m_runCount + 1
    /\ cpc' = [cpc EXCEPT ![t] = "admitted"]
    /\ UNCHANGED <<m_maxThreads, dozing, expiry>>

AllAreDone(t) ==
    /\ cpc[t] = "waitForAll" /\ t \notin dozing /\ ~MustWait(t)
    /\ cpc' = [cpc EXCEPT ![t] = "idle"]
    /\ UNCHANGED <<m_maxThreads, m_runCount, dozing, expiry>>

TimeIsOver(t) ==
    \/ t \in dozing /\ expiry[t] \in {"relative", "passed"}
    \/ t \notin dozing /\ MustWait(t) /\ expiry[t] = "passed"

\* Variant: the timeout takes a place along.
CounterTimesOut_Counts(t) ==
    /\ TimeIsOver(t)
    /\ dozing' = dozing \ {t}
    /\ cpc' = [cpc EXCEPT ![t] = "idle"]
    /\ m_runCount' = IF cpc[t] = "inc" THEN m_runCount + 1 ELSE m_runCount
    /\ UNCHANGED <<m_maxThreads, expiry>>

\* timedWait() returns false and the call throws TimeoutException.
CounterTimesOut(t) ==
    /\ TimeIsOver(t)
    /\ dozing' = dozing \ {t}
    /\ cpc' = [cpc EXCEPT ![t] = "idle"]
    /\ UNCHANGED <<m_maxThreads, m_runCount, expiry>>

\* The moment of an absolute timeout goes by.
MomentPasses(t) ==
    /\ cpc[t] \in {"inc", "waitForAll"} /\ expiry[t] = "absolute"
    /\ expiry' = [expiry EXCEPT ![t] = "passed"]
    /\ UNCHANGED <<m_maxThreads, m_runCount, cpc, dozing>>

DecThreadCount(t) ==
    /\ cpc[t] = "admitted"
    /\ m_runCount' = m_runCount - 1
    /\ cpc' = [cpc EXCEPT ![t] = "idle"]
    /\ dozing' = {}
    /\ UNCHANGED <<m_maxThreads, expiry>>

\* Variant: a new limit wakes nobody.
SetMax_Silently(limit) ==
    /\ m_maxThreads' = limit
    /\ UNCHANGED <<m_runCount, cpc, dozing, expiry>>

\* setMax() may put the limit below the number of threads already admitted.
SetMax(limit) ==
    /\ m_maxThreads' = limit
    /\ dozing' = {}
    /\ UNCHANGED <<m_runCount, cpc, expiry>>

WakeByChance(t) ==
    /\ t \in dozing
    /\ dozing' = dozing \ {t}
    /\ UNCHANGED <<m_maxThreads, m_runCount, cpc, expiry>>

Proceed(t) ==
    \/ DozeOff(t) \/ Admit(t) \/ AllAreDone(t) \/ CounterTimesOut(t) \/ MomentPasses(t)
    \/ DecThreadCount(t)

Next ==
    \/ \E t \in Threads : Proceed(t) \/ WakeByChance(t)
    \/ \E t \in Threads, timeout \in CounterTimeouts :
            CallIncThreadCount(t, timeout) \/ CallWaitForAll(t, timeout)
    \/ \E limit \in Limits : SetMax(limit)

Spec == Init /\ [][Next]_counterVars

\* Every runnable thread runs, every admitted one ends, and time passes.
FairSpec == Spec /\ \A t \in Threads : WF_counterVars(Proceed(t))

TypeOK ==
    /\ m_maxThreads \in Limits /\ m_runCount \in Int
    /\ cpc \in [Threads -> {"idle", "inc", "waitForAll", "admitted"}]
    /\ dozing \subseteq {t \in Threads : cpc[t] \in {"inc", "waitForAll"}}
    /\ expiry \in [Threads -> {"infinite", "relative", "absolute", "passed"}]

\* The count is the number of threads that were admitted and have not left: a
\* timeout that races a place becoming free leaves no place taken.
CountIsExact == m_runCount = Cardinality({t \in Threads : cpc[t] = "admitted"})

\* No wakeup is lost: nobody is blocked in m_runCountCondition when its
\* condition holds, although two kinds of callers share it and the limit moves.
NobodyOversleeps == \A t \in dozing : MustWait(t)

\* A thread is admitted only below the limit of that moment, which setMax() may
\* have lowered while the thread was waiting.
AdmittedBelowLimit == [][m_runCount' > m_runCount => m_runCount' <= m_maxThreads]_counterVars

\* The three together: whom the counter admits, and that nobody who could be admitted
\* sleeps.
CounterAdmitsRightly == [](CountIsExact /\ NobodyOversleeps) /\ AdmittedBelowLimit

\* No thread begins a call and nobody moves the limit.
NoNewCall ==
    /\ m_maxThreads' = m_maxThreads
    /\ \A t \in Threads : cpc[t] = "idle" => cpc'[t] = "idle"

\* Once no new calls are made, every call returns or times out: those who wait
\* for a place, those who wait for all, and those they wait for.
CounterCallsEnd ==
    <>[][NoNewCall]_counterVars
        => \A t \in Threads : cpc[t] # "idle" ~> cpc[t] = "idle"
=============================================================================
