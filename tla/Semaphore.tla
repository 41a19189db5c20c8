----------------------------- MODULE Semaphore -----------------------------
(***************************************************************************)
(* Semaphore of src/blocxx/Semaphore.hpp.  Every stretch of a call that    *)
(* holds m_mutex is one action.  timedWait() makes one TimeoutTimer for    *)
(* the whole call, so its moment stays the same however often it is woken. *)
(***************************************************************************)
EXTENDS Integers, FiniteSets

CONSTANTS
    Threads,        \* the threads that use the semaphore
    InitCount,      \* the constructor's argument
    MaxSignals      \* bound: how often signal() is called

VARIABLES
    m_curCount,
    spc,            \* the call in which each thread is
    parked,         \* threads blocked in m_cond
    late,           \* threads whose timer has expired
    signals,        \* history: calls of signal()
    taken           \* history: waits that succeeded

semaphoreVars == <<m_curCount, spc, parked, late, signals, taken>>

Init ==
    /\ m_curCount = InitCount
    /\ spc = [t \in Threads |-> "idle"]
    /\ parked = {} /\ late = {}
    /\ signals = 0 /\ taken = 0

CallWait(t) ==
    /\ spc[t] = "idle"
    /\ \E call \in {"wait", "timedWait"} : spc' = [spc EXCEPT ![t] = call]
    /\ UNCHANGED <<m_curCount, parked, late, signals, taken>>

\* The timer of timedWait() expires, awake or asleep.
TimerExpires(t) ==
    /\ spc[t] = "timedWait" /\ t \notin late
    /\ late' = late \cup {t}
    /\ UNCHANGED <<m_curCount, spc, parked, signals, taken>>

Park(t) ==
    /\ spc[t] # "idle" /\ t \notin parked \cup late
    /\ m_curCount <= 0
    /\ parked' = parked \cup {t}
    /\ UNCHANGED <<m_curCount, spc, late, signals, taken>>

\* A late thread that finds a positive count when it looks takes it all the same.
Take(t) ==
    /\ spc[t] # "idle" /\ t \notin parked
    /\ m_curCount > 0
    /\ m_curCount' = m_curCount - 1
    /\ spc' = [spc EXCEPT ![t] = "idle"]
    /\ late' = late \ {t}
    /\ taken' = taken + 1
    /\ UNCHANGED <<parked, signals>>

\* Variant: a timeout takes a count along.
GiveUp_Decrements(t) ==
    /\ t \in late
    /\ t \in parked \/ m_curCount <= 0
    /\ m_curCount' = m_curCount - 1
    /\ spc' = [spc EXCEPT ![t] = "idle"]
    /\ parked' = parked \ {t} /\ late' = late \ {t}
    /\ UNCHANGED <<signals, taken>>

\* Variant: only a sleeper gives up.
GiveUp_OnlyAsleep(t) ==
    /\ t \in late /\ t \in parked
    /\ spc' = [spc EXCEPT ![t] = "idle"]
    /\ parked' = parked \ {t} /\ late' = late \ {t}
    /\ UNCHANGED <<m_curCount, signals, taken>>

\* The condition's timedWait() returns false: so does this one, whatever the
\* count has become since.
GiveUp(t) ==
    /\ t \in late
    /\ t \in parked \/ m_curCount <= 0
    /\ spc' = [spc EXCEPT ![t] = "idle"]
    /\ parked' = parked \ {t} /\ late' = late \ {t}
    /\ UNCHANGED <<m_curCount, signals, taken>>

\* Variant: nobody is notified unless the count was zero and one thread is enough.
Signal_NotifiesOne ==
    /\ signals < MaxSignals
    /\ m_curCount' = m_curCount + 1
    /\ IF m_curCount = 0 /\ parked # {} THEN \E t \in parked : parked' = parked \ {t}
                                        ELSE UNCHANGED parked
    /\ signals' = signals + 1
    /\ UNCHANGED <<spc, late, taken>>

Signal ==
    /\ signals < MaxSignals
    /\ m_curCount' = m_curCount + 1
    /\ parked' = {}
    /\ signals' = signals + 1
    /\ UNCHANGED <<spc, late, taken>>

WakeSpuriously(t) ==
    /\ t \in parked
    /\ parked' = parked \ {t}
    /\ UNCHANGED <<m_curCount, spc, late, signals, taken>>

Proceed(t) == Park(t) \/ Take(t) \/ GiveUp(t)

Next ==
    \/ Signal
    \/ \E t \in Threads : CallWait(t) \/ Proceed(t) \/ TimerExpires(t) \/ WakeSpuriously(t)

Spec == Init /\ [][Next]_semaphoreVars

\* Runnable threads run and timers expire.
FairSpec ==
    Spec /\ \A t \in Threads : WF_semaphoreVars(Proceed(t)) /\ WF_semaphoreVars(TimerExpires(t))

TypeOK ==
    /\ m_curCount \in Int
    /\ spc \in [Threads -> {"idle", "wait", "timedWait"}]
    /\ parked \subseteq {t \in Threads : spc[t] # "idle"}
    /\ late \subseteq {t \in Threads : spc[t] = "timedWait"}
    /\ signals \in Nat /\ taken \in Nat

\* Nothing is taken that was not signalled, nothing signalled is lost to a timeout
\* that the signal came too late for, and no thread is blocked in m_cond while
\* there is something for it to take.
SignalsAreConserved ==
    /\ m_curCount = InitCount + signals - taken
    /\ InitCount >= 0 => m_curCount >= 0
    /\ parked # {} => m_curCount <= 0

\* Every timedWait() returns, although each signal wakes all the threads to
\* compete for it.
TimedWaitsReturn == \A t \in Threads : spc[t] = "timedWait" ~> spc[t] = "idle"
=============================================================================
