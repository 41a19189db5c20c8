--------------------------- MODULE ThreadBarrier ---------------------------
(***************************************************************************)
(* ThreadBarrierImpl of src/blocxx/ThreadBarrier.cpp, the generic          *)
(* implementation on a mutex and two condition variables that is built     *)
(* where pthread_barrier_wait() is missing.                                *)
(*                                                                         *)
(* Two SubBarriers take turns, so that a thread that calls wait() again    *)
(* does not meet those who have not left its previous call yet.  Every     *)
(* stretch of wait() that holds m_mutex is one action.                     *)
(***************************************************************************)
EXTENDS Naturals, FiniteSets

CONSTANTS
    Threads,        \* the threads that call wait()
    Threshold,      \* m_threshold
    MaxCalls        \* bound: calls of wait() each thread makes

VARIABLES
    m_curSubBarrier,    \* which SubBarrier new calls use, 0 or 1
    m_waitingCount,     \* the count of each SubBarrier
    at,                 \* the SubBarrier in whose loop each thread is
    sleeping,           \* threads blocked in an m_cond
    generation,         \* history: how many generations of waiters are complete
    calls,              \* history: calls of wait() that each thread has begun
    joined              \* history: the generation that each thread's call joined

barrierVars == <<m_curSubBarrier, m_waitingCount, at, sleeping, generation, calls, joined>>

SubBarriers == {"m_subBarrier0", "m_subBarrier1"}

Init ==
    /\ m_curSubBarrier = 0
    /\ m_waitingCount = [b \in SubBarriers |-> 0]
    /\ at = [t \in Threads |-> "outside"]
    /\ sleeping = {}
    /\ generation = 0
    /\ calls = [t \in Threads |-> 0]
    /\ joined = [t \in Threads |-> 0]

CurBarrier == IF m_curSubBarrier = 1 THEN "m_subBarrier0" ELSE "m_subBarrier1"

Enters(t) ==
    /\ at[t] = "outside" /\ calls[t] < MaxCalls
    /\ calls' = [calls EXCEPT ![t] = @ + 1]
    /\ joined' = [joined EXCEPT ![t] = generation + 1]

\* wait() of a thread that is not the last one of its generation.
JoinGeneration(t) ==
    /\ Enters(t)
    /\ m_waitingCount[CurBarrier] + 1 # Threshold
    /\ m_waitingCount' = [m_waitingCount EXCEPT ![CurBarrier] = @ + 1]
    /\ at' = [at EXCEPT ![t] = CurBarrier]
    /\ sleeping' = sleeping \cup {t}
    /\ UNCHANGED <<m_curSubBarrier, generation>>

\* Variant: the count of the SubBarrier is not reset.
CompleteGeneration_KeepsCount(t) ==
    /\ Enters(t)
    /\ m_waitingCount[CurBarrier] + 1 = Threshold
    /\ m_waitingCount' = [m_waitingCount EXCEPT ![CurBarrier] = @ + 1]
    /\ m_curSubBarrier' = 1 - m_curSubBarrier
    /\ sleeping' = {u \in sleeping : at[u] # CurBarrier}
    /\ generation' = generation + 1
    /\ UNCHANGED at

\* Variant: the SubBarriers are swapped before the condition to notify is looked up.
CompleteGeneration_NotifiesNext(t) ==
    /\ Enters(t)
    /\ m_waitingCount[CurBarrier] + 1 = Threshold
    /\ m_waitingCount' = [m_waitingCount EXCEPT ![CurBarrier] = 0]
    /\ m_curSubBarrier' = 1 - m_curSubBarrier
    /\ sleeping' = {u \in sleeping : at[u] = CurBarrier}
    /\ generation' = generation + 1
    /\ UNCHANGED at

\* The last one resets the SubBarrier, swaps them, and wakes the others.
CompleteGeneration(t) ==
    /\ Enters(t)
    /\ m_waitingCount[CurBarrier] + 1 = Threshold
    /\ m_waitingCount' = [m_waitingCount EXCEPT ![CurBarrier] = 0]
    /\ m_curSubBarrier' = 1 - m_curSubBarrier
    /\ sleeping' = {u \in sleeping : at[u] # CurBarrier}
    /\ generation' = generation + 1
    /\ UNCHANGED at

\* Variant: "if" for "while", a spurious wakeup ends the call.
LeaveBarrier_WithoutLoop(t) ==
    /\ at[t] \in SubBarriers /\ t \notin sleeping
    /\ at' = [at EXCEPT ![t] = "outside"]
    /\ UNCHANGED <<m_curSubBarrier, m_waitingCount, sleeping, generation, calls, joined>>

\* Variant: a thread leaves when both SubBarriers are reset.
LeaveBarrier_OfBoth(t) ==
    /\ at[t] \in SubBarriers /\ t \notin sleeping
    /\ \A b \in SubBarriers : m_waitingCount[b] = 0
    /\ at' = [at EXCEPT ![t] = "outside"]
    /\ UNCHANGED <<m_curSubBarrier, m_waitingCount, sleeping, generation, calls, joined>>

\* A woken thread finds its SubBarrier reset,
LeaveBarrier(t) ==
    /\ at[t] \in SubBarriers /\ t \notin sleeping
    /\ m_waitingCount[at[t]] = 0
    /\ at' = [at EXCEPT ![t] = "outside"]
    /\ UNCHANGED <<m_curSubBarrier, m_waitingCount, sleeping, generation, calls, joined>>

\* or sleeps on.
SleepAgain(t) ==
    /\ at[t] \in SubBarriers /\ t \notin sleeping
    /\ m_waitingCount[at[t]] # 0
    /\ sleeping' = sleeping \cup {t}
    /\ UNCHANGED <<m_curSubBarrier, m_waitingCount, at, generation, calls, joined>>

\* Condition::wait() throws ThreadCancelledException: the thread is gone but
\* stays counted.
CancelledAtBarrier(t) ==
    /\ at[t] \in SubBarriers /\ t \notin sleeping
    /\ at' = [at EXCEPT ![t] = "cancelled"]
    /\ UNCHANGED <<m_curSubBarrier, m_waitingCount, sleeping, generation, calls, joined>>

\* pthread_cond_wait() may return without a notification.
WakeSpuriously(t) ==
    /\ t \in sleeping
    /\ sleeping' = sleeping \ {t}
    /\ UNCHANGED <<m_curSubBarrier, m_waitingCount, at, generation, calls, joined>>

Call(t) == JoinGeneration(t) \/ CompleteGeneration(t)
Proceed(t) == LeaveBarrier(t) \/ SleepAgain(t)

Next == \E t \in Threads :
    Call(t) \/ Proceed(t) \/ CancelledAtBarrier(t) \/ WakeSpuriously(t)

Spec == Init /\ [][Next]_barrierVars

\* Every runnable thread runs, and comes to the barrier again.
FairSpec ==
    Spec /\ \A t \in Threads : WF_barrierVars(Call(t)) /\ WF_barrierVars(Proceed(t))

TypeOK ==
    /\ m_curSubBarrier \in {0, 1}
    /\ m_waitingCount \in [SubBarriers -> Nat]
    /\ at \in [Threads -> SubBarriers \cup {"outside", "cancelled"}]
    /\ sleeping \subseteq {t \in Threads : at[t] \in SubBarriers}
    /\ generation \in Nat
    /\ calls \in [Threads -> Nat] /\ joined \in [Threads -> Nat]

\* The SubBarrier in use counts exactly the calls of the generation under way, a
\* cancelled one included, and the other one nothing, whoever is still inside.
CountsThisGeneration ==
    /\ m_waitingCount[CurBarrier] = Cardinality({t \in Threads : joined[t] = generation + 1})
    /\ \A b \in SubBarriers \ {CurBarrier} : m_waitingCount[b] = 0

\* Among as many threads as the threshold nobody is left behind: a thread whose
\* generation is complete is awake and finds its SubBarrier reset, although the
\* faster ones have called wait() again by then, perhaps twice.
NobodyLeftBehind ==
    \A t \in Threads :
        at[t] \in SubBarriers /\ joined[t] <= generation
            => t \notin sleeping /\ m_waitingCount[at[t]] = 0

\* No thread returns from wait() before its generation is complete, in spite of
\* spurious wakeups and of earlier generations that still leave.
NobodyLeavesEarly ==
    [][\A t \in Threads : at[t] \in SubBarriers /\ at'[t] = "outside"
                             => joined[t] <= generation]_barrierVars

\* The three together: what a barrier owes to threads that call it again and again.
BarrierKeepsGenerationsApart ==
    [](CountsThisGeneration /\ NobodyLeftBehind) /\ NobodyLeavesEarly

\* Each of as many threads as the threshold returns from every wait(), if all of
\* them keep calling and none is cancelled.
WaitsReturn ==
    \A t \in Threads : at[t] \in SubBarriers
                          ~> at[t] = "outside" \/ \E u \in Threads : at[u] = "cancelled"
=============================================================================
