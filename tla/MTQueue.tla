------------------------------ MODULE MTQueue ------------------------------
(***************************************************************************)
(* MTQueue of src/blocxx/MTQueue.hpp and MTQueueBase of MTQueue.cpp: a     *)
(* bounded queue whose pushers and poppers wait on one condition variable. *)
(*                                                                         *)
(* Every stretch of a call between two waits holds m_mutex and is one      *)
(* action.  What the queue holds is abstracted to how many items it holds. *)
(***************************************************************************)
EXTENDS Naturals, FiniteSets

CONSTANTS
    Pushers,        \* threads that call pushBack()
    Poppers,        \* threads that call popFront(), possibly the same ones
    MaxQueueSize    \* m_maxQueueSize

VARIABLES
    count,              \* size of m_deque
    m_shutdown,
    m_pushesBlocked,
    m_popsBlocked,
    pc,                 \* the call in which each thread has waited: "idle" if none
    asleep,             \* threads blocked in m_cond
    patient             \* poppers whose timeout is infinite

vars == <<count, m_shutdown, m_pushesBlocked, m_popsBlocked, pc, asleep, patient>>

Threads == Pushers \cup Poppers

Init ==
    /\ count = 0 /\ m_shutdown = FALSE
    /\ m_pushesBlocked = 0 /\ m_popsBlocked = 0
    /\ pc = [t \in Threads |-> "idle"]
    /\ asleep = {} /\ patient = {}

\* notifyOne() wakes any of the sleepers, whatever they wait for.
NotifyOneIf(condition) ==
    IF condition /\ asleep # {}
    THEN \E t \in asleep : asleep' = asleep \ {t}
    ELSE UNCHANGED asleep

\* The counters of blocked calls without the calling thread, which leaves them
\* when it has the lock again.
OtherPushesBlocked(t) == IF pc[t] = "push" THEN m_pushesBlocked - 1 ELSE m_pushesBlocked
OtherPopsBlocked(t)   == IF pc[t] = "pop" THEN m_popsBlocked - 1 ELSE m_popsBlocked

Pushing(t) == t \in Pushers \ asleep /\ pc[t] \in {"idle", "push"}
Popping(t) == t \in Poppers \ asleep /\ pc[t] \in {"idle", "pop"}

Return(t) ==
    /\ pc' = [pc EXCEPT ![t] = "idle"]
    /\ patient' = patient \ {t}

BlockPush(t) ==
    /\ Pushing(t)
    /\ ~m_shutdown /\ count >= MaxQueueSize
    /\ m_pushesBlocked' = OtherPushesBlocked(t) + 1
    /\ pc' = [pc EXCEPT ![t] = "push"]
    /\ asleep' = asleep \cup {t}
    /\ UNCHANGED <<count, m_shutdown, m_popsBlocked, patient>>

\* Variant: "if" for "while", a woken pusher does not look at the size again.
PushBack_WithoutLoop(t) ==
    /\ Pushing(t)
    /\ m_shutdown \/ count < MaxQueueSize \/ pc[t] = "push"
    /\ m_pushesBlocked' = OtherPushesBlocked(t)
    /\ NotifyOneIf(m_popsBlocked > 0)
    /\ count' = IF m_shutdown THEN count ELSE count + 1
    /\ Return(t)
    /\ UNCHANGED <<m_shutdown, m_popsBlocked>>

\* A push after the shutdown returns without an effect.
PushBack(t) ==
    /\ Pushing(t)
    /\ m_shutdown \/ count < MaxQueueSize
    /\ m_pushesBlocked' = OtherPushesBlocked(t)
    /\ NotifyOneIf(m_popsBlocked > 0)
    /\ count' = IF m_shutdown THEN count ELSE count + 1
    /\ Return(t)
    /\ UNCHANGED <<m_shutdown, m_popsBlocked>>

BlockPop(t) ==
    /\ Popping(t)
    /\ ~m_shutdown /\ count = 0
    /\ m_popsBlocked' = OtherPopsBlocked(t) + 1
    /\ pc' = [pc EXCEPT ![t] = "pop"]
    /\ asleep' = asleep \cup {t}
    /\ patient' \in IF pc[t] = "idle" THEN {patient, patient \cup {t}} ELSE {patient}
    /\ UNCHANGED <<count, m_shutdown, m_pushesBlocked>>

\* After the shutdown E_SHUT_DOWN is returned, and what the queue holds stays there.
PopFront(t) ==
    /\ Popping(t)
    /\ m_shutdown \/ count # 0
    /\ m_popsBlocked' = OtherPopsBlocked(t)
    /\ NotifyOneIf(m_pushesBlocked > 0)
    /\ count' = IF m_shutdown THEN count ELSE count - 1
    /\ Return(t)
    /\ UNCHANGED <<m_shutdown, m_pushesBlocked>>

\* Variant: the call leaves without leaving the counter.
PopTimesOut_StaysCounted(t) ==
    /\ pc[t] = "pop" /\ t \in asleep \ patient
    /\ asleep' = asleep \ {t}
    /\ Return(t)
    /\ UNCHANGED <<count, m_shutdown, m_pushesBlocked, m_popsBlocked>>

\* timedWait() expires: E_TIMED_OUT, whatever the queue holds by now.
PopTimesOut(t) ==
    /\ pc[t] = "pop" /\ t \in asleep \ patient
    /\ m_popsBlocked' = OtherPopsBlocked(t)
    /\ asleep' = asleep \ {t}
    /\ Return(t)
    /\ UNCHANGED <<count, m_shutdown, m_pushesBlocked>>

\* Variant: shutdown() wakes one sleeper only.
Shutdown_NotifiesOne ==
    /\ m_shutdown' = TRUE
    /\ NotifyOneIf(TRUE)
    /\ UNCHANGED <<count, m_pushesBlocked, m_popsBlocked, pc, patient>>

Shutdown ==
    /\ m_shutdown' = TRUE
    /\ asleep' = {}
    /\ UNCHANGED <<count, m_pushesBlocked, m_popsBlocked, pc, patient>>

SpuriousWakeup(t) ==
    /\ t \in asleep
    /\ asleep' = asleep \ {t}
    /\ UNCHANGED <<count, m_shutdown, m_pushesBlocked, m_popsBlocked, pc, patient>>

Step(t) == BlockPush(t) \/ PushBack(t) \/ BlockPop(t) \/ PopFront(t) \/ PopTimesOut(t)

Next == Shutdown \/ \E t \in Threads : Step(t) \/ SpuriousWakeup(t)

Spec == Init /\ [][Next]_vars

\* The scheduler runs every thread that is in a call. Nobody need call again.
FairSpec == Spec /\ \A t \in Threads : WF_vars(pc[t] # "idle" /\ Step(t))

(***************************************************************************)
(* Properties                                                              *)
(***************************************************************************)
\* Every variable keeps its type, and the counters of blocked calls, which count
\* the threads already notified too, are exact.
TypeOK ==
    /\ count \in Nat /\ m_shutdown \in BOOLEAN
    /\ pc \in [Threads -> {"idle", "push", "pop"}]
    /\ asleep \subseteq Threads /\ patient \subseteq Poppers
    /\ m_pushesBlocked = Cardinality({t \in Threads : pc[t] = "push"})
    /\ m_popsBlocked = Cardinality({t \in Threads : pc[t] = "pop"})

\* "When this many items are in the queue, calls to pushBack() will block"
\* (MTQueue.hpp): also when several blocked pushers wake for one free place.
QueueWithinBound == count <= MaxQueueSize

\* "Add val to the back of the queue. If another thread is waiting in pop(), it
\* will be woken up" (MTQueue.hpp), and the wakeup is what makes the pair of
\* them go on: the threads in a call do not all sleep while there is an item for
\* a sleeping popper or a place for a sleeping pusher.
SomebodyAwake ==
    LET inCall == {t \in Threads : pc[t] # "idle"}
    IN  inCall \subseteq asleep
            => \A t \in inCall : IF pc[t] = "pop" THEN count = 0 ELSE count >= MaxQueueSize

\* "Any threads blocked in popFront() will be woken" by a shutdown (MTQueue.hpp),
\* and those blocked in pushBack(): every call returns.
ShutdownReleases == \A t \in Threads : m_shutdown ~> pc[t] = "idle"
=============================================================================
