---------------------------- MODULE TimeoutTimer ----------------------------
(***************************************************************************)
(* TimeoutTimer of src/blocxx/TimeoutTimer.cpp in the hands of its callers: *)
(* selectRW() of Select.cpp, which waits again after a signal, gatherOutput *)
(* (processInputOutput() of Exec.cpp) and SelectEngine::go(), which call    *)
(* selectRW() round after round, and Condition::timedWait(), which waits    *)
(* once.                                                                    *)
(*                                                                         *)
(* Time is counted in ticks, each of several milliseconds, of which a       *)
(* second has several.  Time passes in a wait, until the wait has to end,   *)
(* and in the work that a caller does before it waits.                      *)
(***************************************************************************)
EXTENDS Integers

CONSTANTS
    Second,         \* ticks in a second
    Limits,         \* the timeouts of the calls, in ticks
    LoopTimeout,    \* LOOP_TIMEOUT of Select.cpp
    MaxFuture,      \* max_future of Condition.cpp
    MaxWork,        \* ticks a caller needs between two waits, at most
    LastActivity    \* bound: when something last happens that ends no call

Types == {"E_ABSOLUTE", "E_RELATIVE", "E_RELATIVE_WITH_RESET"}

VARIABLES
    clock,
    caller,     \* "selectRW", "gatherOutput", "go" or "timedWait"
    interface,  \* how it waits: "asIntMs", "asTimeval" or "asTimespec"
    timer,      \* the timer of the call (but for gatherOutput() only its timeout counts)
    inner,      \* the timer of the selectRW() or timedWait() that runs
    tpc,        \* "idle", "work" of the caller, "loop" before a wait, "wait", "done"
    wakeAt,     \* when the wait ends by itself
    early,      \* whether that is before the timeout, in runCheckedTimedwait()
    expiry,     \* history: when the timeout of the call is over
    verdict     \* "timeout", "event" or "error"

timerVars == <<clock, caller, interface, timer, inner, tpc, wakeAt, early, expiry, verdict>>
callVars  == <<caller, interface>>

\* A TimeoutTimer that starts: a timeout of so many ticks, or at the tick if it is absolute.
Started(type, ticks) ==
    [type |-> type, ticks |-> ticks, m_start |-> clock, m_loopTime |-> clock]

NoTimer == [type |-> "E_RELATIVE", ticks |-> 0, m_start |-> 0, m_loopTime |-> 0]

Never == -1

Init ==
    /\ clock \in 0..(Second - 1)
    /\ caller = "selectRW" /\ interface = "asIntMs"
    /\ timer = NoTimer /\ inner = NoTimer
    /\ tpc = "idle" /\ wakeAt = 0 /\ early = FALSE /\ expiry = 0
    /\ verdict = "none"

AtMost(x, y)  == IF x <= y THEN x ELSE y
AtLeast(x, y) == IF x >= y THEN x ELSE y

(***************************************************************************)
(* The timer                                                               *)
(***************************************************************************)
loop(t) == [t EXCEPT !.m_loopTime = clock]

\* Variant: the interval starts anew whatever the type of the timeout.
resetOnLoop_Always(t) == [loop(t) EXCEPT !.m_start = clock]

resetOnLoop(t) ==
    IF t.type = "E_RELATIVE_WITH_RESET" THEN [loop(t) EXCEPT !.m_start = clock] ELSE loop(t)

expired(t) ==
    IF t.type = "E_ABSOLUTE"
    THEN t.m_loopTime >= t.ticks
    ELSE t.m_loopTime - t.m_start >= t.ticks

\* What is left of the timeout, or how long it has been over.
calcSeconds(t) ==
    IF t.type = "E_ABSOLUTE"
    THEN t.ticks - t.m_loopTime
    ELSE t.m_start - t.m_loopTime + t.ticks

\* safeAssign() of a time in seconds that is not over: rounds half a second up.
RoundedSeconds(ticks) == (ticks + (Second \div 2)) \div Second

\* asIntMs(LOOP_TIMEOUT): a tick is a whole number of milliseconds.
asIntMs(t) == AtMost(calcSeconds(t), LoopTimeout)

\* asTimeval(tv): the seconds are rounded, and then the fraction is added.
asTimevalUncapped(t) ==
    IF t.type = "E_ABSOLUTE" \/ calcSeconds(t) < 0
    THEN AtLeast(calcSeconds(t), 0)
    ELSE (Second * RoundedSeconds(calcSeconds(t))) + (calcSeconds(t) % Second)

\* Seconds or fraction are negative when an interval is over; but of minus one second
\* the rounding leaves nothing.
NegativeTimeval(t) ==
    t.type # "E_ABSOLUTE" /\ calcSeconds(t) < 0 /\ calcSeconds(t) # -Second

\* asTimeval(tv, LOOP_TIMEOUT): LOOP_TIMEOUT is a whole number of seconds.
asTimeval(t) == AtMost(asTimevalUncapped(t), LoopTimeout)

\* asTimespec(ts), an absolute time, 0 if it is over.
asTimespec(t) ==
    IF t.type = "E_ABSOLUTE"
    THEN IF t.ticks > t.m_loopTime THEN t.ticks ELSE 0
    ELSE (Second * RoundedSeconds((Second * (t.m_start \div Second)) + t.ticks))
              + (t.m_start % Second) + (t.ticks % Second)

(***************************************************************************)
(* The callers                                                             *)
(***************************************************************************)
Call(c, i, type, l) ==
    /\ tpc = "idle"
    /\ (c = "timedWait") <=> (i = "asTimespec")
    /\ caller' = c /\ interface' = i
    /\ timer' = Started(type, IF type = "E_ABSOLUTE" THEN clock + l ELSE l)
    /\ expiry' = clock + l
    /\ tpc' = "work"
    /\ UNCHANGED <<clock, inner, wakeAt, early, verdict>>

\* Time that passes before a wait: callbacks run, descriptors are collected.
Work ==
    /\ tpc = "work" /\ clock < timer.m_loopTime + MaxWork
    /\ clock' = clock + 1
    /\ UNCHANGED <<callVars, timer, inner, tpc, wakeAt, early, expiry, verdict>>

\* selectRW() or timedWait() begins, with a timer of its own. gatherOutput() hands over what
\* was left when its last round began (asRelativeTimeout()), the others the timeout itself,
\* so that the interval of go() begins anew in every round.
BeginWaiting ==
    /\ tpc = "work"
    /\ inner' = IF caller = "gatherOutput"
                THEN Started("E_RELATIVE", calcSeconds(timer))
                ELSE Started(timer.type, timer.ticks)
    /\ expiry' = IF caller = "gatherOutput" \/ timer.type = "E_ABSOLUTE"
                 THEN expiry ELSE clock + timer.ticks
    /\ tpc' = "loop"
    /\ UNCHANGED <<clock, callVars, timer, wakeAt, early, verdict>>

\* epoll_wait() and poll() take a negative time for infinite.
WaitForMilliseconds ==
    /\ tpc = "loop" /\ interface = "asIntMs"
    /\ wakeAt' = IF asIntMs(inner) < 0 THEN Never ELSE clock + asIntMs(inner)
    /\ tpc' = "wait"
    /\ UNCHANGED <<clock, callVars, timer, inner, early, expiry, verdict>>

WaitForTimeval ==
    /\ tpc = "loop" /\ interface = "asTimeval" /\ ~NegativeTimeval(inner)
    /\ wakeAt' = clock + asTimeval(inner)
    /\ tpc' = "wait"
    /\ UNCHANGED <<clock, callVars, timer, inner, early, expiry, verdict>>

\* The call is over, and its timers are gone.
Done(v) ==
    /\ tpc' = "done" /\ verdict' = v
    /\ timer' = NoTimer /\ inner' = NoTimer /\ wakeAt' = 0 /\ early' = FALSE

\* select() returns EINVAL for a negative time, and its callers throw.
SelectFails ==
    /\ tpc = "loop" /\ interface = "asTimeval" /\ NegativeTimeval(inner)
    /\ Done("error")
    /\ UNCHANGED <<clock, callVars, expiry>>

\* runCheckedTimedwait() looks no further into the future than max_future, which
\* it counts from the second it is in, and not back from that second.
CheckedTime == AtMost((Second * (clock \div Second)) + MaxFuture, asTimespec(inner))

WaitForTimespec ==
    /\ tpc = "loop" /\ interface = "asTimespec"
    /\ wakeAt' = CheckedTime
    /\ early' = (CheckedTime # asTimespec(inner))
    /\ tpc' = "wait"
    /\ UNCHANGED <<clock, callVars, timer, inner, expiry, verdict>>

Tick ==
    /\ tpc = "wait"
    /\ IF wakeAt = Never THEN clock < LastActivity ELSE clock < wakeAt
    /\ clock' = clock + 1
    /\ UNCHANGED <<callVars, timer, inner, tpc, wakeAt, early, expiry, verdict>>

\* The inner call returns to a caller that goes on.
NextRound(t) ==
    /\ tpc' = "work" /\ timer' = t /\ inner' = NoTimer /\ wakeAt' = 0
    /\ UNCHANGED <<early, verdict>>

\* After a wait that timed out, or that a signal interrupted, selectRW() calls loop(), and
\* waits again "while (ecc == 0 && !timer.expired())".
LoopAgain ==
    /\ tpc = "wait" /\ interface # "asTimespec" /\ ~expired(loop(inner))
    /\ inner' = loop(inner)
    /\ tpc' = "loop" /\ wakeAt' = 0
    /\ UNCHANGED <<clock, callVars, timer, early, expiry, verdict>>

\* selectRW() returns SELECT_TIMEOUT, which gatherOutput() believes if its own timer has
\* expired too.
SelectTimesOut ==
    /\ tpc = "wait" /\ interface # "asTimespec" /\ expired(loop(inner))
    /\ IF caller = "gatherOutput" /\ ~expired(loop(timer))
       THEN NextRound(loop(timer))
       ELSE Done("timeout")
    /\ UNCHANGED <<clock, callVars, expiry>>

\* Something is ready, and the loop of gatherOutput() or go() does not end for it. Whether
\* the timer has expired nobody asks. (The timer of go() decides nothing.)
ResetOnLoop ==
    /\ tpc = "wait" /\ caller \in {"gatherOutput", "go"} /\ clock <= LastActivity
    /\ NextRound(resetOnLoop(timer))
    /\ expiry' = IF caller = "gatherOutput" /\ timer.type = "E_RELATIVE_WITH_RESET"
                 THEN clock + timer.ticks ELSE expiry
    /\ UNCHANGED <<clock, callVars>>

Event ==
    /\ tpc = "wait"
    /\ Done("event")
    /\ UNCHANGED <<clock, callVars, expiry>>

\* ETIMEDOUT: timedWait() returns false. Before the timeout it pretends to have been
\* interrupted.
ConditionTimesOut ==
    /\ tpc = "wait" /\ interface = "asTimespec" /\ clock >= wakeAt
    /\ Done(IF early THEN "event" ELSE "timeout")
    /\ UNCHANGED <<clock, callVars, expiry>>

Next ==
    \/ \E c \in {"selectRW", "gatherOutput", "go", "timedWait"},
          i \in {"asIntMs", "asTimeval", "asTimespec"}, type \in Types, l \in Limits :
             Call(c, i, type, l)
    \/ Work \/ BeginWaiting
    \/ WaitForMilliseconds \/ WaitForTimeval \/ SelectFails \/ WaitForTimespec
    \/ Tick \/ LoopAgain \/ SelectTimesOut \/ ResetOnLoop \/ Event \/ ConditionTimesOut

Spec == Init /\ [][Next]_timerVars

(***************************************************************************)
(* Properties                                                              *)
(***************************************************************************)
\* Every variable keeps its type.
Timers == [type : Types, ticks : Int, m_start : Nat, m_loopTime : Nat]

TypeOK ==
    /\ clock \in Nat /\ expiry \in Nat /\ wakeAt \in Nat \cup {Never}
    /\ caller \in {"selectRW", "gatherOutput", "go", "timedWait"}
    /\ interface \in {"asIntMs", "asTimeval", "asTimespec"}
    /\ (caller = "timedWait") <=> (interface = "asTimespec")
    /\ timer \in Timers /\ inner \in Timers /\ early \in BOOLEAN
    /\ tpc \in {"idle", "work", "loop", "wait", "done"}
    /\ verdict \in {"none", "timeout", "event", "error"}

\* What the rounding of asTimespec() and asTimeval() adds to an interval.
RoundingAdds ==
    IF inner.type # "E_ABSOLUTE"
          /\ \/ interface = "asTimeval"
             \/ interface = "asTimespec" /\ 2 * (inner.ticks % Second) >= Second
    THEN Second ELSE 0

\* What the work before a round adds in gatherOutput(), whose rest is as old as that.
WorkAdds == IF caller = "gatherOutput" THEN MaxWork ELSE 0

\* Nobody times out before the timeout is over, however often a wait is interrupted,
\* resumed and reset. A wait that has an end goes on after that only as long as rounding
\* and the work of the last round explain, or it returns at once. A wait without end, or
\* an error, comes only to who begins to wait when the timeout is over already, as
\* gatherOutput() may without a reset, and the others with an absolute timeout.
TimesOutOnTime ==
    /\ verdict = "timeout" => clock >= expiry
    /\ tpc = "wait" /\ wakeAt # Never =>
          \/ clock <= expiry + RoundingAdds + WorkAdds
          \/ clock = inner.m_start
    /\ (tpc = "wait" /\ wakeAt = Never) \/ verdict = "error" => clock > expiry
=============================================================================
