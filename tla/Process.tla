------------------------------- MODULE Process -------------------------------
(***************************************************************************)
(* Process and ZombieReaper of src/blocxx/Process.cpp with a child process *)
(* of the operating system.  One thread uses the Process object and        *)
(* finally destroys it; what the destructor cannot finish is left to a     *)
(* ZombieReaper that runs in a pool thread.                                *)
(*                                                                         *)
(* Every system call is one action.  Time is counted in periods of sleep   *)
(* of terminatesWithin(), from the beginning of the current call.  A child *)
(* that is stopped counts as running.                                      *)
(***************************************************************************)
EXTENDS Naturals

CONSTANTS
    Waits,          \* the timeouts given to waitCloseTerm(), in periods
    DtorWaits,      \* those of the destructor: wait_initial, wait_close, wait_term
    KillPatience,   \* how long killWait() waits after SIGKILL
    MaxSleep,       \* bound: how long one sleep of a period may take
    MaxPolite       \* MAX_ZOMBIE_POLL_ATTEMPTS

VARIABLES
    child,          \* "running", "zombie", "reaped"
    yieldsTo,       \* what makes the child end
    permitted,      \* may we send signals to it?
    doomed,         \* is it about to end?
    m_pid,          \* FALSE after release()
    terminated,     \* m_status.terminated()
    ppc,            \* where the Process object is
    destroying,     \* is the current call the destructor's?
    waits,          \* its three timeouts
    elapsed,        \* the time since it began
    polled,         \* the time of the last poll in terminatesWithin()
    deadline,       \* of the current terminatesWithin()
    reaper,         \* the ZombieReaper: "none", "polls", "signals", "done"
    attempts,       \* its signals
    misdirected     \* history: has a call named a pid that is no longer the child's?

os == <<child, yieldsTo, permitted, doomed>>
call == <<ppc, destroying, waits, elapsed, polled, deadline>>
processVars == <<os, m_pid, terminated, call, reaper, attempts, misdirected>>

Stages == {"initial", "close", "term", "kill"}

Init ==
    /\ child = "running" /\ doomed = FALSE
    /\ yieldsTo \in {{"SIGKILL"}, {"SIGKILL", "SIGTERM"}, {"SIGKILL", "SIGTERM", "close"}}
    /\ permitted \in BOOLEAN
    /\ m_pid = TRUE /\ terminated = FALSE
    /\ ppc = "idle" /\ destroying = FALSE
    /\ waits = <<0, 0, 0>> /\ elapsed = 0 /\ polled = 0 /\ deadline = 0
    /\ reaper = "none" /\ attempts = 0
    /\ misdirected = FALSE

-----------------------------------------------------------------------------
\* The operating system.

ChildEnds ==
    /\ child = "running"
    /\ child' = "zombie"
    /\ UNCHANGED <<yieldsTo, permitted, doomed>>
    /\ UNCHANGED <<m_pid, terminated, call, reaper, attempts, misdirected>>

TimePasses ==
    /\ ppc \in Stages /\ elapsed < polled + MaxSleep
    /\ elapsed' = elapsed + 1
    /\ UNCHANGED <<os, m_pid, terminated, ppc, destroying, waits, polled, deadline>>
    /\ UNCHANGED <<reaper, attempts, misdirected>>

\* waitpid() with WNOHANG: reaps a zombie.
Waitpid ==
    /\ child' = IF child = "zombie" THEN "reaped" ELSE child
    /\ misdirected' = (misdirected \/ child = "reaped")

Signal(measure) ==
    /\ doomed' = (doomed \/ measure \in yieldsTo)
    /\ misdirected' = (misdirected \/ child = "reaped")

-----------------------------------------------------------------------------
\* Variant: the status is asked for although the process is known to have ended.
ProcessStatus_Always ==
    /\ ppc = "idle" /\ m_pid
    /\ Waitpid
    /\ terminated' = (child = "zombie")
    /\ UNCHANGED <<yieldsTo, permitted, doomed, m_pid, call, reaper, attempts>>

ProcessStatus ==
    /\ ppc = "idle" /\ m_pid /\ ~terminated
    /\ Waitpid
    /\ terminated' = (child = "zombie")
    /\ UNCHANGED <<yieldsTo, permitted, doomed, m_pid, call, reaper, attempts>>

Release ==
    /\ ppc = "idle"
    /\ m_pid' = FALSE
    /\ UNCHANGED <<os, terminated, call, reaper, attempts, misdirected>>

\* Variant: the destructor has nothing left to try after an exception.
Return_WithoutReaper(ok) ==
    /\ ppc' = IF destroying THEN "gone" ELSE "idle"
    /\ UNCHANGED reaper

\* What the object does when the current call has ended, well or with an exception.
Return(ok) ==
    /\ ppc' = IF destroying THEN "gone" ELSE "idle"
    /\ reaper' = IF destroying /\ ~ok THEN "polls" ELSE reaper

\* The destructor of an object that has nothing to wait for.
DestructReleased ==
    /\ ppc = "idle" /\ (~m_pid \/ terminated)
    /\ ppc' = "gone"
    /\ UNCHANGED <<os, m_pid, terminated, destroying, waits, elapsed, polled, deadline>>
    /\ UNCHANGED <<reaper, attempts, misdirected>>

\* waitCloseTerm(), called or by the destructor: processStatus() first.
CallWaitCloseTerm(w, dtor) ==
    /\ ppc = "idle" /\ m_pid /\ ~terminated
    /\ Waitpid
    /\ terminated' = (child = "zombie")
    /\ destroying' = dtor
    /\ waits' = w
    /\ elapsed' = 0 /\ polled' = 0 /\ deadline' = w[1]
    /\ ppc' = IF terminated' THEN IF dtor THEN "gone" ELSE "idle" ELSE "initial"
    /\ UNCHANGED <<yieldsTo, permitted, doomed, m_pid, reaper, attempts>>

\* Variant: it looks only at whether the process has ended, not at the time.
Poll_WithoutLoop ==
    /\ ppc \in Stages /\ polled < elapsed
    /\ Waitpid
    /\ terminated' = (child = "zombie")
    /\ IF terminated' THEN Return(TRUE) ELSE UNCHANGED <<ppc, reaper>>
    /\ UNCHANGED <<yieldsTo, permitted, doomed, m_pid, destroying, waits, elapsed, polled>>
    /\ UNCHANGED <<deadline, attempts>>

\* terminatesWithin() has slept: pollStatus().
Poll ==
    /\ ppc \in Stages /\ polled < elapsed /\ polled < deadline
    /\ Waitpid
    /\ terminated' = (child = "zombie")
    /\ polled' = elapsed
    /\ IF terminated' THEN Return(TRUE) ELSE UNCHANGED <<ppc, reaper>>
    /\ UNCHANGED <<yieldsTo, permitted, doomed, m_pid, destroying, waits, elapsed, deadline>>
    /\ UNCHANGED attempts

\* terminatesWithin() returns false.  (A wait of zero is not begun, and the time
\* of one that is over before it begins is over at once.)
TimeIsUp(stage) == ppc = stage /\ polled >= deadline

\* A stage begins; its wait is measured from the start of the call.
Begin(stage, end) ==
    /\ ppc' = stage
    /\ polled' = elapsed
    /\ deadline' = end

\* The second measure: close the pipes.
CloseStreams ==
    /\ TimeIsUp("initial")
    /\ Begin("close", waits[2])
    /\ doomed' = (doomed \/ (waits[2] > 0 /\ "close" \in yieldsTo))
    /\ UNCHANGED <<child, yieldsTo, permitted, m_pid, terminated, destroying, waits, elapsed>>
    /\ UNCHANGED <<reaper, attempts, misdirected>>

\* Variant: the wait after SIGTERM is taken for the one before it.
SendSIGTERM_TooEarly ==
    /\ ppc = "close" /\ (waits[3] > 0 => permitted)
    /\ Begin("term", waits[3])
    /\ IF waits[3] > 0 THEN Signal("SIGTERM") ELSE UNCHANGED <<doomed, misdirected>>
    /\ UNCHANGED <<child, yieldsTo, permitted, m_pid, terminated, destroying, waits, elapsed>>
    /\ UNCHANGED <<reaper, attempts>>

\* The third: killWait() with SIGTERM.
SendSIGTERM ==
    /\ TimeIsUp("close") /\ (waits[3] > 0 => permitted)
    /\ Begin("term", waits[3])
    /\ IF waits[3] > 0 THEN Signal("SIGTERM") ELSE UNCHANGED <<doomed, misdirected>>
    /\ UNCHANGED <<child, yieldsTo, permitted, m_pid, terminated, destroying, waits, elapsed>>
    /\ UNCHANGED <<reaper, attempts>>

\* The last: killWait() with SIGKILL and a time of its own.
SendSIGKILL ==
    /\ TimeIsUp("term") /\ permitted
    /\ Begin("kill", elapsed + KillPatience)
    /\ Signal("SIGKILL")
    /\ UNCHANGED <<child, yieldsTo, permitted, m_pid, terminated, destroying, waits, elapsed>>
    /\ UNCHANGED <<reaper, attempts>>

\* Variant: what waitpid() says is not stored.
KillFails_ForgetsStatus ==
    /\ (TimeIsUp("close") /\ waits[3] > 0) \/ TimeIsUp("term")
    /\ ~permitted
    /\ Waitpid
    /\ Return(child = "zombie")
    /\ UNCHANGED <<yieldsTo, permitted, doomed, m_pid, terminated, destroying, waits>>
    /\ UNCHANGED <<elapsed, polled, deadline, attempts>>

\* kill() fails: the child may have ended meanwhile, otherwise an exception.
KillFails ==
    /\ (TimeIsUp("close") /\ waits[3] > 0) \/ TimeIsUp("term")
    /\ ~permitted
    /\ Waitpid
    /\ terminated' = (child = "zombie")
    /\ Return(terminated')
    /\ UNCHANGED <<yieldsTo, permitted, doomed, m_pid, destroying, waits, elapsed, polled>>
    /\ UNCHANGED <<deadline, attempts>>

\* "Child process has not terminated after sending it a SIGKILL."
KillWasInVain ==
    /\ TimeIsUp("kill")
    /\ Return(FALSE)
    /\ UNCHANGED <<os, m_pid, terminated, destroying, waits, elapsed, polled, deadline>>
    /\ UNCHANGED <<attempts, misdirected>>

-----------------------------------------------------------------------------
\* ZombieReaper::run().

ReaperPolls ==
    /\ reaper = "polls"
    /\ Waitpid
    /\ reaper' = IF child = "zombie" THEN "done" ELSE "signals"
    /\ UNCHANGED <<yieldsTo, permitted, doomed, m_pid, terminated, call, attempts>>

\* Polite at first; errors are ignored, and it sleeps before it polls again.
ReaperSignals ==
    /\ reaper = "signals"
    /\ IF permitted THEN Signal(IF attempts < MaxPolite THEN "SIGTERM" ELSE "SIGKILL")
                    ELSE UNCHANGED <<doomed, misdirected>>
    /\ attempts' = IF attempts < MaxPolite THEN attempts + 1 ELSE attempts
    /\ reaper' = "polls"
    /\ UNCHANGED <<child, yieldsTo, permitted, m_pid, terminated, call>>

-----------------------------------------------------------------------------
ObjectProceeds == Poll \/ CloseStreams \/ SendSIGTERM \/ SendSIGKILL \/ KillFails \/ KillWasInVain

Next ==
    \/ ChildEnds \/ TimePasses
    \/ ProcessStatus \/ Release \/ DestructReleased
    \/ \E w \in [1..3 -> Waits] : CallWaitCloseTerm(w, FALSE)
    \/ CallWaitCloseTerm(DtorWaits, TRUE)
    \/ ObjectProceeds
    \/ ReaperPolls \/ ReaperSignals

Spec == Init /\ [][Next]_processVars

\* Time passes, threads run, and a child that has to end does.
FairSpec ==
    /\ Spec
    /\ WF_processVars(TimePasses) /\ WF_processVars(ObjectProceeds)
    /\ WF_processVars(ReaperPolls \/ ReaperSignals)
    /\ WF_processVars(doomed /\ ChildEnds)

TypeOK ==
    /\ child \in {"running", "zombie", "reaped"}
    /\ yieldsTo \subseteq {"close", "SIGTERM", "SIGKILL"}
    /\ {permitted, doomed, m_pid, terminated, destroying, misdirected} \subseteq BOOLEAN
    /\ ppc \in {"idle", "gone"} \cup Stages
    /\ waits \in [1..3 -> Waits \cup {DtorWaits[i] : i \in 1..3}]
    /\ elapsed \in Nat /\ polled \in 0..elapsed /\ deadline \in Nat
    /\ reaper \in {"none", "polls", "signals", "done"}
    /\ attempts \in 0..MaxPolite

\* No signal and no waitpid() names the pid of a child that has been waited for:
\* the system may have given it to another process.
NeverMisdirected == ~misdirected

\* The object knows what became of the child it has waited for.
StatusIsKnown == child = "reaped" /\ reaper = "none" => terminated

\* "All timeouts are measured from the start of the function" and the measures
\* are "increasingly severe" (Process.hpp): each is taken only when the times of
\* all those before it are over.
MeasuresWaitTheirTurn ==
    [][\A i \in 1..3 :
         ppc' = <<"close", "term", "kill">>[i] /\ ppc # ppc'
            => \A j \in 1..i : elapsed >= waits[j]]_processVars

\* A destroyed Process leaves no zombie behind: whatever its destructor could not
\* finish, the ZombieReaper does, by force if it may.
NoZombieStays ==
    ppc = "gone" /\ m_pid /\ (permitted \/ child # "running") ~> child = "reaped"

\* waitCloseTerm() and the destructor end, whatever the child does.
CallsEnd == ppc \in Stages ~> ppc \notin Stages
=============================================================================
