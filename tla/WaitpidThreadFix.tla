-------------------------- MODULE WaitpidThreadFix --------------------------
(***************************************************************************)
(* The worker thread of src/blocxx/WaitpidThreadFix.cpp, which spawns and  *)
(* polls processes for all other threads where waitpid() only works in the *)
(* thread that spawned the child.                                          *)
(*                                                                         *)
(* A caller makes a work item on its own heap, puts a plain pointer to it  *)
(* into the queue and waits for the item's signal.  Every stretch of code  *)
(* that holds one of the mutexes is one action.                            *)
(***************************************************************************)
EXTENDS Sequences, Naturals

CONSTANTS
    Callers,    \* the threads that call spawnProcess() and waitPid()
    Worker      \* the ProcessThread, which may make such calls itself

VARIABLES
    m_work,         \* the queue: items are named after their callers
    m_signal, m_err,\* of the item of each caller
    alive,          \* callers whose item exists
    wpc,            \* what the worker does
    newWork,        \* the item it works on
    cpc,            \* what each caller does
    outcome,        \* history: how the work on each item ended
    answer          \* history: what each caller's last call came to

fixVars == <<m_work, m_signal, m_err, alive, wpc, newWork, cpc, outcome, answer>>

Init ==
    /\ m_work = <<>>
    /\ m_signal = [c \in Callers |-> FALSE] /\ m_err = [c \in Callers |-> FALSE]
    /\ alive = {}
    /\ wpc = "gets work" /\ newWork = Worker
    /\ cpc = [c \in Callers |-> "idle"]
    /\ outcome = [c \in Callers |-> "none"] /\ answer = [c \in Callers |-> "none"]

\* spawn() and waitPid(): a new item, and addWork(), which wakes the worker.
AddWork(c) ==
    /\ cpc[c] = "idle"
    /\ alive' = alive \cup {c}
    /\ m_signal' = [m_signal EXCEPT ![c] = FALSE]
    /\ m_err' = [m_err EXCEPT ![c] = FALSE]
    /\ m_work' = Append(m_work, c)
    /\ wpc' = IF wpc = "waits for work" THEN "gets work" ELSE wpc
    /\ cpc' = [cpc EXCEPT ![c] = "waits"]
    /\ outcome' = [outcome EXCEPT ![c] = "none"]
    /\ answer' = [answer EXCEPT ![c] = "none"]
    /\ UNCHANGED newWork

\* getWork() waits while the queue is empty,
WaitForWork ==
    /\ wpc = "gets work" /\ m_work = <<>>
    /\ wpc' = "waits for work"
    /\ UNCHANGED <<m_work, m_signal, m_err, alive, newWork, cpc, outcome, answer>>

WakeSpuriously ==
    /\ wpc = "waits for work"
    /\ wpc' = "gets work"
    /\ UNCHANGED <<m_work, m_signal, m_err, alive, newWork, cpc, outcome, answer>>

\* and takes the first item.
GetWork ==
    /\ wpc = "gets work" /\ m_work # <<>>
    /\ newWork' = Head(m_work)
    /\ m_work' = Tail(m_work)
    /\ wpc' = "works"
    /\ UNCHANGED <<m_signal, m_err, alive, cpc, outcome, answer>>

\* Work that polls a process in its turn: shouldUseWaitpidThreadFix() keeps the
\* worker from waiting for itself, so
PollInWork ==
    /\ wpc = "works"
    /\ wpc' = "polls"
    /\ UNCHANGED <<m_work, m_signal, m_err, alive, newWork, cpc, outcome, answer>>

\* Variant: the worker puts the poll into its own queue and waits for it.
DoWork_WaitsForItself ==
    /\ wpc = "works"
    /\ \E o \in {"done", "exception"} :
          /\ outcome' = [outcome EXCEPT ![newWork] = o]
          /\ wpc' = IF o = "done" THEN "signals" ELSE "saves exception"
    /\ UNCHANGED <<m_work, m_signal, m_err, alive, newWork, cpc, answer>>

\* Variant: the caller is told as soon as the result is there, and once more.
DoWork_SignalsEarly ==
    /\ wpc \in {"works", "polls"}
    /\ \E o \in {"done", "exception"} :
          /\ outcome' = [outcome EXCEPT ![newWork] = o]
          /\ m_signal' = [m_signal EXCEPT ![newWork] = (o = "done")]
          /\ wpc' = IF o = "done" THEN "signals" ELSE "saves exception"
    /\ UNCHANGED <<m_work, m_err, alive, newWork, cpc, answer>>

\* doWork() returns all the same, or its exception is saved,
DoWork ==
    /\ wpc \in {"works", "polls"}
    /\ \E o \in {"done", "exception"} :
          /\ outcome' = [outcome EXCEPT ![newWork] = o]
          /\ wpc' = IF o = "done" THEN "signals" ELSE "saves exception"
    /\ UNCHANGED <<m_work, m_signal, m_err, alive, newWork, cpc, answer>>

\* Variant: the caller is told before the exception is saved.
SaveException_Late ==
    /\ wpc = "saves exception"
    /\ IF m_signal[newWork]
       THEN /\ m_err' = [m_err EXCEPT ![newWork] = TRUE]
            /\ wpc' = "gets work"
            /\ UNCHANGED m_signal
       ELSE /\ m_signal' = [m_signal EXCEPT ![newWork] = TRUE]
            /\ UNCHANGED <<m_err, wpc>>
    /\ UNCHANGED <<m_work, alive, newWork, cpc, outcome, answer>>

SaveException ==
    /\ wpc = "saves exception"
    /\ m_err' = [m_err EXCEPT ![newWork] = TRUE]
    /\ wpc' = "signals"
    /\ UNCHANGED <<m_work, m_signal, alive, newWork, cpc, outcome, answer>>

\* (but one that is not a blocxx::Exception ends run()),
WorkThrowsAlien ==
    /\ wpc = "works"
    /\ wpc' = "halted"
    /\ UNCHANGED <<m_work, m_signal, m_err, alive, newWork, cpc, outcome, answer>>

\* and the item's signal is given.
SignalDone ==
    /\ wpc = "signals"
    /\ m_signal' = [m_signal EXCEPT ![newWork] = TRUE]
    /\ wpc' = "gets work"
    /\ UNCHANGED <<m_work, m_err, alive, newWork, cpc, outcome, answer>>

\* waitTillDone() returns the result; it loops until the signal is there.
WaitTillDone(c) ==
    /\ cpc[c] = "waits" /\ m_signal[c]
    /\ cpc' = [cpc EXCEPT ![c] = "done"]
    /\ UNCHANGED <<m_work, m_signal, m_err, alive, wpc, newWork, outcome, answer>>

\* getException(), and the reference to the item goes.
ReturnOrRethrow(c) ==
    /\ cpc[c] = "done"
    /\ answer' = [answer EXCEPT ![c] = IF m_err[c] THEN "exception" ELSE "done"]
    /\ alive' = alive \ {c}
    /\ cpc' = [cpc EXCEPT ![c] = "idle"]
    /\ UNCHANGED <<m_work, m_signal, m_err, wpc, newWork, outcome>>

\* Condition::wait() throws ThreadCancelledException, and the reference goes, too.
CancelCaller(c) ==
    /\ cpc[c] = "waits"
    /\ alive' = alive \ {c}
    /\ cpc' = [cpc EXCEPT ![c] = "cancelled"]
    /\ UNCHANGED <<m_work, m_signal, m_err, wpc, newWork, outcome, answer>>

WorkerProceeds == WaitForWork \/ GetWork \/ DoWork \/ SaveException \/ SignalDone
CallerProceeds(c) == WaitTillDone(c) \/ ReturnOrRethrow(c)

Next ==
    \/ WorkerProceeds \/ WakeSpuriously \/ PollInWork \/ WorkThrowsAlien
    \/ \E c \in Callers : AddWork(c) \/ CallerProceeds(c) \/ CancelCaller(c)

Spec == Init /\ [][Next]_fixVars

\* Runnable threads run, and work comes to an end.
FairSpec ==
    /\ Spec
    /\ WF_fixVars(WorkerProceeds)
    /\ \A c \in Callers : WF_fixVars(CallerProceeds(c))

TypeOK ==
    /\ m_work \in Seq(Callers)
    /\ m_signal \in [Callers -> BOOLEAN] /\ m_err \in [Callers -> BOOLEAN]
    /\ alive \subseteq Callers
    /\ wpc \in {"gets work", "waits for work", "works", "polls", "saves exception", "signals",
                "halted"}
    /\ newWork \in Callers \cup {Worker}
    /\ cpc \in [Callers -> {"idle", "waits", "done", "cancelled"}]
    /\ outcome \in [Callers -> {"none", "done", "exception"}]
    /\ answer \in [Callers -> {"none", "done", "exception"}]

\* The plain pointers of the queue and of the worker point to items that exist:
\* a caller keeps its item for as long as the worker may touch it, unless it is
\* cancelled while it waits.
ItemsExist ==
    \A c \in Callers \ alive :
        \/ cpc[c] = "cancelled"
        \/ /\ \A i \in 1..Len(m_work) : m_work[i] # c
           /\ wpc \in {"works", "polls", "saves exception", "signals"} => newWork # c

\* Every caller gets the result, or the exception, of its own work.
AnswersAreTheirs == \A c \in Callers : answer[c] # "none" => answer[c] = outcome[c]

\* Every caller gets an answer, also when other work fails before it, unless the
\* worker has been ended by an exception that is not a blocxx::Exception.
CallersAreAnswered ==
    \A c \in Callers : cpc[c] = "waits" ~> cpc[c] # "waits" \/ wpc = "halted"
=============================================================================
