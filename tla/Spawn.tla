------------------------------- MODULE Spawn --------------------------------
(***************************************************************************)
(* spawnImpl() of src/blocxx/PosixExec.cpp: fork, exec and the pipe        *)
(* EXEC_ERR by which the parent learns whether the program was started.    *)
(* The pipe is at its end for the parent once no process has its write end *)
(* open, and any process forked meanwhile inherits that.  The PreExec is   *)
(* one that closes all descriptors on exec, as StandardPreExec does.       *)
(***************************************************************************)
EXTENDS FiniteSets

CONSTANTS
    Spawners,           \* threads of the parent, each of which calls spawn() once
    Daemonizers,        \* those whose PreExec has m_daemonize
    SecondForkFails     \* the fork() for the daemonized child may fail

VARIABLES
    spc,        \* where a spawner is in spawnImpl()
    result,     \* how its call ended
    proc,       \* state of each child and of each daemonized child
    writers,    \* processes that have the write end of a spawner's EXEC_ERR pipe open
    message,    \* spawners to whose pipe an error was written
    started     \* history: spawners whose program was started

spawnVars == <<spc, result, proc, writers, message, started>>

Parent == <<"parent">>
Child(s) == <<"child", s>>
Daemon(s) == <<"daemon", s>>
Forked == {Child(s) : s \in Spawners} \cup {Daemon(s) : s \in Daemonizers}

\* The process that is to run the program of a spawner.
Runs(s) == IF s \in Daemonizers THEN Daemon(s) ELSE Child(s)

TypeOK ==
    /\ spc \in [Spawners -> {"idle", "piped", "forked", "reading", "killing", "done"}]
    /\ result \in [Spawners -> {"none", "process", "childError", "timedOut", "forkFailed"}]
    /\ proc \in [Forked -> {"none", "starting", "waiting", "running", "ended"}]
    /\ writers \in [Spawners -> SUBSET (Forked \cup {Parent})]
    /\ message \subseteq Spawners /\ started \subseteq Spawners

Init ==
    /\ spc = [s \in Spawners |-> "idle"]
    /\ result = [s \in Spawners |-> "none"]
    /\ proc = [p \in Forked |-> "none"]
    /\ writers = [s \in Spawners |-> {}]
    /\ message = {} /\ started = {}

(***************************************************************************)
(* Descriptors                                                             *)
(***************************************************************************)
\* A process forked by another one has what that has.
Inherit(new, from) ==
    writers' = [s \in Spawners |-> IF from \in writers[s] THEN writers[s] \cup {new}
                                                          ELSE writers[s]]

\* exec, or the end of a process, closes all it has.
CloseAllOf(p) == writers' = [s \in Spawners |-> writers[s] \ {p}]

Goto(s, step) == spc' = [spc EXCEPT ![s] = step]

Return(s, how) == Goto(s, "done") /\ result' = [result EXCEPT ![s] = how]

Becomes(p, state) == proc' = [proc EXCEPT ![p] = state]

(***************************************************************************)
(* The parent                                                              *)
(***************************************************************************)
CreatePipes(s) ==
    /\ spc[s] = "idle"
    /\ Goto(s, "piped")
    /\ writers' = [writers EXCEPT ![s] = {Parent}]
    /\ UNCHANGED <<result, proc, message, started>>

ForkChild(s) ==
    /\ spc[s] = "piped"
    /\ Goto(s, "forked")
    /\ Becomes(Child(s), "starting") /\ Inherit(Child(s), Parent)
    /\ UNCHANGED <<result, message, started>>

\* parent_check() throws, which destroys the pipes.
ForkFails(s) ==
    /\ spc[s] = "piped"
    /\ Return(s, "forkFailed")
    /\ writers' = [writers EXCEPT ![s] = @ \ {Parent}]
    /\ UNCHANGED <<proc, message, started>>

\* Variant: the parent keeps its own copy of the child's end.
CloseChildEnds_NotErr(s) ==
    /\ spc[s] = "forked"
    /\ Goto(s, "reading")
    /\ UNCHANGED <<result, proc, writers, message, started>>

CloseChildEnds(s) ==
    /\ spc[s] = "forked"
    /\ Goto(s, "reading")
    /\ writers' = [writers EXCEPT ![s] = @ \ {Parent}]
    /\ UNCHANGED <<result, proc, message, started>>

\* read() of EXEC_ERR returns something, or the end of the pipe.
ReadError(s) ==
    /\ spc[s] = "reading" /\ s \in message
    /\ Return(s, "childError")
    /\ UNCHANGED <<proc, writers, message, started>>

ReadEnd(s) ==
    /\ spc[s] = "reading" /\ s \notin message /\ writers[s] = {}
    /\ Return(s, "process")
    /\ UNCHANGED <<proc, writers, message, started>>

\* SECONDS_TO_WAIT_FOR_CHILD_TO_EXEC are over.
ReadTimesOut(s) ==
    /\ spc[s] = "reading" /\ s \notin message /\ writers[s] # {}
    /\ Goto(s, "killing")
    /\ UNCHANGED <<result, proc, writers, message, started>>

\* handle_child_error(): waitCloseTerm() with no patience, which ends the child, and the
\* exception.
KillChild(s) ==
    /\ spc[s] = "killing"
    /\ Return(s, "timedOut")
    /\ Becomes(Child(s), "ended") /\ CloseAllOf(Child(s))
    /\ UNCHANGED <<message, started>>

(***************************************************************************)
(* The processes it forked                                                 *)
(***************************************************************************)
\* The child of a PreExec with m_daemonize forks again and waits for the end of a pipe
\* of its own.
ForkDaemon(s) ==
    /\ s \in Daemonizers /\ proc[Child(s)] = "starting"
    /\ proc' = [proc EXCEPT ![Child(s)] = "waiting", ![Daemon(s)] = "starting"]
    /\ Inherit(Daemon(s), Child(s))
    /\ UNCHANGED <<spc, result, message, started>>

\* The result of the second fork() is not tested.
ForkDaemonFails(s) ==
    /\ SecondForkFails
    /\ s \in Daemonizers /\ proc[Child(s)] = "starting"
    /\ Becomes(Child(s), "waiting")
    /\ UNCHANGED <<spc, result, writers, message, started>>

\* Its pipe is at its end once the daemonized child has called exec or has ended, or its
\* own timeout is over.
IntermediateExits(s) ==
    /\ proc[Child(s)] = "waiting"
    /\ Becomes(Child(s), "ended") /\ CloseAllOf(Child(s))
    /\ UNCHANGED <<spc, result, message, started>>

\* init_child()
Exec(s) ==
    /\ proc[Runs(s)] = "starting"
    /\ Becomes(Runs(s), "running") /\ CloseAllOf(Runs(s))
    /\ started' = started \cup {s}
    /\ UNCHANGED <<spc, result, message>>

\* Variant: the error is not written.
StartupFails_Silently(s) ==
    /\ proc[Runs(s)] = "starting"
    /\ Becomes(Runs(s), "ended") /\ CloseAllOf(Runs(s))
    /\ UNCHANGED <<spc, result, message, started>>

\* The PreExec or exec fails: write() and _exit(). What the parent reads is the same if
\* it reads between the two.
StartupFails(s) ==
    /\ proc[Runs(s)] = "starting"
    /\ message' = message \cup {s}
    /\ Becomes(Runs(s), "ended") /\ CloseAllOf(Runs(s))
    /\ UNCHANGED <<spc, result, started>>

Spawning(s) ==
    \/ CreatePipes(s) \/ ForkChild(s) \/ ForkFails(s) \/ CloseChildEnds(s)
    \/ ReadError(s) \/ ReadEnd(s) \/ ReadTimesOut(s) \/ KillChild(s)

Next == \E s \in Spawners :
    \/ Spawning(s)
    \/ ForkDaemon(s) \/ ForkDaemonFails(s) \/ IntermediateExits(s)
    \/ Exec(s) \/ StartupFails(s)

\* A call goes on, and its timeout expires.
Fairness == \A s \in Spawners : WF_spawnVars(spc[s] # "idle" /\ Spawning(s))

Spec == Init /\ [][Next]_spawnVars /\ Fairness

(***************************************************************************)
(* Properties                                                              *)
(***************************************************************************)
\* A returned process has had its program started; after an error that program has not
\* been started and never will be, and after a timeout the child is dead. The
\* exception is a daemonized child whose intermediate process alone is killed.
ResultsAreTrue == \A s \in Spawners :
    CASE result[s] = "process"    -> s \in started
      [] result[s] = "childError" -> s \notin started
      [] result[s] = "forkFailed" -> proc[Child(s)] = "none"
      [] result[s] = "timedOut"   -> proc[Child(s)] = "ended"
      [] OTHER                    -> TRUE

\* Once nobody is between fork() and exec any more, no spawn() has to wait for its
\* timeout, whatever the processes forked side by side have inherited from each other.
NobodyKeepsThePipe == \A s \in Spawners :
    (spc[s] = "reading" /\ \A p \in Forked : proc[p] \notin {"starting", "waiting"})
        => s \in message \/ writers[s] = {}

SpawnIsTruthful == ResultsAreTrue /\ NobodyKeepsThePipe

\* Every call of spawn() ends.
SpawnsEnd == \A s \in Spawners : spc[s] # "idle" ~> spc[s] = "done"
=============================================================================
