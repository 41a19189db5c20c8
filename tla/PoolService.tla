----------------------------- MODULE PoolService -----------------------------
(***************************************************************************)
(* What src/blocxx/ThreadPool.hpp promises to a user of a pool, whatever   *)
(* its type: accepted work is started in the order it was accepted, once,  *)
(* by at most numThreads threads at a time; a closed pool accepts nothing; *)
(* a stopped one starts nothing.                                           *)
(***************************************************************************)
EXTENDS Naturals, Sequences, FiniteSets

CONSTANTS Work, NumThreads, Bound   \* Bound: the queue's size limit, 0 for none

VARIABLES
    fate,       \* what became of each Runnable
    line,       \* accepted work, oldest first
    closed,     \* a shutdown has begun
    stopped     \* the threads must start nothing more

serviceVars == <<fate, line, closed, stopped>>

ServiceInit ==
    /\ fate = [w \in Work |-> "new"]
    /\ line = <<>> /\ closed = FALSE /\ stopped = FALSE

Running == {w \in Work : fate[w] = "running"}

\* addWork() returns true.
Accept(w) ==
    /\ fate[w] = "new" /\ ~closed
    /\ Bound > 0 => Len(line) < Bound
    /\ fate' = [fate EXCEPT ![w] = "queued"]
    /\ line' = Append(line, w)
    /\ UNCHANGED <<closed, stopped>>

\* addWork() returns false.
Refuse(w) ==
    /\ fate[w] = "new"
    /\ fate' = [fate EXCEPT ![w] = "refused"]
    /\ UNCHANGED <<line, closed, stopped>>

Start ==
    /\ line # <<>> /\ ~stopped
    /\ Cardinality(Running) < NumThreads
    /\ fate' = [fate EXCEPT ![Head(line)] = "running"]
    /\ line' = Tail(line)
    /\ UNCHANGED <<closed, stopped>>

Finish(w) ==
    /\ fate[w] = "running"
    /\ fate' = [fate EXCEPT ![w] = "done"]
    /\ UNCHANGED <<line, closed, stopped>>

\* A thread of a stopped pool is cancelled in the middle of its work.
Cut(w) ==
    /\ fate[w] = "running" /\ stopped
    /\ fate' = [fate EXCEPT ![w] = "cut"]
    /\ UNCHANGED <<line, closed, stopped>>

Close ==
    /\ ~closed
    /\ closed' = TRUE /\ stopped' \in BOOLEAN
    /\ UNCHANGED <<fate, line>>

Stop ==
    /\ closed /\ ~stopped
    /\ stopped' = TRUE
    /\ UNCHANGED <<fate, line, closed>>

EndWork(w) == Finish(w) \/ Cut(w)

ServiceNext ==
    \/ Start \/ Close \/ Stop
    \/ \E w \in Work : Accept(w) \/ Refuse(w) \/ EndWork(w)

ServiceSpec == ServiceInit /\ [][ServiceNext]_serviceVars

\* The promise of progress: accepted work is started unless the pool stops.
ServiceFairness == WF_serviceVars(Start) /\ \A w \in Work : WF_serviceVars(EndWork(w))

FairServiceSpec == ServiceSpec /\ ServiceFairness
=============================================================================
