---------------------------- MODULE MCDynamicPools ----------------------------
(***************************************************************************)
(* The two kinds of dynamic pool, model-checked together: each behaviour   *)
(* is one of a pool of one kind.  DynamicPool with its PoolType is the     *)
(* pool with a queue, NoQueue the one without.                             *)
(***************************************************************************)
EXTENDS MCDynamicPool

VARIABLE kind

NoQueue == INSTANCE DynamicPool WITH PoolType <- "DYNAMIC_SIZE_NO_QUEUE", MaxQueueSize <- 0

allVars == <<poolVars, kind>>

MCInit == kind \in {"queue", "no queue"} /\ Init

MCNext ==
    /\ UNCHANGED kind
    /\ \/ kind = "queue" /\ Next
       \/ kind = "no queue" /\ NoQueue!Next

MCSpec == MCInit /\ [][MCNext]_allVars

\* ClientsAwake and ThreadsAreBounded of the pool at hand: CommonPool and DynamicPool
\* say what they promise of addWork(), waitForEmptyQueue() and the number of threads.
ClientsAwakeInBoth == IF kind = "queue" THEN ClientsAwake ELSE NoQueue!ClientsAwake

ThreadsAreBoundedInBoth ==
    IF kind = "queue" THEN ThreadsAreBounded ELSE NoQueue!ThreadsAreBounded

\* Pools of both kinds keep the promises of ThreadPool.hpp, each for its own bound on
\* the queue: accepted work is started in order, once, by at most numThreads threads.
BothImplementService ==
    /\ Service!ServiceInit
    /\ [][IF kind = "queue" THEN Service!ServiceNext
                            ELSE NoQueue!Service!ServiceNext]_(Service!serviceVars)
=============================================================================
