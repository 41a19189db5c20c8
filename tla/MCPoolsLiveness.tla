---------------------------- MODULE MCPoolsLiveness ----------------------------
(***************************************************************************)
(* A fixed and a dynamic pool, model-checked together under fairness: each *)
(* behaviour is one of a pool of one kind.                                 *)
(***************************************************************************)
EXTENDS FixedPool

CONSTANT DynamicWorkers

VARIABLE kind

Dynamic == INSTANCE DynamicPool WITH
    Workers <- DynamicWorkers, PoolType <- "DYNAMIC_SIZE", StartCanFail <- FALSE,
    CallTimers <- {"infinite"}

allVars == <<poolVars, kind>>

MCInit == \/ kind = "fixed" /\ Init
          \/ kind = "dynamic" /\ Dynamic!Init

MCNext ==
    /\ UNCHANGED kind
    /\ \/ kind = "fixed" /\ Next
       \/ kind = "dynamic" /\ Dynamic!Next

\* The fairness that each kind of pool states for itself.
MCFairness ==
    /\ WF_poolVars(kind = "fixed" /\ ConstructorStep)
    /\ \A t \in Workers : WF_poolVars(kind = "fixed" /\ WorkerStep(t))
    /\ \A t \in DynamicWorkers : WF_poolVars(kind = "dynamic" /\ Dynamic!DynamicWorkerStep(t))
    /\ \A c \in Clients : /\ WF_poolVars(kind = "fixed" /\ ClientStep(c))
                          /\ WF_poolVars(kind = "dynamic" /\ Dynamic!ClientStep(c))

MCSpec == MCInit /\ [][MCNext]_allVars /\ MCFairness

\* Under fair scheduling pools of both kinds keep the promise of ThreadPool.hpp that
\* accepted work is started unless the pool is shut down: a notification in addWork()
\* that wakes nobody who can serve it would strand the queue.
PoolsImplementFairService ==
    /\ Service!ServiceInit
    /\ [][IF kind = "fixed" THEN Service!ServiceNext
                            ELSE Dynamic!Service!ServiceNext]_(Service!serviceVars)
    /\ kind = "fixed" => Service!ServiceFairness
    /\ kind = "dynamic" => Dynamic!Service!ServiceFairness
=============================================================================
