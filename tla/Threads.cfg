CONSTANTS
    Ids = {i1, i2, i3}
    MaxHeld = 2
    ThreadSet = {t1, t2, t3}
    MaxQueueSize = 2
    MaxCalls = 3
    Limits = {1, 2}
    CounterTimeouts = {"infinite", "relative", "absolute"}
    InitCount = 1
    MaxSignals = 3
    MaxObjects = 3
    Callers = {c1, c2}
    Worker = Worker
SPECIFICATION MCSpec
INVARIANTS
    ComponentTypesOK
    LockIsExclusive CountersAreExact WaitersArePending
    QueueWithinBound
    SignalsAreConserved
    OneLiveObject
    ThreadEndsOnce
    AnswersAreTheirs
PROPERTIES
    BarrierKeepsGenerationsApart
    CounterAdmitsRightly
    CallsOfThreadsReturn
CHECK_DEADLOCK FALSE
