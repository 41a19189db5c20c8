CONSTANTS
    Workers = {t1, t2}
    Clients = {c1, c2}
    Owner = c1
    Work = {w1, w2, w3}
    NoWork = NoWork
    MaxQueueSize = 1
    PoolType = "DYNAMIC_SIZE"
    StartCanFail = TRUE
    CallTimers = {"infinite", "finite", "definitive"}
    Deniers = {}
SPECIFICATION MCSpec
INVARIANTS TypeOK ClientsAwakeInBoth ThreadsAreBoundedInBoth
PROPERTIES FinishMeansFinished BothImplementService
SYMMETRY Symmetry
CHECK_DEADLOCK FALSE
