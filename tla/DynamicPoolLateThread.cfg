CONSTANTS
    Workers = {t1}
    Clients = {c1, c2}
    Owner = c1
    Work = {w1}
    NoWork = NoWork
    MaxQueueSize = 1
    PoolType = "DYNAMIC_SIZE"
    StartCanFail = FALSE
    CallTimers = {"infinite", "finite", "definitive"}
    Deniers = {}
SPECIFICATION Spec
CHECK_DEADLOCK FALSE
PROPERTY ThreadsFixedOnceShutDown
