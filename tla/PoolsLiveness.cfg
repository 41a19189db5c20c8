CONSTANTS
    Workers = {t1}
    DynamicWorkers = {t1, t2}
    Clients = {c1, c2}
    Owner = c1
    Work = {w1, w2}
    NoWork = NoWork
    MaxQueueSize = 1
    PoolType = "FIXED_SIZE"
    CallTimers = {"infinite", "finite", "definitive"}
    Deniers = {}
SPECIFICATION MCSpec
PROPERTIES PoolsImplementFairService CallsReturn
CHECK_DEADLOCK FALSE
