CONSTANTS
    Workers = {t1}
    Clients = {c1, c2}
    Owner = c1
    Work = {w1}
    NoWork = NoWork
    MaxQueueSize = 1
    PoolType = "FIXED_SIZE"
    CallTimers = {"infinite", "finite", "definitive"}
    Deniers = {}
SPECIFICATION FairSpec
PROPERTY WaitForEmptyQueueReturns
CHECK_DEADLOCK FALSE
