CONSTANTS
    Workers = {t1}
    Clients = {c1, c2}
    Owner = c1
    Work = {w1, w2}
    NoWork = NoWork
    MaxQueueSize = 0
    PoolType = "DYNAMIC_SIZE"
    StartCanFail = FALSE
    CallTimers = {"infinite", "finite", "definitive"}
    Deniers = {}
SPECIFICATION FairSpec
CHECK_DEADLOCK FALSE
PROPERTY AcceptedWorkIsStarted
