CONSTANTS
    Workers = {t1}
    Clients = {c1, c2}
    Owner = c1
    Work = {w1}
    NoWork = NoWork
    MaxQueueSize = 1
    PoolType = "FIXED_SIZE"
    CallTimers = {"infinite", "finite", "definitive"}
    Deniers = {w1}
SPECIFICATION Spec
CHECK_DEADLOCK FALSE
INVARIANT OnlyThreadLeft
