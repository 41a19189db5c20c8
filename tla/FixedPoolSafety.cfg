CONSTANTS
    Workers = {t1, t2}
    Clients = {c1, c2}
    Owner = c1
    Work = {w1, w2, w3}
    NoWork = NoWork
    MaxQueueSize = 1
    PoolType = "FIXED_SIZE"
    CallTimers = {"infinite", "finite", "definitive"}
    Deniers = {}
SPECIFICATION Spec
INVARIANTS TypeOK ClientsAwake WorkersAwake OnlyThreadLeft
PROPERTIES FinishMeansFinished ImplementsService
SYMMETRY Symmetry
CHECK_DEADLOCK FALSE
