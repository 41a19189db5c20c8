CONSTANTS
    Waits = {0, 1}
    KillPatience = 1
    MaxSleep = 2
    MaxPolite = 2
    InputSize = 2
    Capacity = 2
    MaxOutput = 1
    Limit = 1
    MaxBusy = 1
    NumObjects = 2
    Processes = {p1, p2}
    MaxFileSize = 2
    MaxBackupIndex = 2
    MaxLines = 6
    MaxCrashes = 2
    None = None
    Second = 4
    Limits = {0, 1, 2, 9}
    LoopTimeout = 8
    MaxFuture = 8
    MaxWork = 1
    LastActivity = 4
    Refs = {r1, r2, r3}
    CowObjects = {o1, o2, o3}
    Values = {1, 2}
    Resolution = 4
    MaxReading = 3
    MaxIds = 4
    BufSize = 2
    MaxBytes = 6
    Servers = {s1, s2, s3}
    LockFiles = {f1, f2, f3, f4}
    Spawners = {a, b}
    Daemonizers = {b}
    CodePoints = {65, 127, 128, 304, 2047, 2048, 8490, 65535, 65536, 1048575, 1114111}
    MaxLength = 2
SPECIFICATION MCSpec
INVARIANTS
    ComponentTypesOK
    PidIsTheChilds
    StreamsAreWhole
    CallbacksAreCalled
    LogIsKept
    TimesOutOnTime
    ReferencesActLikeValues
    IdsAreUnique NameLeadsToServer SpawnIsTruthful TextIsConverted
PROPERTIES
    MeasuresWaitTheirTurn NoZombieStays TempFileIsStream
    CallsOfSystemEnd
CHECK_DEADLOCK FALSE
