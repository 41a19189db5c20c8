CONSTANTS
    Pushers = {a, b, c}
    Poppers = {a, b, c}
    MaxQueueSize = 1
SPECIFICATION Spec
INVARIANT SomebodyAwake
