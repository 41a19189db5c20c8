CONSTANTS
    InputSize = 2
    Replies = 1
    Capacity = 2
    MaxOutput = 2
    TimeoutTypes = {"infinite"}
    Limit = 2
    MaxBusy = 1
SPECIFICATION Spec
INVARIANT InputArrives
CHECK_DEADLOCK FALSE
