CONSTANTS
    Resolution = 4
    MaxReading = 3
    MaxIds = 4
    StepsBack = TRUE
SPECIFICATION Spec
INVARIANT IdsAreUnique
CHECK_DEADLOCK FALSE
