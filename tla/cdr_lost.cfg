SPECIFICATION Spec
CONSTANTS
    BATCH_SIZE = 2
    READ_LIMIT = 2
    Faults = {}
    GetCdr = TRUE
    MaxRecords = 4
    MaxCrashes = 0
INVARIANT NothingLost
