SPECIFICATION Spec
CONSTANTS
    BATCH_SIZE = 2
    READ_LIMIT = 2
    Faults = {}
    GetCdr = FALSE
    MaxRecords = 4
    MaxCrashes = 0
INVARIANTS TypeOK Lossless
PROPERTY ImplementsLedger
