SPECIFICATION Spec
CONSTANTS
    BATCH_SIZE = 2
    READ_LIMIT = 2
    Faults = {"begin", "insert", "insertRollback", "commit", "commitRollback"}
    GetCdr = FALSE
    MaxRecords = 4
    MaxCrashes = 1
PROPERTY RowsInWriteOrder
PROPERTY DestructorTerminates
