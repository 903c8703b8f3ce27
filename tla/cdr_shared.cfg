SPECIFICATION Spec
CONSTANTS
    BATCH_SIZE = 2
    READ_LIMIT = 2
    Faults = {"begin"}
    GetCdr = TRUE
    MaxRecords = 4
    MaxCrashes = 0
INVARIANTS OneWriter NoDuplicates ReportedStaysStored
PROPERTY DestructorTerminates
