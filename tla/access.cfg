SPECIFICATION Spec
CONSTANTS
    Imsi = {a, x}
    ValidImsi = {a}
    InitialBlacklist = {}
    MaxTotal = 2
    READ_CDR_LIMIT = 2
    MaxLives = 2
    Clients = {c1, c2}
    MaxRecords = 4
    Repeated = {c1}
INVARIANTS AccessTypeOK CreatedMeansBilled RecentRecordsRight BilledPerLife CleanExitComplete
PROPERTY EachLifeIsALedger
CHECK_DEADLOCK FALSE
