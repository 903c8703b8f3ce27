SPECIFICATION SessionSpec
CONSTANTS
    Imsi = {a, b, bad}
    ValidImsi = {a, b}
    InitialBlacklist = {}
    m_sessionTimeoutSec = 2
    MaxTotal = 4
    MaxTime = 4
INVARIANTS SessionTypeOK StatisticsAddUp BillingMatchesSessions StatisticsMatchCdr
PROPERTY NoSessionGranted
