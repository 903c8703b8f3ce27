SPECIFICATION Spec
CONSTANTS
    Imsi = {a, x}
    ValidImsi = {a}
    InitialBlacklist = {}
    m_sessionTimeoutSec = 1
    MaxTotal = 2
    MaxTime = 2
    m_shutdownRate = 1
    MaxArrivals = 1
    MaxExpirations = 1
PROPERTY ShutdownCompletes
