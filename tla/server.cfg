SPECIFICATION Spec
CONSTANTS
    Imsi = {a, b, c, x}
    ValidImsi = {a, b, c}
    InitialBlacklist = {c}
    m_sessionTimeoutSec = 1
    MaxTotal = 3
    MaxTime = 5
    m_shutdownRate = 2
    MaxArrivals = 2
    MaxExpirations = 2
INVARIANTS LoopTypeOK StoppedMeansDrained SessionLifetimeBounded
PROPERTY ShutdownCompletes
