SPECIFICATION Spec
CONSTANTS
    Imsi = {a, x}
    ValidImsi = {a}
    PortModulus = 65536
    IntModulus = 1048576
    Files <- MCFiles
    HttpRequests = {r1, r2}
INVARIANTS LifecycleTypeOK ConfigMeetsAssumptions NothingDangles CrashOnlyAfterException
PROPERTIES ExitZeroMeansServed NeverStuck
CHECK_DEADLOCK FALSE
