CONSTANTS
    MaxRequests = 4
    Leaving = {2}
    MaxProcesses = 2
    MaxCrashes = 1
    MaxReconfigures = 1
    NMax = 1
    NStartup = 1
    NIdle = 1
    Concurrency = 2
SPECIFICATION HelperSpec
CHECK_DEADLOCK FALSE
INVARIANTS
    HelperTypeOK
    RequestsAccounted
PROPERTIES
    EveryRequestAnswered
