SPECIFICATION LiveSpec
CONSTANTS
    TerminateTimeout = 1
    SlowlogTimeout = 1
    MaxRequests = 3
    KeepAlive = TRUE
    MaxClock = 2
INVARIANTS
    NoTornCopy
    OneMoreRequest
    FirstTimeoutExact
PROPERTIES
    TracedOnce
    OverdueTold
    IdleQuits
    ReportsEnd
