SPECIFICATION Spec
CONSTANTS
    TerminateTimeout = 2
    SlowlogTimeout = 1
    MaxRequests = 2
    KeepAlive = TRUE
    MaxClock = 6
INVARIANT
    TimeoutIsPerRequest
