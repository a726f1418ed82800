SPECIFICATION Spec
CONSTANTS
    Threshold = 3
    Interval = 2
    Boot = 3
    MaxClock = 10
    MaxFaults = 6
INVARIANTS
    RingIsHistory
PROPERTIES
    RestartExactly
