SPECIFICATION Spec
CONSTANTS
    Threshold = 3
    Interval = 5
    Boot = 2
    MaxClock = 10
    MaxFaults = 6
INVARIANT
    RestartOnlyAtThreshold
