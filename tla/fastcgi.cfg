CONSTANTS
    BufSize = 8192
    MaxLength = 65535
    Requests <- SomeRequests
    Lengths <- SomeLengths
    ReadSizes <- SomeReads
    MaxRequests = 2
    MaxCalls = 3
SPECIFICATION Spec
INVARIANTS
    EndFits
    Framed
    OutputIntact
    AnswersMatch
    InStepWithServer
    BodyDelivered
CHECK_DEADLOCK FALSE
