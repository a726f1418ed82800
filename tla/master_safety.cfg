SPECIFICATION Spec
CONSTANTS
    web = web
    api = api
    NoPool = NoPool
    p1 = p1
    p2 = p2
    Pools <- TwoPools
    MaxChildren <- OneEach
    Pid <- TwoProcesses
    Commands = {"T", "Q", "2"}
    MaxControl = 3
    PipeCap = 4
SYMMETRY Interchangeable
INVARIANTS
    PoolsFull
    NoOrphan
    NoLostReap
    EscalationArmed
    KillIsFinal
PROPERTIES
    NeverWeaker
    Supervises
