SPECIFICATION LiveSpec
CONSTANTS
    web = web
    api = api
    NoPool = NoPool
    p1 = p1
    p2 = p2
    Pools <- OnePool
    MaxChildren <- OnePoolLimit
    Pid <- TwoProcesses
    Commands = {"I", "T", "Q", "1", "2"}
    MaxControl = 1
    PipeCap = 2
PROPERTIES
    CommandsComplete
    EveryDeathReaped
