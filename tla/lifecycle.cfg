CONSTANTS
    p1 = p1
    p2 = p2
    p3 = p3
    Pid = {p1, p2, p3}
    Nobody = Nobody
    NoFile = NoFile
    Blank = Blank
    Configs <- SomeConfigs
    MaxCommands = 3
    MaxKills = 1
SPECIFICATION Spec
SYMMETRY Symmetry
INVARIANTS
    Reachable
    FilesTell
    WorkerUnprivileged
CHECK_DEADLOCK FALSE
