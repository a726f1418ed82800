SPECIFICATION Spec
CONSTANTS
    web = web
    api = api
    None = None
    Dead = Dead
    Pool <- TwoPools
    Unix <- Paths
    Inet <- Ports
    Place <- Places
    place <- Leads
    Configs <- AnyConfig
    CutBefore <- CutAtSign
    MaxFd = 3
INVARIANT
    WorkersAccept
