CONSTANTS
    None = None
    Interfaces <- MCInterfaces
    Kind <- MCKind
    Leases <- MCSharedLeases
    Routers <- MCSharedRouters
    Labels = {}
    HostnameText <- MCHostnameText
    Hostnames = {}
    Garbage = Garbage
    Identifiers = {}
    MAX_ROUNDS = 4
    MAX_ECHOES = 3
    MAX_DISTURBANCES = 2

SPECIFICATION FairSpec

PROPERTY ComesToRest

CHECK_DEADLOCK FALSE
