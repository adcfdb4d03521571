CONSTANTS
    None = None
    Interfaces <- MCInterfaces
    Kind <- MCKind
    Leases <- MCLeases
    Routers <- MCRouters
    Labels = {"home"}
    HostnameText <- MCHostnameText
    Hostnames = {"padded", "-bad-"}
    Garbage = Garbage
    Identifiers <- MCIdentifiers
    MAX_ROUNDS = 4
    MAX_ECHOES = 3
    MAX_DISTURBANCES = 3

SPECIFICATION Spec

INVARIANTS EchoesEnd RecordsCurrent NameChosen
PROPERTY IdentityKept

CHECK_DEADLOCK FALSE
