CONSTANTS
    None = None
    c1 = c1
    c2 = c2
    Callers <- MCCallers
    Asks <- MCAsks
    Snapshots = {s1, s2}
    IO_TIMEOUT = 2
    Limits = {1, 2}
    ACCEPT_BATCH = 2
    SocketBuffer = 3
SPECIFICATION FairSpec
INVARIANTS
    ServedAsPolled
    SubscribersCurrent
PROPERTIES
    SlotsTurnOver
    EveryoneServed
