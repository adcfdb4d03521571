SPECIFICATION FairSpec
CONSTANTS
    None = None
    Addresses = {a1, a2}
    Servers = {s1, s2}
    Xids = {x1, x2}
    AckTimes <- MCAckTimes
    Jitters <- MCJitters
    DISCOVERS_BEFORE_NO_OFFER = 3
    MAX_REQUESTS = 4
    MAX_REBOOTS = 2
    FIRST_BACKOFF = 2
    MAX_BACKOFF = 4
    MIN_RETRANSMIT = 2
INVARIANTS
    Consistent
PROPERTIES
    TickMakesProgress
    ImplementsLeaseService
    NothingLingers
