CONSTANTS
    None = None
    Txids = {t1, t2, t3, t4}
    Infos = {i1, i2}
    RefreshTimes <- MCRefreshTimes
    FIRST_RETRANSMIT = 1
    MAX_RETRANSMIT = 5
    REFRESH_DEFAULT = 5
    REFRESH_MINIMUM = 3
    MaxUnderWay = 2
SPECIFICATION FairSpec
INVARIANTS
    OneTimerAhead
    NoLateAnswer
PROPERTIES
    Paced
    CatchesUp
