SPECIFICATION FairSpec
CONSTANTS
    None = None  Blocked = Blocked
    Threads = {t1, t2}
    Keys = {k1}
    Values = {v1}
    MaxCalls = 2
    MaxFaults = 0
    BusFaults = {"other"}
PROPERTY EndedReturns
PROPERTY AnsweredReturns
CHECK_DEADLOCK FALSE
