SPECIFICATION Spec
CONSTANTS
    None = None  Blocked = Blocked
    Threads = {t1, t2}
    Keys = {k1}
    Values = {v1}
    MaxCalls = 2
    MaxFaults = 1
    BusFaults = {"other"}
SYMMETRY Interchangeable
INVARIANT TypeOK
INVARIANT SessionLeftIsReported
PROPERTY PromptIsOwn
PROPERTY ImplementsRemoteContract
CHECK_DEADLOCK FALSE
