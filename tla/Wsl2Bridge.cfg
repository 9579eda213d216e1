SPECIFICATION FairSpec
CONSTANTS
    None = None  Blocked = Blocked
    Threads = {t1, t2}
    Keys = {k1}
    Values = {v1, huge}
    huge = huge
    SizeOf <- MCSizeOf
    MaxCalls = 3
INVARIANT OnlyAnswersAreTaken
INVARIANT StoredCanBeRead
PROPERTY ImplementsRemoteContract
PROPERTY OperationReturns
CHECK_DEADLOCK FALSE
